--------------------------- MODULE CompilerProofs ---------------------------
(* For all namespaces, files and calls, in a compiler alone and in one that   *)
(* becomes a scanner: a set of rules given by a prefix stays complete, names  *)
(* and indexes lead to the rule or module they are of, the strings of a rule  *)
(* are where the scanner takes them, and its matches are its own.             *)
EXTENDS Engine, SequenceFacts

-----------------------------------------------------------------------------
(* The invariant: three named parts. *)

Types ==
    /\ namespace \in Namespaces
    /\ DOMAIN namespaces = Namespaces
    /\ \A n \in Namespaces :
          namespaces[n] = [rules_indexes |-> namespaces[n].rules_indexes,
                           imported_modules |-> namespaces[n].imported_modules,
                           forbidden_rule_prefixes |->
                               namespaces[n].forbidden_rule_prefixes]
    /\ accepted \in Seq(Range(accepted))

\* The wildcards of a rule.
WildcardsOf(rule) ==
    UNION {Wildcards(t.elements) :
              t \in {u \in Range(rule.condition.terms) : u.op = "rule_set"}}

\* A namespace forbids every wildcard of its rules.
Remembered ==
    \A i \in DOMAIN accepted :
        /\ accepted[i].namespace \in Namespaces
        /\ WildcardsOf(accepted[i].rule) \subseteq
              namespaces[accepted[i].namespace].forbidden_rule_prefixes

\* No rule has a name that the wildcards of an earlier one select.
Sealed ==
    \A i, j \in DOMAIN accepted :
        i < j /\ accepted[i].namespace = accepted[j].namespace =>
            \A prefix \in WildcardsOf(accepted[i].rule) :
                <<accepted[j].rule.name, prefix>> \notin StartsWith

IInv == Types /\ Remembered /\ Sealed

(* What the names stand for needs more: three other parts. *)

\* The files open hold written components; a call that adds has one open.
Opened ==
    /\ pending \in Seq(Seq(Written))
    /\ status = "adding" => pending # <<>>

\* Names, rules and references.
Resolved ==
    /\ rules \in Seq(Range(rules)) /\ global_rules \in Seq(Range(global_rules))
    /\ \A n \in Namespaces : IsFiniteSet(DOMAIN namespaces[n].rules_indexes)
    /\ NamesFindTheirRule
    /\ RulesReadEarlierRules

\* A module added has the index 0 or, once imported, that of its slot.
Slots ==
    /\ imported_modules \in Seq(Range(imported_modules))
    /\ \A m \in DOMAIN available_modules :
          available_modules[m] # 0 =>
              /\ available_modules[m] \in DOMAIN imported_modules
              /\ imported_modules[available_modules[m]] = m
    /\ \A k \in DOMAIN imported_modules :
          /\ imported_modules[k] \in DOMAIN available_modules
          /\ available_modules[imported_modules[k]] = k
    /\ ModulesHaveOneSlot

NamesInv == IInv /\ Opened /\ Resolved /\ Slots

-----------------------------------------------------------------------------
(* Lemmas on the operators. *)

\* A rule that compiles gives all the wildcards of its sets of rules.
LEMMA WildcardsAreGiven ==
    ASSUME NEW ns, NEW rule, compile_rule(ns, rule).ok
    PROVE  WildcardsOf(rule) \subseteq compile_rule(ns, rule).wildcards
  <1> DEFINE terms == rule.condition.terms
             term(k) == compile_term(ns, rule, terms[k])
             found == [k \in DOMAIN terms |-> term(k)]
             wildcards == UNION {found[k].wildcards : k \in DOMAIN terms}
             e == [op |-> rule.condition.op,
                   ops |-> [k \in DOMAIN terms |-> found[k].expr]]
             good == [ok |-> TRUE, expr |-> e, wildcards |-> wildcards]
             names == {rule.variables[i].name : i \in DOMAIN rule.variables}
             bad == \/ Cardinality(names) # Len(rule.variables)
                    \/ \E k \in DOMAIN terms : ~found[k].ok
                    \/ names \ UsedStrings(rule) # {}
  <1>1. compile_rule(ns, rule) = IF bad THEN Error ELSE good
    BY DEF compile_rule
  <1>2. ~Error.ok
    BY DEF Error
  <1>3. ~bad /\ compile_rule(ns, rule) = good
    <2> HIDE DEF bad, good
    <2> QED
      BY <1>1, <1>2
  <1>4. compile_rule(ns, rule).wildcards = wildcards
    <2> HIDE DEF e, wildcards
    <2> QED
      BY <1>3
  <1>5. ASSUME NEW k \in DOMAIN terms, terms[k].op = "rule_set"
        PROVE  Wildcards(terms[k].elements) \subseteq wildcards
    <2>1. found[k].ok /\ found[k] = term(k)
      BY <1>3, <1>5
    <2>2. term(k) = compile_rule_set(ns, terms[k])
      <3> HIDE DEF found, wildcards, bad, good
      <3> QED
        BY <1>5 DEF compile_term
    <2>3. compile_rule_set(ns, terms[k]).wildcards = Wildcards(terms[k].elements)
      BY <2>1, <2>2, <1>2, Zenon DEF compile_rule_set
    <2> HIDE DEF found, term
    <2> QED
      BY <2>1, <2>2, <2>3
  <1> HIDE DEF wildcards
  <1>6. ASSUME NEW t \in Range(terms), t.op = "rule_set"
        PROVE  Wildcards(t.elements) \subseteq wildcards
    BY <1>5, <1>6 DEF Range
  <1> QED
    BY <1>4, <1>6 DEF WildcardsOf

\* The indexes, not 0, of the rules a namespace knows.
Known(ns) == {ns.rules_indexes[n] : n \in DOMAIN ns.rules_indexes} \ {0}

\* A term that compiles reads the results of rules the namespace knows.
LEMMA TermReadsKnown ==
    ASSUME NEW ns, NEW rule, NEW term, TermOK(term),
           IsFiniteSet(DOMAIN ns.rules_indexes),
           compile_term(ns, rule, term).ok,
           NEW e, e = compile_term(ns, rule, term).expr
    PROVE  /\ e.op = "rule" => e.index \in Known(ns)
           /\ e.op = "for_rules" => Range(e.set) \subseteq Known(ns)
  <1>0. ~Error.ok
    BY DEF Error
  <1>1. CASE term.op = "filesize_ge"
    BY <1>1 DEF compile_term, Expr
  <1>2. CASE term.op = "string"
    <2> DEFINE named == {i \in DOMAIN rule.variables :
                            rule.variables[i].name = term.name}
    <2>1. compile_term(ns, rule, term) =
             IF named = {} THEN Error
             ELSE Expr([op |-> "variable", var |-> Min(named)])
      BY <1>2 DEF compile_term
    <2> HIDE DEF named
    <2>2. compile_term(ns, rule, term) = Expr([op |-> "variable", var |-> Min(named)])
      BY <1>0, <2>1
    <2> QED
      BY <2>2 DEF Expr
  <1>3. CASE term.op = "any_of_them"
    <2> DEFINE strings == DOMAIN rule.variables
               body == [op |-> "for", selection |-> [kind |-> "any"],
                        set |-> [i \in strings |-> i],
                        body |-> [op |-> "variable", var |-> 0]]
    <2>1. compile_term(ns, rule, term) =
             IF strings = {} THEN Error ELSE Expr(body)
      BY <1>3 DEF compile_term
    <2>2. compile_term(ns, rule, term) = Expr(body)
      BY <1>0, <2>1
    <2> QED
      BY <2>2 DEF Expr
  <1>4. CASE term.op = "identifier"
    <2> DEFINE name == term.name
               index == ns.rules_indexes[name]
    <2>1. compile_term(ns, rule, term) = compile_identifier(ns, name)
      BY <1>4 DEF compile_term
    <2>2. \/ compile_identifier(ns, name) = Expr(Module(ns.imported_modules[name]))
          \/ /\ name \in DOMAIN ns.rules_indexes
             /\ compile_identifier(ns, name) =
                   Expr(IF index = 0 THEN GlobalHolds
                        ELSE [op |-> "rule", index |-> index])
          \/ compile_identifier(ns, name) =
                Expr([op |-> "external", index |-> IndexOf(external_symbols, name)])
          \/ compile_identifier(ns, name) = Error
      BY DEF compile_identifier
    <2>3. CASE compile_term(ns, rule, term) = Expr(Module(ns.imported_modules[name]))
      BY <2>3 DEF Expr, Module
    <2>4. CASE /\ name \in DOMAIN ns.rules_indexes
               /\ compile_term(ns, rule, term) =
                     Expr(IF index = 0 THEN GlobalHolds
                          ELSE [op |-> "rule", index |-> index])
      BY <2>4 DEF Expr, GlobalHolds, Known
    <2>5. CASE compile_term(ns, rule, term) =
                  Expr([op |-> "external", index |-> IndexOf(external_symbols, name)])
      BY <2>5 DEF Expr
    <2> QED
      BY <1>0, <2>1, <2>2, <2>3, <2>4, <2>5
  <1>5. CASE term.op = "rule_set"
    <2> DEFINE elements == DOMAIN term.elements
               names(k) == NamesOf(ns, term.elements[k])
               global(k) == {n \in names(k) : ns.rules_indexes[n] = 0}
               of(k) == {ns.rules_indexes[n] : n \in names(k) \ global(k)}
               seqs == [k \in elements |-> SetToSeq(of(k))]
    <2>1. compile_term(ns, rule, term) = compile_rule_set(ns, term)
      BY <1>5 DEF compile_term
    <2>2. e.op = "for_rules" /\ e.set = FlattenSeq(seqs)
      BY <1>0, <2>1 DEF compile_rule_set
    <2>3. ASSUME NEW k \in elements
          PROVE  of(k) \subseteq Known(ns) /\ IsFiniteSet(of(k))
      <3>1. names(k) \subseteq DOMAIN ns.rules_indexes
        BY DEF NamesOf
      <3>2. IsFiniteSet(names(k) \ global(k))
        BY <3>1, FS_Subset
      <3>3. IsFiniteSet({ns.rules_indexes[n] : n \in names(k) \ global(k)})
        BY <3>2, FiniteImage
      <3> QED
        BY <3>1, <3>3 DEF Known
    <2>4. elements = 1 .. Len(term.elements) /\ Len(term.elements) \in Nat
      BY <1>5 DEF TermOK
    <2> HIDE DEF elements, of
    <2>5. \A k \in elements : seqs[k] \in Seq(Known(ns))
      <3> TAKE k \in elements
      <3>1. SetToSeq(of(k)) \in Seq(of(k))
        BY <2>3, SetToSeqLists
      <3>2. SetToSeq(of(k)) \in Seq(Known(ns))
        BY <2>3, <3>1
      <3> QED
        BY <3>2
    <2>6. seqs \in Seq(Seq(Known(ns)))
      <3>1. seqs \in [1 .. Len(term.elements) -> Seq(Known(ns))]
        BY <2>4, <2>5
      <3> QED
        BY <2>4, <3>1
    <2>7. e.set \in Seq(Known(ns))
      BY <2>2, <2>6, FlattenSeqType
    <2> QED
      BY <2>2, <2>7 DEF Range
  <1> QED
    BY <1>1, <1>2, <1>3, <1>4, <1>5 DEF TermOK

-----------------------------------------------------------------------------
(* The invariant is inductive. *)

LEMMA InitInv == Init => IInv
  <1> SUFFICES ASSUME Init
               PROVE  IInv
    OBVIOUS
  <1>1. namespace \in Namespaces
    BY NamespacesAssumption DEF Init
  <1>2. /\ namespaces = [n \in Namespaces |-> EmptyNamespace]
        /\ accepted = <<>>
    BY DEF Init
  <1>3. Types
    BY <1>1, <1>2 DEF Types, EmptyNamespace, Range
  <1>4. DOMAIN accepted = {}
    BY <1>2
  <1> QED
    BY <1>3, <1>4 DEF IInv, Remembered, Sealed

\* The steps that accept no rule: what a namespace forbids is left alone.
LEMMA NothingAccepted ==
    ASSUME IInv,
           UNCHANGED accepted,
           namespace' \in Namespaces,
           DOMAIN namespaces' = DOMAIN namespaces,
           \A n \in Namespaces :
              /\ namespaces'[n].forbidden_rule_prefixes =
                    namespaces[n].forbidden_rule_prefixes
              /\ namespaces'[n] =
                    [rules_indexes |-> namespaces'[n].rules_indexes,
                     imported_modules |-> namespaces'[n].imported_modules,
                     forbidden_rule_prefixes |->
                         namespaces'[n].forbidden_rule_prefixes]
    PROVE  IInv'
  <1>1. Types'
    BY DEF IInv, Types
  <1>2. Remembered'
    BY DEF IInv, Remembered
  <1>3. Sealed'
    BY DEF IInv, Sealed
  <1> QED
    BY <1>1, <1>2, <1>3 DEF IInv

\* The steps that touch no namespace and keep the one of the call.
LEMMA NamespacesKept ==
    ASSUME IInv, UNCHANGED <<accepted, namespaces>>, namespace' \in Namespaces
    PROVE  IInv'
  <1>1. \A n \in Namespaces :
           namespaces[n] = [rules_indexes |-> namespaces[n].rules_indexes,
                            imported_modules |-> namespaces[n].imported_modules,
                            forbidden_rule_prefixes |->
                                namespaces[n].forbidden_rule_prefixes]
    BY DEF IInv, Types
  <1>2. accepted' = accepted /\ namespaces' = namespaces
    OBVIOUS
  <1> QED
    BY <1>1, <1>2, NothingAccepted

\* An import changes what a namespace imports.
LEMMA ImportKeeps ==
    ASSUME IInv, Import
    PROVE  IInv'
  <1>0. Types
    BY DEF IInv
  <1>1. PICK imports :
           namespaces' = [namespaces EXCEPT ![namespace].imported_modules = imports]
    BY DEF Import
  <1>2. accepted' = accepted /\ namespace' = namespace
    BY DEF Import, compiled
  <1>3. \A n \in Namespaces :
           namespaces'[n] = IF n = namespace
                            THEN [namespaces[n] EXCEPT !.imported_modules = imports]
                            ELSE namespaces[n]
    BY <1>0, <1>1 DEF Types
  <1>4. DOMAIN namespaces' = DOMAIN namespaces
    BY <1>1
  <1>5. ASSUME NEW n \in Namespaces
        PROVE  /\ namespaces'[n].forbidden_rule_prefixes =
                     namespaces[n].forbidden_rule_prefixes
               /\ namespaces'[n] =
                     [rules_indexes |-> namespaces'[n].rules_indexes,
                      imported_modules |-> namespaces'[n].imported_modules,
                      forbidden_rule_prefixes |->
                          namespaces'[n].forbidden_rule_prefixes]
    <2> DEFINE old == namespaces[n]
    <2>1. old = [rules_indexes |-> old.rules_indexes,
                 imported_modules |-> old.imported_modules,
                 forbidden_rule_prefixes |-> old.forbidden_rule_prefixes]
      BY <1>0 DEF Types
    <2>2. namespaces'[n] = IF n = namespace
                           THEN [old EXCEPT !.imported_modules = imports]
                           ELSE old
      BY <1>3
    <2> HIDE DEF old
    <2>3. [old EXCEPT !.imported_modules = imports] =
             [rules_indexes |-> old.rules_indexes,
              imported_modules |-> imports,
              forbidden_rule_prefixes |-> old.forbidden_rule_prefixes]
      BY <2>1
    <2>4. namespaces'[n].forbidden_rule_prefixes = old.forbidden_rule_prefixes
      BY <2>2, <2>3
    <2>5. namespaces'[n] =
             [rules_indexes |-> namespaces'[n].rules_indexes,
              imported_modules |-> namespaces'[n].imported_modules,
              forbidden_rule_prefixes |-> namespaces'[n].forbidden_rule_prefixes]
      BY <2>1, <2>2, <2>3
    <2> QED
      BY <2>4, <2>5 DEF old
  <1>6. namespace' \in Namespaces
    BY <1>0, <1>2 DEF Types
  <1> QED
    BY <1>2, <1>4, <1>5, <1>6, NothingAccepted

\* A rule accepted has no name that is forbidden, and forbids its wildcards.
LEMMA AddRuleKeeps ==
    ASSUME IInv, AddRule
    PROVE  IInv'
  <1> DEFINE rule == Component.rule
             given == compile_rule(Ns, rule).wildcards
             known == Insert(Ns.rules_indexes, rule.name, RuleIndex(rule))
             entry == [namespace |-> namespace, rule |-> rule,
                       modules |-> DOMAIN Ns.imported_modules,
                       symbols |-> Range(external_symbols)]
             forbidden == Ns.forbidden_rule_prefixes
  <1>0. Types /\ Remembered /\ Sealed
    BY DEF IInv
  <1>1. /\ ~IsForbidden(Ns, rule.name)
        /\ compile_rule(Ns, rule).ok
    BY DEF AddRule, Acceptable
  <1>2. namespaces' = [namespaces EXCEPT
                          ![namespace].forbidden_rule_prefixes = @ \cup given,
                          ![namespace].rules_indexes =
                              Insert(@, rule.name, RuleIndex(rule))]
    BY DEF AddRule
  <1>3. accepted' = Append(accepted, entry) /\ namespace' = namespace
    BY DEF AddRule
  <1>4. WildcardsOf(rule) \subseteq given
    BY <1>1, WildcardsAreGiven
  <1>5. entry.namespace = namespace /\ entry.rule = rule
    OBVIOUS
  <1>6. \A prefix \in forbidden : <<rule.name, prefix>> \notin StartsWith
    BY <1>1 DEF IsForbidden
  <1> HIDE DEF given, entry, rule
  <1>7. DOMAIN namespaces' = Namespaces /\ namespace \in Namespaces
    BY <1>0, <1>2 DEF Types
  <1>8. \A n \in Namespaces \ {namespace} : namespaces'[n] = namespaces[n]
    BY <1>0, <1>2 DEF Types
  <1>9. namespaces'[namespace] =
           [rules_indexes |-> known,
            imported_modules |-> Ns.imported_modules,
            forbidden_rule_prefixes |-> forbidden \cup given]
    <2> DEFINE old == Ns
    <2>1. old = [rules_indexes |-> old.rules_indexes,
                 imported_modules |-> old.imported_modules,
                 forbidden_rule_prefixes |-> old.forbidden_rule_prefixes]
      BY <1>0, <1>7 DEF Types, Ns
    <2>2. old = namespaces[namespace] /\ namespace \in DOMAIN namespaces
      BY <1>0 DEF Types, Ns
    <2> HIDE DEF old
    <2>3. namespaces'[namespace] =
             [[old EXCEPT !.forbidden_rule_prefixes = @ \cup given]
                 EXCEPT !.rules_indexes =
                     Insert(old.rules_indexes, rule.name, RuleIndex(rule))]
      BY <1>2, <2>1, <2>2
    <2>4. namespaces'[namespace] =
             [rules_indexes |->
                 Insert(old.rules_indexes, rule.name, RuleIndex(rule)),
              imported_modules |-> old.imported_modules,
              forbidden_rule_prefixes |-> old.forbidden_rule_prefixes \cup given]
      BY <2>1, <2>3
    <2> QED
      BY <2>4 DEF old
  <1> HIDE DEF known, forbidden
  <1>10. /\ namespaces'[namespace].forbidden_rule_prefixes = forbidden \cup given
         /\ namespaces'[namespace] =
               [rules_indexes |-> namespaces'[namespace].rules_indexes,
                imported_modules |-> namespaces'[namespace].imported_modules,
                forbidden_rule_prefixes |->
                    namespaces'[namespace].forbidden_rule_prefixes]
    BY <1>9
  \* The sequence of the rules accepted.
  <1>11. /\ Len(accepted) \in Nat /\ DOMAIN accepted = 1 .. Len(accepted)
         /\ accepted' \in Seq(Range(accepted'))
         /\ DOMAIN accepted' = 1 .. Len(accepted) + 1
         /\ \A i \in 1 .. Len(accepted) : accepted'[i] = accepted[i]
         /\ accepted'[Len(accepted) + 1] = entry
    <2> DEFINE U == Range(accepted) \cup {entry}
    <2>1. accepted \in Seq(U)
      BY <1>0 DEF Types
    <2>2. /\ accepted' \in Seq(U) /\ Len(accepted') = Len(accepted) + 1
          /\ \A i \in 1 .. Len(accepted) : accepted'[i] = accepted[i]
          /\ accepted'[Len(accepted) + 1] = entry
      BY <1>3, <2>1
    <2>3. accepted' \in Seq(Range(accepted'))
      BY <2>2 DEF Range
    <2> QED
      BY <2>1, <2>2, <2>3
  <1>12. \A i \in DOMAIN accepted' :
            \/ i \in DOMAIN accepted /\ accepted'[i] = accepted[i]
            \/ i = Len(accepted) + 1 /\ accepted'[i] = entry
    BY <1>11
  <1>13. Types'
    <2>1. \A n \in Namespaces :
             namespaces'[n] =
                [rules_indexes |-> namespaces'[n].rules_indexes,
                 imported_modules |-> namespaces'[n].imported_modules,
                 forbidden_rule_prefixes |-> namespaces'[n].forbidden_rule_prefixes]
      <3> TAKE n \in Namespaces
      <3>1. CASE n = namespace
        BY <1>10, <3>1
      <3>2. CASE n # namespace
        BY <1>0, <1>8, <3>2 DEF Types
      <3> QED
        BY <3>1, <3>2
    <2> QED
      BY <1>3, <1>7, <1>11, <2>1 DEF Types
  <1>14. \A n \in Namespaces :
            namespaces[n].forbidden_rule_prefixes
               \subseteq namespaces'[n].forbidden_rule_prefixes
    <2> TAKE n \in Namespaces
    <2>1. CASE n = namespace
      BY <1>10, <2>1 DEF forbidden, Ns
    <2>2. CASE n # namespace
      BY <1>8, <2>2
    <2> QED
      BY <2>1, <2>2
  <1>15. Remembered'
    <2> SUFFICES ASSUME NEW i \in DOMAIN accepted'
                 PROVE  /\ accepted'[i].namespace \in Namespaces
                        /\ WildcardsOf(accepted'[i].rule) \subseteq
                              namespaces'[accepted'[i].namespace].forbidden_rule_prefixes
      BY DEF Remembered
    <2>1. CASE i \in DOMAIN accepted /\ accepted'[i] = accepted[i]
      BY <1>0, <1>14, <2>1 DEF Remembered
    <2>2. CASE i = Len(accepted) + 1 /\ accepted'[i] = entry
      BY <1>4, <1>5, <1>7, <1>10, <2>2
    <2> QED
      BY <1>12, <2>1, <2>2
  <1>16. Sealed'
    <2> SUFFICES ASSUME NEW i \in DOMAIN accepted', NEW j \in DOMAIN accepted',
                        i < j, accepted'[i].namespace = accepted'[j].namespace,
                        NEW prefix \in WildcardsOf(accepted'[i].rule)
                 PROVE  <<accepted'[j].rule.name, prefix>> \notin StartsWith
      BY DEF Sealed
    <2>1. i \in DOMAIN accepted /\ accepted'[i] = accepted[i]
      BY <1>11, <1>12
    <2>2. CASE j \in DOMAIN accepted /\ accepted'[j] = accepted[j]
      BY <1>0, <2>1, <2>2 DEF Sealed
    <2>3. CASE j = Len(accepted) + 1 /\ accepted'[j] = entry
      <3>1. prefix \in namespaces[namespace].forbidden_rule_prefixes
        BY <1>0, <1>5, <2>1, <2>3 DEF Remembered
      <3>2. prefix \in forbidden
        BY <3>1 DEF forbidden, Ns
      <3> QED
        BY <1>5, <1>6, <2>3, <3>2
    <2> QED
      BY <1>12, <2>2, <2>3
  <1> QED
    BY <1>13, <1>15, <1>16 DEF IInv

LEMMA StepInv == IInv /\ [Next]_compilerVars => IInv'
  <1> SUFFICES ASSUME IInv, [Next]_compilerVars
               PROVE  IInv'
    OBVIOUS
  <1>0. namespace \in Namespaces
    BY DEF IInv, Types
  <1>1. CASE add_module
    BY <1>0, <1>1, NamespacesKept DEF add_module, compiled
  <1>2. CASE define_symbol
    BY <1>0, <1>2, NamespacesKept DEF define_symbol, compiled
  <1>3. CASE add_rules
    <2>1. PICK call \in Calls : namespace' = call.namespace
      BY <1>3 DEF add_rules
    <2>2. namespace' \in Namespaces
      BY <2>1, CallsAssumption
    <2> QED
      BY <1>3, <2>2, NamespacesKept DEF add_rules, compiled
  <1>4. CASE Include
    BY <1>0, <1>4, NamespacesKept DEF Include, compiled
  <1>5. CASE Import
    BY <1>5, ImportKeeps
  <1>6. CASE AddRule
    BY <1>6, AddRuleKeeps
  <1>7. CASE ComponentFails
    BY <1>0, <1>7, NamespacesKept DEF ComponentFails, Fail, compiled
  <1>8. CASE EndOfFile
    BY <1>0, <1>8, NamespacesKept DEF EndOfFile, compiled
  <1>9. CASE UNCHANGED compilerVars
    BY <1>0, <1>9, NamespacesKept DEF compilerVars
  <1> QED
    BY <1>1, <1>2, <1>3, <1>4, <1>5, <1>6, <1>7, <1>8, <1>9 DEF Next

\* What the invariant is for.
LEMMA InvIsSealed == IInv => WildcardsAreSealed
  <1> SUFFICES ASSUME Sealed,
                      NEW i \in DOMAIN accepted, NEW j \in DOMAIN accepted,
                      i < j, accepted[i].namespace = accepted[j].namespace,
                      NEW t \in Range(accepted[i].rule.condition.terms),
                      t.op = "rule_set",
                      NEW prefix \in Wildcards(t.elements)
               PROVE  <<accepted[j].rule.name, prefix>> \notin StartsWith
    BY DEF IInv, WildcardsAreSealed
  <1>1. prefix \in WildcardsOf(accepted[i].rule)
    BY DEF WildcardsOf
  <1> QED
    BY <1>1 DEF Sealed

-----------------------------------------------------------------------------
(* Names. *)

\* A rule that compiles reads the results of rules its namespace knows.
LEMMA RuleReadsKnown ==
    ASSUME NEW ns, NEW rule, compile_rule(ns, rule).ok,
           IsFiniteSet(DOMAIN ns.rules_indexes),
           \A t \in Range(rule.condition.terms) : TermOK(t)
    PROVE  References(compile_rule(ns, rule).expr) \subseteq Known(ns)
  <1> DEFINE terms == rule.condition.terms
             term(k) == compile_term(ns, rule, terms[k])
             found == [k \in DOMAIN terms |-> term(k)]
             wildcards == UNION {found[k].wildcards : k \in DOMAIN terms}
             e == [op |-> rule.condition.op,
                   ops |-> [k \in DOMAIN terms |-> found[k].expr]]
             good == [ok |-> TRUE, expr |-> e, wildcards |-> wildcards]
             names == {rule.variables[i].name : i \in DOMAIN rule.variables}
             bad == \/ Cardinality(names) # Len(rule.variables)
                    \/ \E k \in DOMAIN terms : ~found[k].ok
                    \/ names \ UsedStrings(rule) # {}
  <1>1. compile_rule(ns, rule) = IF bad THEN Error ELSE good
    BY DEF compile_rule
  <1>2. ~Error.ok
    BY DEF Error
  <1>3. ~bad /\ compile_rule(ns, rule) = good
    <2> HIDE DEF bad, good
    <2> QED
      BY <1>1, <1>2
  <1>4. compile_rule(ns, rule).expr = e
    <2> HIDE DEF e, wildcards
    <2> QED
      BY <1>3
  <1>5. \A k \in DOMAIN terms : found[k].ok /\ found[k] = term(k)
    BY <1>3
  <1>6. e.ops = [k \in DOMAIN terms |-> found[k].expr]
    OBVIOUS
  <1>7. ASSUME NEW k \in DOMAIN terms
        PROVE  /\ e.ops[k].op = "rule" => e.ops[k].index \in Known(ns)
               /\ e.ops[k].op = "for_rules" => Range(e.ops[k].set) \subseteq Known(ns)
    <2>1. e.ops[k] = compile_term(ns, rule, terms[k]).expr
      BY <1>5, <1>6
    <2>2. TermOK(terms[k]) /\ compile_term(ns, rule, terms[k]).ok
      BY <1>5 DEF Range
    <2> HIDE DEF e
    <2> QED
      BY <2>1, <2>2, TermReadsKnown
  <1>8. DOMAIN e.ops = DOMAIN terms
    BY <1>6
  <1> HIDE DEF e
  <1>9. References(e) \subseteq Known(ns)
    <2> SUFFICES ASSUME NEW x \in References(e)
                 PROVE  x \in Known(ns)
      OBVIOUS
    <2>1. \/ \E k \in DOMAIN e.ops : e.ops[k].op = "rule" /\ x = e.ops[k].index
          \/ \E k \in DOMAIN e.ops : e.ops[k].op = "for_rules" /\ x \in Range(e.ops[k].set)
      BY DEF References, Range
    <2> QED
      BY <1>7, <1>8, <2>1
  <1> QED
    BY <1>4, <1>9

\* The component being added was written somewhere.
LEMMA ComponentWritten ==
    ASSUME Opened, Adding
    PROVE  /\ Component \in Written
           /\ Rest \in Seq(Seq(Written)) /\ Rest # <<>>
  <1>1. pending \in Seq(Seq(Written)) /\ pending # <<>> /\ pending[1] # <<>>
    BY DEF Opened, Adding
  <1>2. Len(pending) \in Nat \ {0} /\ 1 \in DOMAIN pending
        /\ pending[1] \in Seq(Written)
    BY <1>1
  <1>3. Component \in Written /\ Tail(pending[1]) \in Seq(Written)
    BY <1>1, <1>2 DEF Component
  <1>4. Rest \in Seq(Seq(Written)) /\ Len(Rest) = Len(pending)
    BY <1>1, <1>2, <1>3 DEF Rest
  <1> QED
    BY <1>2, <1>3, <1>4

LEMMA OpenedKept ==
    ASSUME Opened, [Next]_compilerVars
    PROVE  Opened'
  <1>0. pending \in Seq(Seq(Written))
    BY DEF Opened
  <1>1. CASE add_module \/ define_symbol \/ UNCHANGED compilerVars
    BY <1>1 DEF Opened, add_module, define_symbol, compilerVars
  <1>2. CASE add_rules
    <2>1. PICK call \in Calls : pending' = <<call.components>>
      BY <1>2 DEF add_rules
    <2>2. call.components \in Seq(Written)
      <3>1. Range(call.components) \subseteq Written
        BY DEF Written
      <3>2. call.components \in Seq(Range(call.components))
        BY CallsAssumption
      <3> QED
        BY <3>1, <3>2
    <2> QED
      BY <2>1, <2>2 DEF Opened
  <1>3. CASE Include
    <2> DEFINE file == Files[Component.file]
    <2>1. pending' = <<file>> \o Rest /\ Component.file \in DOMAIN Files
      BY <1>3 DEF Include
    <2>2. file \in Seq(Written)
      <3>1. Range(file) \subseteq Written
        BY <2>1 DEF Written
      <3>2. file \in Seq(Range(file))
        BY <2>1, FilesAssumption
      <3> QED
        BY <3>1, <3>2
    <2>3. Rest \in Seq(Seq(Written))
      BY <1>3, ComponentWritten DEF Include
    <2> HIDE DEF file
    <2>4. <<file>> \in Seq(Seq(Written)) /\ Len(<<file>>) = 1
      BY <2>2
    <2>5. pending' \in Seq(Seq(Written)) /\ Len(pending') = 1 + Len(Rest)
      BY <2>1, <2>3, <2>4, ConcatProperties
    <2>6. Len(Rest) \in Nat
      BY <2>3
    <2> QED
      BY <2>5, <2>6 DEF Opened
  <1>4. CASE Import
    BY <1>4, ComponentWritten DEF Import, Opened
  <1>5. CASE AddRule
    BY <1>5, ComponentWritten DEF AddRule, Opened
  <1>6. CASE ComponentFails
    BY <1>6 DEF ComponentFails, Fail, Opened
  <1>7. CASE EndOfFile
    <2>1. /\ pending # <<>> /\ pending' = Tail(pending)
          /\ status' = "adding" => Len(pending) # 1
      BY <1>7 DEF EndOfFile, Opened
    <2>2. pending' \in Seq(Seq(Written)) /\ Len(pending') = Len(pending) - 1
      BY <1>0, <2>1
    <2>3. Len(pending) # 1 => pending' # <<>>
      BY <2>2
    <2> QED
      BY <2>1, <2>2, <2>3 DEF Opened
  <1> QED
    BY <1>1, <1>2, <1>3, <1>4, <1>5, <1>6, <1>7 DEF Next

\* What the indexes of namespace n are, among rules rs and globals gs.
Finds(n, indexes, rs, gs) ==
    /\ \A name \in DOMAIN indexes :
          IF indexes[name] = 0 THEN \E g \in DOMAIN gs : gs[g].name = <<n, name>>
          ELSE indexes[name] \in DOMAIN rs /\ rs[indexes[name]].name = <<n, name>>
    /\ \A k \in DOMAIN rs :
          rs[k].name[1] = n => /\ rs[k].name[2] \in DOMAIN indexes
                               /\ indexes[rs[k].name[2]] = k

LEMMA FindsEach ==
    /\ NamesFindTheirRule <=>
          \A n \in Namespaces : Finds(n, namespaces[n].rules_indexes, rules, global_rules)
    /\ NamesFindTheirRule' <=>
          \A n \in Namespaces :
              Finds(n, namespaces'[n].rules_indexes, rules', global_rules')
  BY DEF NamesFindTheirRule, Finds

\* The steps that add no rule and leave alone what the namespaces know of them.
LEMMA ResolvedKept ==
    ASSUME Resolved, UNCHANGED <<rules, global_rules>>,
           \A n \in Namespaces :
              namespaces'[n].rules_indexes = namespaces[n].rules_indexes
    PROVE  Resolved'
  <1>1. rules' = rules /\ global_rules' = global_rules
    OBVIOUS
  <1>2. NamesFindTheirRule'
    <2>1. \A n \in Namespaces : Finds(n, namespaces[n].rules_indexes, rules, global_rules)
      BY FindsEach DEF Resolved
    <2>2. \A n \in Namespaces :
             Finds(n, namespaces'[n].rules_indexes, rules', global_rules')
      BY <1>1, <2>1
    <2> QED
      BY <2>2, FindsEach
  <1>3. RulesReadEarlierRules'
    BY <1>1 DEF Resolved, RulesReadEarlierRules
  <1>4. \A n \in Namespaces : IsFiniteSet(DOMAIN namespaces'[n].rules_indexes)
    BY DEF Resolved
  <1> QED
    BY <1>1, <1>2, <1>3, <1>4 DEF Resolved

\* What Append does to a sequence of any elements.
LEMMA AppendAny ==
    ASSUME NEW s, NEW x, s \in Seq(Range(s)), NEW t, t = Append(s, x)
    PROVE  /\ Len(s) \in Nat /\ DOMAIN s = 1 .. Len(s)
           /\ t \in Seq(Range(t))
           /\ DOMAIN t = 1 .. Len(s) + 1
           /\ \A i \in 1 .. Len(s) : t[i] = s[i]
           /\ t[Len(s) + 1] = x
           /\ \A i \in DOMAIN t :
                 \/ i \in DOMAIN s /\ t[i] = s[i]
                 \/ i = Len(s) + 1 /\ t[i] = x
  <1> DEFINE U == Range(s) \cup {x}
  <1>1. s \in Seq(U)
    OBVIOUS
  <1>2. /\ t \in Seq(U) /\ Len(t) = Len(s) + 1
        /\ \A i \in 1 .. Len(s) : t[i] = s[i]
        /\ t[Len(s) + 1] = x
    BY <1>1
  <1>3. t \in Seq(Range(t))
    BY <1>2 DEF Range
  <1> QED
    BY <1>1, <1>2, <1>3

\* What a namespace knows once a rule is accepted.
LEMMA AddRuleIndexes ==
    ASSUME IInv, AddRule
    PROVE  /\ \A n \in Namespaces \ {namespace} : namespaces'[n] = namespaces[n]
           /\ namespaces'[namespace].rules_indexes =
                 Insert(Ns.rules_indexes, Component.rule.name,
                        RuleIndex(Component.rule))
           /\ \A n \in Namespaces :
                 namespaces'[n].imported_modules = namespaces[n].imported_modules
  <1> DEFINE rule == Component.rule
             given == compile_rule(Ns, rule).wildcards
             index == RuleIndex(rule)
             old == Ns
  <1>0. Types
    BY DEF IInv
  <1>1. namespaces' = [namespaces EXCEPT
                          ![namespace].forbidden_rule_prefixes = @ \cup given,
                          ![namespace].rules_indexes = Insert(@, rule.name, index)]
    BY DEF AddRule
  <1> HIDE DEF given, rule, index
  <1>2. \A n \in Namespaces \ {namespace} : namespaces'[n] = namespaces[n]
    BY <1>0, <1>1 DEF Types
  <1>3. old = [rules_indexes |-> old.rules_indexes,
               imported_modules |-> old.imported_modules,
               forbidden_rule_prefixes |-> old.forbidden_rule_prefixes]
    BY <1>0 DEF Types, Ns
  <1>4. old = namespaces[namespace] /\ namespace \in DOMAIN namespaces
    BY <1>0 DEF Types, Ns
  <1> HIDE DEF old
  <1>5. namespaces'[namespace] =
           [[old EXCEPT !.forbidden_rule_prefixes = @ \cup given]
               EXCEPT !.rules_indexes = Insert(old.rules_indexes, rule.name, index)]
    BY <1>1, <1>3, <1>4
  <1>6. namespaces'[namespace] =
           [rules_indexes |-> Insert(old.rules_indexes, rule.name, index),
            imported_modules |-> old.imported_modules,
            forbidden_rule_prefixes |-> old.forbidden_rule_prefixes \cup given]
    BY <1>3, <1>5
  <1>7. /\ namespaces'[namespace].rules_indexes =
              Insert(old.rules_indexes, rule.name, index)
        /\ namespaces'[namespace].imported_modules = old.imported_modules
    BY <1>6
  <1>8. \A n \in Namespaces :
           namespaces'[n].imported_modules = namespaces[n].imported_modules
    BY <1>2, <1>4, <1>7
  <1> QED
    BY <1>2, <1>7, <1>8 DEF old, rule, index

\* A rule more: its namespace learns its name, the others know what they knew.
LEMMA RuleFound ==
    ASSUME NEW n, NEW m, NEW indexes, NEW rs, NEW gs, NEW r, NEW name, NEW more,
           Finds(n, indexes, rs, gs), rs \in Seq(Range(rs)),
           r.name = <<m, name>>, more = Append(rs, r)
    PROVE  /\ n # m => Finds(n, indexes, more, gs)
           /\ n = m /\ name \notin DOMAIN indexes =>
                 Finds(n, Insert(indexes, name, Len(rs) + 1), more, gs)
  <1>1. /\ Len(rs) \in Nat /\ DOMAIN rs = 1 .. Len(rs)
        /\ DOMAIN more = 1 .. Len(rs) + 1
        /\ \A i \in 1 .. Len(rs) : more[i] = rs[i]
        /\ more[Len(rs) + 1] = r
    BY AppendAny
  <1>2. \A i \in DOMAIN more : i \in DOMAIN rs \/ i = Len(rs) + 1
    BY <1>1
  <1>3. r.name[1] = m /\ r.name[2] = name
    OBVIOUS
  <1>4. ASSUME n # m
        PROVE  Finds(n, indexes, more, gs)
    <2>1. ASSUME NEW x \in DOMAIN indexes
          PROVE  IF indexes[x] = 0 THEN \E g \in DOMAIN gs : gs[g].name = <<n, x>>
                 ELSE indexes[x] \in DOMAIN more /\ more[indexes[x]].name = <<n, x>>
      <3>1. indexes[x] # 0 =>
               indexes[x] \in DOMAIN rs /\ rs[indexes[x]].name = <<n, x>>
        BY DEF Finds
      <3>2. indexes[x] = 0 => \E g \in DOMAIN gs : gs[g].name = <<n, x>>
        BY DEF Finds
      <3> QED
        BY <1>1, <3>1, <3>2
    <2>2. ASSUME NEW k \in DOMAIN more, more[k].name[1] = n
          PROVE  more[k].name[2] \in DOMAIN indexes /\ indexes[more[k].name[2]] = k
      <3>1. k \in DOMAIN rs /\ more[k] = rs[k]
        BY <1>1, <1>2, <1>3, <1>4, <2>2
      <3> QED
        BY <2>2, <3>1 DEF Finds
    <2> QED
      BY <2>1, <2>2 DEF Finds
  <1>5. ASSUME n = m, name \notin DOMAIN indexes
        PROVE  Finds(n, Insert(indexes, name, Len(rs) + 1), more, gs)
    <2> DEFINE known == Insert(indexes, name, Len(rs) + 1)
    <2>1. /\ DOMAIN known = DOMAIN indexes \cup {name}
          /\ known[name] = Len(rs) + 1
          /\ \A x \in DOMAIN indexes : known[x] = indexes[x]
      BY <1>5 DEF Insert
    <2> HIDE DEF known
    <2>2. ASSUME NEW x \in DOMAIN known
          PROVE  IF known[x] = 0 THEN \E g \in DOMAIN gs : gs[g].name = <<n, x>>
                 ELSE known[x] \in DOMAIN more /\ more[known[x]].name = <<n, x>>
      <3>1. CASE x = name
        BY <1>1, <1>5, <2>1, <3>1
      <3>2. CASE x \in DOMAIN indexes
        <4>1. indexes[x] # 0 =>
                 indexes[x] \in DOMAIN rs /\ rs[indexes[x]].name = <<n, x>>
          BY <3>2 DEF Finds
        <4>2. indexes[x] = 0 => \E g \in DOMAIN gs : gs[g].name = <<n, x>>
          BY <3>2 DEF Finds
        <4> QED
          BY <1>1, <2>1, <3>2, <4>1, <4>2
      <3> QED
        BY <2>1, <3>1, <3>2
    <2>3. ASSUME NEW k \in DOMAIN more, more[k].name[1] = n
          PROVE  more[k].name[2] \in DOMAIN known /\ known[more[k].name[2]] = k
      <3>1. CASE k = Len(rs) + 1
        BY <1>1, <1>3, <2>1, <3>1
      <3>2. CASE k \in DOMAIN rs
        <4>1. more[k] = rs[k]
          BY <1>1, <3>2
        <4>2. rs[k].name[2] \in DOMAIN indexes /\ indexes[rs[k].name[2]] = k
          BY <2>3, <3>2, <4>1 DEF Finds
        <4> QED
          BY <2>1, <4>1, <4>2
      <3> QED
        BY <1>2, <3>1, <3>2
    <2> QED
      BY <2>2, <2>3 DEF Finds, known
  <1> QED
    BY <1>4, <1>5

\* The same of a global rule, whose name has the index 0.
LEMMA GlobalFound ==
    ASSUME NEW n, NEW m, NEW indexes, NEW rs, NEW gs, NEW r, NEW name, NEW more,
           Finds(n, indexes, rs, gs),
           rs \in Seq(Range(rs)), gs \in Seq(Range(gs)),
           r.name = <<m, name>>, more = Append(gs, r)
    PROVE  /\ n # m => Finds(n, indexes, rs, more)
           /\ n = m /\ name \notin DOMAIN indexes =>
                 Finds(n, Insert(indexes, name, 0), rs, more)
  <1>1. /\ Len(gs) \in Nat /\ DOMAIN gs = 1 .. Len(gs)
        /\ DOMAIN more = 1 .. Len(gs) + 1
        /\ \A i \in 1 .. Len(gs) : more[i] = gs[i]
        /\ more[Len(gs) + 1] = r
    BY AppendAny
  <1>2. ASSUME NEW x, \E g \in DOMAIN gs : gs[g].name = <<n, x>>
        PROVE  \E g \in DOMAIN more : more[g].name = <<n, x>>
    BY <1>1, <1>2
  <1>3. \A x \in DOMAIN indexes :
           /\ indexes[x] = 0 => \E g \in DOMAIN more : more[g].name = <<n, x>>
           /\ indexes[x] # 0 =>
                 indexes[x] \in DOMAIN rs /\ rs[indexes[x]].name = <<n, x>>
    <2> TAKE x \in DOMAIN indexes
    <2>1. indexes[x] = 0 => \E g \in DOMAIN gs : gs[g].name = <<n, x>>
      BY DEF Finds
    <2> QED
      BY <1>2, <2>1 DEF Finds
  <1>4. \A k \in DOMAIN rs :
           rs[k].name[1] = n =>
               rs[k].name[2] \in DOMAIN indexes /\ indexes[rs[k].name[2]] = k
    BY DEF Finds
  <1>5. n # m => Finds(n, indexes, rs, more)
    BY <1>3, <1>4 DEF Finds
  <1>6. ASSUME n = m, name \notin DOMAIN indexes
        PROVE  Finds(n, Insert(indexes, name, 0), rs, more)
    <2> DEFINE known == Insert(indexes, name, 0)
    <2>1. /\ DOMAIN known = DOMAIN indexes \cup {name}
          /\ known[name] = 0
          /\ \A x \in DOMAIN indexes : known[x] = indexes[x]
      BY <1>6 DEF Insert
    <2>2. \E g \in DOMAIN more : more[g].name = <<n, name>>
      BY <1>1, <1>6
    <2> HIDE DEF known
    <2>3. \A x \in DOMAIN known :
             IF known[x] = 0 THEN \E g \in DOMAIN more : more[g].name = <<n, x>>
             ELSE known[x] \in DOMAIN rs /\ rs[known[x]].name = <<n, x>>
      <3> TAKE x \in DOMAIN known
      <3>1. CASE x = name
        BY <2>1, <2>2, <3>1
      <3>2. CASE x \in DOMAIN indexes
        BY <1>3, <2>1, <3>2
      <3> QED
        BY <2>1, <3>1, <3>2
    <2>4. \A k \in DOMAIN rs :
             rs[k].name[1] = n =>
                 rs[k].name[2] \in DOMAIN known /\ known[rs[k].name[2]] = k
      BY <1>4, <2>1
    <2> QED
      BY <2>3, <2>4 DEF Finds, known
  <1> QED
    BY <1>5, <1>6

\* An import leaves alone what a namespace knows of its rules.
LEMMA ImportIndexes ==
    ASSUME Types, Import
    PROVE  \A n \in Namespaces :
              namespaces'[n].rules_indexes = namespaces[n].rules_indexes
  <1>1. PICK imports :
           namespaces' = [namespaces EXCEPT ![namespace].imported_modules = imports]
    BY DEF Import
  <1> TAKE n \in Namespaces
  <1> DEFINE old == namespaces[n]
  <1>2. old = [rules_indexes |-> old.rules_indexes,
               imported_modules |-> old.imported_modules,
               forbidden_rule_prefixes |-> old.forbidden_rule_prefixes]
    BY DEF Types
  <1>3. n \in DOMAIN namespaces
    BY DEF Types
  <1>4. namespaces'[n] = IF n = namespace
                         THEN [old EXCEPT !.imported_modules = imports]
                         ELSE old
    BY <1>1, <1>3
  <1> HIDE DEF old
  <1>5. [old EXCEPT !.imported_modules = imports].rules_indexes = old.rules_indexes
    BY <1>2
  <1> QED
    BY <1>4, <1>5 DEF old

LEMMA AddRuleResolves ==
    ASSUME IInv, Opened, Resolved, AddRule
    PROVE  Resolved'
  <1> DEFINE rule == Component.rule
             r == Rule(rule)
             name == rule.name
             indexes == Ns.rules_indexes
             index == RuleIndex(rule)
             known == Insert(indexes, name, index)
             condition == compile_rule(Ns, rule).expr
  <1>0. Types
    BY DEF IInv
  <1>1. /\ namespace \in Namespaces
        /\ Ns = namespaces[namespace]
        /\ rules \in Seq(Range(rules)) /\ global_rules \in Seq(Range(global_rules))
        /\ \A n \in Namespaces : IsFiniteSet(DOMAIN namespaces[n].rules_indexes)
        /\ \A n \in Namespaces :
              Finds(n, namespaces[n].rules_indexes, rules, global_rules)
        /\ RulesReadEarlierRules
    BY <1>0, FindsEach DEF Types, Ns, Resolved
  <1>2. /\ compile_rule(Ns, rule).ok
        /\ name \notin DOMAIN indexes
    BY DEF AddRule, Acceptable
  <1>3. /\ \A n \in Namespaces \ {namespace} : namespaces'[n] = namespaces[n]
        /\ namespaces'[namespace].rules_indexes = known
    BY AddRuleIndexes
  <1>4. /\ rule.is_global => /\ rules' = rules
                            /\ global_rules' = Append(global_rules, r)
                            /\ index = 0
        /\ ~rule.is_global => /\ rules' = Append(rules, r)
                             /\ global_rules' = global_rules
                             /\ index = Len(rules) + 1
    BY DEF AddRule, RuleIndex
  <1>5. r.name = <<namespace, name>> /\ r.condition = condition
    BY DEF Rule
  <1>6. References(condition) \subseteq 1 .. Len(rules)
    <2>1. \A t \in Range(rule.condition.terms) : TermOK(t)
      <3>1. Component \in Written /\ Component.kind = "rule"
        BY ComponentWritten DEF AddRule
      <3> QED
        BY <3>1, RulesAssumption
    <2>2. IsFiniteSet(DOMAIN Ns.rules_indexes)
      BY <1>1
    <2>3. References(condition) \subseteq Known(Ns)
      BY <1>2, <2>1, <2>2, RuleReadsKnown
    <2>4. ASSUME NEW k \in Known(Ns)
          PROVE  k \in DOMAIN rules
      <3>1. Finds(namespace, Ns.rules_indexes, rules, global_rules)
        BY <1>1
      <3> QED
        BY <3>1 DEF Known, Finds
    <2>5. DOMAIN rules = 1 .. Len(rules)
      BY <1>1
    <2> QED
      BY <2>3, <2>4, <2>5
  <1> HIDE DEF r, name, index, rule, condition
  <1>7. rules' \in Seq(Range(rules')) /\ global_rules' \in Seq(Range(global_rules'))
    <2> DEFINE more == Append(rules, r)
               globals == Append(global_rules, r)
    <2>1. more \in Seq(Range(more))
      BY <1>1, AppendAny
    <2>2. globals \in Seq(Range(globals))
      BY <1>1, AppendAny
    <2>3. rules' = rules \/ rules' = more
      BY <1>4
    <2>4. global_rules' = global_rules \/ global_rules' = globals
      BY <1>4
    <2> HIDE DEF more, globals
    <2>5. rules' \in Seq(Range(rules'))
      BY <1>1, <2>1, <2>3
    <2>6. global_rules' \in Seq(Range(global_rules'))
      BY <1>1, <2>2, <2>4
    <2> QED
      BY <2>5, <2>6
  <1>8. ASSUME NEW n \in Namespaces
        PROVE  /\ IsFiniteSet(DOMAIN namespaces'[n].rules_indexes)
               /\ Finds(n, namespaces'[n].rules_indexes, rules', global_rules')
    <2> DEFINE before == namespaces[n].rules_indexes
    <2>0. IsFiniteSet(DOMAIN before) /\ Finds(n, before, rules, global_rules)
      BY <1>1
    <2>1. CASE n # namespace
      <3>1. namespaces'[n].rules_indexes = before
        BY <1>3, <2>1
      <3> HIDE DEF before
      <3>2. Finds(n, before, rules', global_rules')
        BY <1>1, <1>4, <1>5, <2>0, <2>1, RuleFound, GlobalFound
      <3> QED
        BY <2>0, <3>1, <3>2
    <2>2. CASE n = namespace
      <3>1. before = indexes /\ namespaces'[n].rules_indexes = known
        BY <1>1, <1>3, <2>2
      <3>2. Finds(n, indexes, rules, global_rules)
        BY <2>0, <3>1
      <3>3. DOMAIN known = DOMAIN indexes \cup {name}
        BY DEF Insert
      <3>4. IsFiniteSet(DOMAIN known)
        BY <2>0, <3>1, <3>3, FS_AddElement
      <3> HIDE DEF indexes
      <3>5. CASE rule.is_global
        <4>1. rules' = rules /\ global_rules' = Append(global_rules, r) /\ index = 0
          BY <1>4, <3>5
        <4>2. Finds(namespace, Insert(indexes, name, 0), rules, global_rules')
          BY <1>1, <1>2, <1>5, <2>2, <3>2, <4>1, GlobalFound
        <4> HIDE DEF index
        <4> QED
          BY <2>2, <3>1, <3>4, <4>1, <4>2
      <3>6. CASE ~rule.is_global
        <4>1. global_rules' = global_rules /\ rules' = Append(rules, r)
              /\ index = Len(rules) + 1
          BY <1>4, <3>6
        <4>2. Finds(namespace, Insert(indexes, name, Len(rules) + 1), rules', global_rules)
          BY <1>1, <1>2, <1>5, <2>2, <3>2, <4>1, RuleFound
        <4> HIDE DEF index
        <4> QED
          BY <2>2, <3>1, <3>4, <4>1, <4>2
      <3> QED
        BY <3>5, <3>6
    <2> QED
      BY <2>1, <2>2
  <1>9. RulesReadEarlierRules'
    <2>1. CASE rule.is_global
      BY <1>1, <1>4, <2>1 DEF RulesReadEarlierRules
    <2>2. CASE ~rule.is_global
      <3>1. /\ Len(rules) \in Nat
            /\ \A k \in DOMAIN rules' :
                  \/ k \in DOMAIN rules /\ rules'[k] = rules[k]
                  \/ k = Len(rules) + 1 /\ rules'[k] = r
        BY <1>1, <1>4, <2>2, AppendAny
      <3>2. ASSUME NEW k \in DOMAIN rules'
            PROVE  References(rules'[k].condition) \subseteq 1 .. k - 1
        <4>1. CASE k \in DOMAIN rules /\ rules'[k] = rules[k]
          BY <1>1, <4>1 DEF RulesReadEarlierRules
        <4>2. CASE k = Len(rules) + 1 /\ rules'[k] = r
          <5>1. k - 1 = Len(rules)
            BY <3>1, <4>2
          <5> QED
            BY <1>5, <1>6, <4>2, <5>1
        <4> QED
          BY <3>1, <4>1, <4>2
      <3> QED
        BY <3>2 DEF RulesReadEarlierRules
    <2> QED
      BY <2>1, <2>2
  <1> QED
    BY <1>7, <1>8, <1>9, FindsEach DEF Resolved

-----------------------------------------------------------------------------
(* Modules. *)

LEMMA SlotsKept ==
    ASSUME Slots, UNCHANGED <<available_modules, imported_modules>>,
           \A n \in Namespaces :
              namespaces'[n].imported_modules = namespaces[n].imported_modules
    PROVE  Slots'
  <1>1. /\ available_modules' = available_modules
        /\ imported_modules' = imported_modules
    OBVIOUS
  <1>2. ModulesHaveOneSlot'
    <2> SUFFICES ASSUME NEW n \in Namespaces, NEW imports,
                        imports = namespaces[n].imported_modules,
                        NEW m \in DOMAIN imports
                 PROVE  /\ imports[m] \in DOMAIN imported_modules
                        /\ \A k \in DOMAIN imported_modules :
                              imported_modules[k] = m <=> k = imports[m]
      BY <1>1 DEF ModulesHaveOneSlot
    <2> QED
      BY DEF Slots, ModulesHaveOneSlot
  <1> QED
    BY <1>1, <1>2 DEF Slots

\* A module added has no slot yet.
LEMMA AddModuleSlots ==
    ASSUME Slots, add_module
    PROVE  Slots'
  <1>1. PICK m \in Modules \ DOMAIN available_modules :
           available_modules' = Insert(available_modules, m, 0)
    BY DEF add_module
  <1>2. imported_modules' = imported_modules /\ namespaces' = namespaces
    BY DEF add_module
  <1>3. /\ DOMAIN available_modules' = DOMAIN available_modules \cup {m}
        /\ available_modules'[m] = 0
        /\ \A x \in DOMAIN available_modules :
              available_modules'[x] = available_modules[x]
    BY <1>1 DEF Insert
  <1>4. ModulesHaveOneSlot'
    BY <1>2 DEF Slots, ModulesHaveOneSlot
  <1>5. \A x \in DOMAIN available_modules' :
           available_modules'[x] # 0 =>
               /\ available_modules'[x] \in DOMAIN imported_modules
               /\ imported_modules[available_modules'[x]] = x
    BY <1>3 DEF Slots
  <1>6. \A k \in DOMAIN imported_modules :
           /\ imported_modules[k] \in DOMAIN available_modules'
           /\ available_modules'[imported_modules[k]] = k
    BY <1>3 DEF Slots
  <1> QED
    BY <1>2, <1>4, <1>5, <1>6 DEF Slots

\* An import gives the module a slot, unless it has one.
LEMMA ImportSlots ==
    ASSUME Types, Slots, Import
    PROVE  Slots'
  <1> DEFINE Longer(more, x) ==
                 /\ Len(imported_modules) \in Nat
                 /\ DOMAIN imported_modules = 1 .. Len(imported_modules)
                 /\ more \in Seq(Range(more))
                 /\ DOMAIN more = 1 .. Len(imported_modules) + 1
                 /\ \A i \in 1 .. Len(imported_modules) : more[i] = imported_modules[i]
                 /\ more[Len(imported_modules) + 1] = x
  <1>a. ASSUME NEW x, NEW more, more = Append(imported_modules, x)
        PROVE  Longer(more, x)
    <2>1. imported_modules \in Seq(Range(imported_modules))
      BY DEF Slots
    <2>2. more \in Seq(Range(more))
      BY <1>a, <2>1, AppendAny
    <2>3. /\ Len(imported_modules) \in Nat
          /\ DOMAIN imported_modules = 1 .. Len(imported_modules)
          /\ DOMAIN more = 1 .. Len(imported_modules) + 1
          /\ \A i \in 1 .. Len(imported_modules) : more[i] = imported_modules[i]
          /\ more[Len(imported_modules) + 1] = x
      BY <1>a, <2>1, AppendAny
    <2> QED
      BY <2>2, <2>3
  <1> HIDE DEF Longer
  <1> DEFINE m == Component.module
             available == available_modules
             imported == imported_modules
             index == IF available[m] # 0 THEN available[m] ELSE Len(imported) + 1
  <1>0. /\ imported \in Seq(Range(imported))
        /\ \A x \in DOMAIN available :
              available[x] # 0 => /\ available[x] \in DOMAIN imported
                                  /\ imported[available[x]] = x
        /\ \A k \in DOMAIN imported :
              imported[k] \in DOMAIN available /\ available[imported[k]] = k
        /\ ModulesHaveOneSlot
    BY DEF Slots
  <1>1. /\ m \in DOMAIN available
        /\ imported_modules' = IF available[m] # 0 THEN imported
                               ELSE Append(imported, m)
        /\ available_modules' = [available EXCEPT ![m] = index]
        /\ namespaces' = [namespaces EXCEPT ![namespace].imported_modules =
                             Insert(@, m, index)]
    BY DEF Import
  <1>2. /\ DOMAIN available_modules' = DOMAIN available
        /\ available_modules'[m] = index
        /\ \A x \in DOMAIN available \ {m} : available_modules'[x] = available[x]
    <2> HIDE DEF m, index, available
    <2> QED
      BY <1>1
  \* What a namespace imports.
  <1>3. ASSUME NEW n \in Namespaces
        PROVE  \/ namespaces'[n].imported_modules = namespaces[n].imported_modules
               \/ namespaces'[n].imported_modules =
                     Insert(namespaces[n].imported_modules, m, index)
    <2> DEFINE old == namespaces[n]
    <2>1. old = [rules_indexes |-> old.rules_indexes,
                 imported_modules |-> old.imported_modules,
                 forbidden_rule_prefixes |-> old.forbidden_rule_prefixes]
      BY DEF Types
    <2>2. n \in DOMAIN namespaces
      BY DEF Types
    <2> HIDE DEF m, index
    <2>3. namespaces'[n] =
             IF n = namespace
             THEN [old EXCEPT !.imported_modules = Insert(@, m, index)]
             ELSE old
      BY <1>1, <2>2
    <2> HIDE DEF old
    <2>4. [old EXCEPT !.imported_modules = Insert(@, m, index)].imported_modules =
             Insert(old.imported_modules, m, index)
      BY <2>1
    <2> QED
      BY <2>3, <2>4 DEF old
  \* The slots after the import: those there were, and that of the module.
  <1>4. /\ imported_modules' \in Seq(Range(imported_modules'))
        /\ \A k \in DOMAIN imported :
              k \in DOMAIN imported_modules' /\ imported_modules'[k] = imported[k]
        /\ index \in DOMAIN imported_modules' /\ imported_modules'[index] = m
        /\ index # 0
        /\ \A k \in DOMAIN imported_modules' : k \in DOMAIN imported \/ k = index
        /\ \A k \in DOMAIN imported : imported[k] = m => k = index
    <2>1. CASE available[m] # 0
      <3>1. imported_modules' = imported /\ index = available[m]
        BY <1>1, <2>1
      <3>2. index \in DOMAIN imported /\ imported[index] = m
        BY <1>0, <1>1, <2>1, <3>1
      <3>3. \A k \in DOMAIN imported : imported[k] = m => k = index
        BY <1>0, <3>1
      <3> HIDE DEF index, m, available, imported
      <3> QED
        BY <1>0, <2>1, <3>1, <3>2, <3>3 DEF imported
    <2>2. CASE available[m] = 0
      <3>1. imported_modules' = Append(imported, m) /\ index = Len(imported) + 1
        BY <1>1, <2>2
      <3>2. \A k \in DOMAIN imported : k # 0
        BY <1>0
      <3>3. \A k \in DOMAIN imported : imported[k] # m
        BY <1>0, <2>2, <3>2
      <3> HIDE DEF index, m, available, imported
      <3>4. /\ Len(imported) \in Nat /\ DOMAIN imported = 1 .. Len(imported)
            /\ imported_modules' \in Seq(Range(imported_modules'))
            /\ DOMAIN imported_modules' = 1 .. Len(imported) + 1
            /\ \A i \in 1 .. Len(imported) : imported_modules'[i] = imported[i]
            /\ imported_modules'[Len(imported) + 1] = m
        <4> DEFINE more == imported_modules'
        <4>1. imported = imported_modules
          BY DEF imported
        <4>2. more = Append(imported_modules, m)
          BY <3>1, <4>1
        <4> HIDE DEF more
        <4>3. Longer(more, m)
          BY <1>a, <4>2
        <4> QED
          BY <4>1, <4>3 DEF more, Longer
      <3> QED
        BY <3>1, <3>3, <3>4
    <2> QED
      BY <2>1, <2>2
  <1> HIDE DEF index, m
  <1>5. ASSUME NEW x \in DOMAIN available_modules', available_modules'[x] # 0
        PROVE  /\ available_modules'[x] \in DOMAIN imported_modules'
               /\ imported_modules'[available_modules'[x]] = x
    BY <1>0, <1>2, <1>4, <1>5
  <1>6. ASSUME NEW k \in DOMAIN imported_modules'
        PROVE  /\ imported_modules'[k] \in DOMAIN available_modules'
               /\ available_modules'[imported_modules'[k]] = k
    BY <1>0, <1>1, <1>2, <1>4
  <1>7. ModulesHaveOneSlot'
    <2>1. ASSUME NEW n \in Namespaces, NEW imports,
                 imports = namespaces[n].imported_modules,
                 NEW x \in DOMAIN imports
          PROVE  /\ imports[x] \in DOMAIN imported_modules'
                 /\ \A k \in DOMAIN imported_modules' :
                       imported_modules'[k] = x <=> k = imports[x]
      <3>1. /\ imports[x] \in DOMAIN imported
            /\ \A k \in DOMAIN imported : imported[k] = x <=> k = imports[x]
        BY <1>0, <2>1 DEF ModulesHaveOneSlot
      <3> QED
        BY <1>4, <3>1
    <2>2. ASSUME NEW n \in Namespaces, NEW imports,
                 imports = namespaces'[n].imported_modules,
                 NEW x \in DOMAIN imports
          PROVE  /\ imports[x] \in DOMAIN imported_modules'
                 /\ \A k \in DOMAIN imported_modules' :
                       imported_modules'[k] = x <=> k = imports[x]
      <3> DEFINE old == namespaces[n].imported_modules
      <3>1. CASE imports = old
        BY <2>1, <2>2, <3>1
      <3>2. CASE imports = Insert(old, m, index)
        <4>1. DOMAIN imports = DOMAIN old \cup {m} /\ imports[m] = index
              /\ \A y \in DOMAIN old \ {m} : imports[y] = old[y]
          BY <3>2 DEF Insert
        <4>2. CASE x = m
          BY <1>4, <4>1, <4>2
        <4>3. CASE x # m
          BY <2>1, <2>2, <4>1, <4>3
        <4> QED
          BY <4>2, <4>3
      <3> QED
        BY <1>3, <2>2, <3>1, <3>2
    <2> QED
      BY <2>2 DEF ModulesHaveOneSlot
  <1> QED
    BY <1>4, <1>5, <1>6, <1>7 DEF Slots

-----------------------------------------------------------------------------
(* The second invariant is inductive too. *)

LEMMA InitNames == Init => NamesInv
  <1> SUFFICES ASSUME Init
               PROVE  NamesInv
    OBVIOUS
  <1>1. /\ rules = <<>> /\ global_rules = <<>> /\ imported_modules = <<>>
        /\ available_modules = <<>> /\ pending = <<>> /\ status = "idle"
        /\ namespaces = [n \in Namespaces |-> EmptyNamespace]
    BY DEF Init
  <1>2. Opened
    BY <1>1 DEF Opened
  <1>3. \A n \in Namespaces : /\ namespaces[n].rules_indexes = <<>>
                               /\ namespaces[n].imported_modules = <<>>
    BY <1>1 DEF EmptyNamespace
  <1>4. DOMAIN <<>> = {} /\ <<>> \in Seq(Range(<<>>))
    BY DEF Range
  <1>5. Resolved
    <2>1. \A n \in Namespaces : IsFiniteSet(DOMAIN namespaces[n].rules_indexes)
      BY <1>3, <1>4, FS_EmptySet
    <2>2. NamesFindTheirRule
      BY <1>1, <1>3, <1>4 DEF NamesFindTheirRule
    <2>3. RulesReadEarlierRules
      BY <1>1, <1>4 DEF RulesReadEarlierRules
    <2> QED
      BY <1>1, <1>4, <2>1, <2>2, <2>3 DEF Resolved
  <1>6. Slots
    BY <1>1, <1>3, <1>4 DEF Slots, ModulesHaveOneSlot
  <1> QED
    BY <1>2, <1>5, <1>6, InitInv DEF NamesInv

LEMMA StepNames == NamesInv /\ [Next]_compilerVars => NamesInv'
  <1> SUFFICES ASSUME NamesInv, [Next]_compilerVars
               PROVE  NamesInv'
    OBVIOUS
  <1>0. IInv /\ Opened /\ Resolved /\ Slots /\ Types
    BY DEF NamesInv, IInv
  <1>1. IInv' /\ Opened'
    BY <1>0, StepInv, OpenedKept
  <1>2. CASE AddRule
    <2>1. Resolved'
      BY <1>0, <1>2, AddRuleResolves
    <2>2. /\ UNCHANGED <<available_modules, imported_modules>>
          /\ \A n \in Namespaces :
                namespaces'[n].imported_modules = namespaces[n].imported_modules
      BY <1>0, <1>2, AddRuleIndexes DEF AddRule, modules
    <2> QED
      BY <1>0, <1>1, <2>1, <2>2, SlotsKept DEF NamesInv
  <1>3. CASE Import
    <2>1. UNCHANGED <<rules, global_rules>>
      BY <1>3 DEF Import, compiled
    <2>2. \A n \in Namespaces :
             namespaces'[n].rules_indexes = namespaces[n].rules_indexes
      BY <1>0, <1>3, ImportIndexes
    <2> QED
      BY <1>0, <1>1, <1>3, <2>1, <2>2, ResolvedKept, ImportSlots DEF NamesInv
  <1>4. CASE add_module
    <2>1. UNCHANGED <<rules, global_rules, namespaces>>
      BY <1>4 DEF add_module, compiled
    <2> QED
      BY <1>0, <1>1, <1>4, <2>1, ResolvedKept, AddModuleSlots DEF NamesInv
  <1>5. CASE UNCHANGED <<rules, global_rules, namespaces, available_modules,
                         imported_modules>>
    BY <1>0, <1>1, <1>5, ResolvedKept, SlotsKept DEF NamesInv
  <1>6. CASE define_symbol \/ add_rules \/ Include \/ ComponentFails \/ EndOfFile
    BY <1>5, <1>6 DEF define_symbol, add_rules, Include, ComponentFails, Fail,
                      EndOfFile, compiled, modules
  <1>7. CASE UNCHANGED compilerVars
    BY <1>5, <1>7 DEF compilerVars
  <1> QED
    BY <1>2, <1>3, <1>4, <1>6, <1>7 DEF Next

-----------------------------------------------------------------------------
(* The layout of the strings. *)

\* The strings that rule i of a chain declares, those of the rules before it, and
\* the layout that the scan relies on.
By(chain, strings, i) == {k \in DOMAIN strings : strings[k].rule = chain[i].name}
Before(chain, strings, i) == UNION {By(chain, strings, j) : j \in 1 .. i - 1}
InOrder(chain, strings) ==
    \A i \in DOMAIN chain : \E a \in 0 .. Len(strings) :
        /\ Before(chain, strings, i) = 1 .. a
        /\ By(chain, strings, i) = a + 1 .. a + chain[i].nb_variables

\* Every string is that of a rule.
Declared(chain, strings) ==
    \A k \in DOMAIN strings : \E i \in DOMAIN chain : strings[k].rule = chain[i].name

\* A rule put after the first G rules of a chain of n, its strings after all the others.
Inserted(chain, c, v, vw, G, n, m, k, r) ==
    /\ DOMAIN chain = 1 .. n /\ DOMAIN c = 1 .. n + 1
    /\ \A i \in 1 .. G : c[i] = chain[i]
    /\ c[G + 1] = r
    /\ \A i \in G + 1 .. n : c[i + 1] = chain[i]
    /\ DOMAIN v = 1 .. m /\ DOMAIN vw = 1 .. m + k
    /\ \A j \in 1 .. m : vw[j] = v[j]
    /\ \A j \in m + 1 .. m + k : vw[j].rule = r.name

LEMMA InsertedFacts ==
    ASSUME NEW U, NEW g \in Seq(U), NEW rs \in Seq(U), NEW r \in U, NEW T,
           NEW v \in Seq(T), NEW w \in Seq(T), \A k \in DOMAIN w : w[k].rule = r.name
    PROVE  Inserted(g \o rs, Append(g, r) \o rs, v, v \o w,
                    Len(g), Len(g) + Len(rs), Len(v), Len(w), r)
  <1> DEFINE G == Len(g)
             R == Len(rs)
             h == Append(g, r)
             chain == g \o rs
             c == h \o rs
             vw == v \o w
  <1>1. G \in Nat /\ R \in Nat /\ Len(v) \in Nat /\ Len(w) \in Nat
    OBVIOUS
  <1>2. /\ h \in Seq(U) /\ Len(h) = G + 1
        /\ \A i \in 1 .. G : h[i] = g[i]
        /\ h[G + 1] = r
    OBVIOUS
  <1>3. /\ DOMAIN chain = 1 .. G + R
        /\ \A i \in 1 .. G + R : chain[i] = IF i <= G THEN g[i] ELSE rs[i - G]
    <2>1. chain \in Seq(U) /\ Len(chain) = G + R
      BY ConcatProperties
    <2> QED
      BY <2>1, ConcatProperties
  <1> HIDE DEF h
  <1>4. /\ DOMAIN c = 1 .. G + 1 + R
        /\ \A i \in 1 .. G + 1 + R : c[i] = IF i <= G + 1 THEN h[i] ELSE rs[i - (G + 1)]
    <2> HIDE DEF G
    <2>1. c \in Seq(U) /\ Len(c) = Len(h) + Len(rs)
      BY <1>2, ConcatProperties
    <2>2. Len(c) = G + 1 + R
      BY <1>2, <2>1
    <2> QED
      BY <1>2, <2>1, <2>2, ConcatProperties
  <1>5. /\ DOMAIN v = 1 .. Len(v) /\ DOMAIN w = 1 .. Len(w)
        /\ DOMAIN vw = 1 .. Len(v) + Len(w)
        /\ \A j \in 1 .. Len(v) + Len(w) :
              vw[j] = IF j <= Len(v) THEN v[j] ELSE w[j - Len(v)]
    <2>1. vw \in Seq(T) /\ Len(vw) = Len(v) + Len(w)
      BY ConcatProperties
    <2> QED
      BY <2>1, ConcatProperties
  <1> DEFINE m == Len(v)
             k == Len(w)
  <1> HIDE DEF G, R, m, k, chain, c, vw
  <1>6. ASSUME NEW i \in 1 .. G
        PROVE  c[i] = chain[i]
    <2>1. i \in 1 .. G + 1 + R /\ i \in 1 .. G + R /\ i <= G /\ i <= G + 1
      BY <1>1, <1>6
    <2> QED
      BY <1>2, <1>3, <1>4, <1>6, <2>1
  <1>7. c[G + 1] = r
    <2>1. G + 1 \in 1 .. G + 1 + R /\ G + 1 <= G + 1
      BY <1>1
    <2> QED
      BY <1>2, <1>4, <2>1
  <1>8. ASSUME NEW i \in G + 1 .. G + R
        PROVE  c[i + 1] = chain[i]
    <2>1. /\ i + 1 \in 1 .. G + 1 + R /\ i \in 1 .. G + R
          /\ ~(i <= G) /\ ~(i + 1 <= G + 1) /\ (i + 1) - (G + 1) = i - G
      BY <1>1, <1>8
    <2> QED
      BY <1>3, <1>4, <2>1
  <1>9. ASSUME NEW j \in 1 .. m
        PROVE  vw[j] = v[j]
    <2>1. j \in 1 .. m + k /\ j <= m
      BY <1>1, <1>9 DEF m, k
    <2> QED
      BY <1>5, <2>1 DEF m, k
  <1>10. ASSUME NEW j \in m + 1 .. m + k
         PROVE  vw[j].rule = r.name
    <2>1. j \in 1 .. m + k /\ ~(j <= m) /\ j - m \in 1 .. k
      BY <1>1, <1>10 DEF m, k
    <2>2. vw[j] = w[j - m] /\ j - m \in DOMAIN w
      BY <1>5, <2>1 DEF m, k
    <2> QED
      BY <2>2
  <1>11. G + 1 + R = G + R + 1
    BY <1>1
  <1>12. Inserted(chain, c, v, vw, G, G + R, m, k, r)
    BY <1>3, <1>4, <1>5, <1>6, <1>7, <1>8, <1>9, <1>10, <1>11 DEF Inserted, m, k
  <1> QED
    BY <1>12 DEF chain, c, vw, G, R, m, k, h

\* What the rules then declare.
Moved(chain, c, v, vw, G, n, m, k) ==
    /\ \A i \in 1 .. G : By(c, vw, i) = By(chain, v, i)
    /\ By(c, vw, G + 1) = m + 1 .. m + k
    /\ \A i \in G + 1 .. n : By(c, vw, i + 1) = By(chain, v, i)
    /\ Declared(c, vw)

\* The name of rule r is new.
Fresh(chain, v, r) ==
    /\ \A i \in DOMAIN chain : chain[i].name # r.name
    /\ Declared(chain, v)

LEMMA InsertedStrings ==
    ASSUME NEW chain, NEW c, NEW v, NEW vw, NEW G \in Nat, NEW n \in Nat, G <= n,
           NEW m \in Nat, NEW k \in Nat, NEW r, Inserted(chain, c, v, vw, G, n, m, k, r),
           Fresh(chain, v, r)
    PROVE  Moved(chain, c, v, vw, G, n, m, k)
  <1> USE DEF Inserted, Fresh
  <1>1. /\ \A j \in 1 .. m + k : j \in 1 .. m \/ j \in m + 1 .. m + k
        /\ 1 .. m \subseteq 1 .. m + k /\ m + 1 .. m + k \subseteq 1 .. m + k
        /\ 1 .. G \subseteq 1 .. n
        /\ \A i \in G + 1 .. n : i \in 1 .. n /\ i + 1 \in 1 .. n + 1
        /\ G + 1 \in 1 .. n + 1 /\ 1 .. G \subseteq 1 .. n + 1
        /\ \A i \in 1 .. n : i \in 1 .. G \/ i \in G + 1 .. n
    OBVIOUS
  <1>2. \A j \in 1 .. m : vw[j].rule # r.name
    BY DEF Declared
  <1>3. ASSUME NEW i, NEW q \in DOMAIN chain, c[i] = chain[q]
        PROVE  By(c, vw, i) = By(chain, v, q)
    <2>1. c[i].name # r.name
      BY <1>3
    <2> QED
      BY <1>1, <1>3, <2>1 DEF By
  <1>4. By(c, vw, G + 1) = m + 1 .. m + k
    BY <1>1, <1>2 DEF By
  <1>5. Declared(c, vw)
    <2> SUFFICES ASSUME NEW j \in DOMAIN vw
                 PROVE  \E i \in DOMAIN c : vw[j].rule = c[i].name
      BY DEF Declared
    <2>1. CASE j \in m + 1 .. m + k
      BY <1>1, <2>1
    <2>2. CASE j \in 1 .. m
      <3>1. PICK i \in DOMAIN chain : v[j].rule = chain[i].name
        BY <2>2 DEF Declared
      <3>2. vw[j].rule = chain[i].name
        BY <2>2, <3>1
      <3>3. CASE i \in 1 .. G
        BY <1>1, <3>2, <3>3
      <3>4. CASE i \in G + 1 .. n
        BY <1>1, <3>2, <3>4
      <3> QED
        BY <1>1, <3>3, <3>4
    <2> QED
      BY <1>1, <2>1, <2>2
  <1>6. ASSUME NEW i \in 1 .. G
        PROVE  By(c, vw, i) = By(chain, v, i)
    BY <1>1, <1>3, <1>6
  <1>7. ASSUME NEW i \in G + 1 .. n
        PROVE  By(c, vw, i + 1) = By(chain, v, i)
    BY <1>1, <1>3, <1>7
  <1> QED
    BY <1>4, <1>5, <1>6, <1>7 DEF Moved

\* The layout is kept, where the rules that follow have no string or the new rule has
\* none.
LEMMA InsertedInOrder ==
    ASSUME NEW chain, NEW c, NEW v, NEW vw, NEW G \in Nat, NEW n \in Nat, G <= n,
           NEW m \in Nat, NEW k \in Nat, NEW r, Inserted(chain, c, v, vw, G, n, m, k, r),
           Fresh(chain, v, r), InOrder(chain, v), Len(v) = m, Len(vw) = m + k, r.nb_variables = k,
           k # 0 => \A i \in G + 1 .. n : chain[i].nb_variables = 0
    PROVE  InOrder(c, vw)
  <1>1. /\ DOMAIN chain = 1 .. n /\ DOMAIN c = 1 .. n + 1 /\ DOMAIN v = 1 .. m
        /\ \A i \in 1 .. G : c[i] = chain[i]
        /\ c[G + 1] = r
        /\ \A i \in G + 1 .. n : c[i + 1] = chain[i]
    BY DEF Inserted
  <1>2. /\ \A i \in 1 .. G : By(c, vw, i) = By(chain, v, i)
        /\ By(c, vw, G + 1) = m + 1 .. m + k
        /\ \A i \in G + 1 .. n : By(c, vw, i + 1) = By(chain, v, i)
    <2>1. Moved(chain, c, v, vw, G, n, m, k)
      BY InsertedStrings
    <2> QED
      BY <2>1 DEF Moved
  <1>3. ASSUME NEW i \in 1 .. G + 1
        PROVE  Before(c, vw, i) = Before(chain, v, i)
    <2>1. \A j \in 1 .. i - 1 : j \in 1 .. G
      BY <1>3
    <2> QED
      BY <1>2, <2>1 DEF Before
  <1>4. ASSUME NEW i \in G + 1 .. n
        PROVE  Before(c, vw, i + 1) = Before(chain, v, i) \cup (m + 1 .. m + k)
    <2>1. ASSUME NEW x, NEW j \in 1 .. i, x \in By(c, vw, j)
          PROVE  x \in Before(chain, v, i) \cup (m + 1 .. m + k)
      <3>1. CASE j \in 1 .. G
        <4>1. j \in 1 .. i - 1
          BY <1>4, <3>1
        <4> QED
          BY <1>2, <2>1, <3>1, <4>1 DEF Before
      <3>2. CASE j = G + 1
        BY <1>2, <2>1, <3>2
      <3>3. CASE j \in G + 2 .. i
        <4>1. j - 1 \in G + 1 .. n /\ (j - 1) + 1 = j /\ j - 1 \in 1 .. i - 1
          BY <1>4, <3>3
        <4>2. By(c, vw, (j - 1) + 1) = By(chain, v, j - 1)
          BY <1>2, <4>1
        <4> QED
          BY <2>1, <4>1, <4>2 DEF Before
      <3> QED
        BY <1>4, <2>1, <3>1, <3>2, <3>3
    <2>2. ASSUME NEW x, NEW j \in 1 .. i - 1, x \in By(chain, v, j)
          PROVE  \E q \in 1 .. i : x \in By(c, vw, q)
      <3>1. CASE j \in 1 .. G
        <4>1. j \in 1 .. i
          BY <1>4, <3>1
        <4> QED
          BY <1>2, <2>2, <3>1, <4>1
      <3>2. CASE j \in G + 1 .. n
        <4>1. j + 1 \in 1 .. i
          BY <1>4, <2>2
        <4> QED
          BY <1>2, <2>2, <3>2, <4>1
      <3> QED
        BY <1>4, <2>2, <3>1, <3>2
    <2>3. G + 1 \in 1 .. i /\ (i + 1) - 1 = i
      BY <1>4
    <2> QED
      BY <1>2, <2>1, <2>2, <2>3 DEF Before
  <1>5. \A j \in DOMAIN chain : By(chain, v, j) \subseteq 1 .. m
    BY <1>1 DEF By
  <1>6. ASSUME NEW x \in 1 .. m
        PROVE  \E j \in 1 .. n : x \in By(chain, v, j)
    BY <1>1, <1>6 DEF Declared, By, Fresh
  <1>7. Before(chain, v, n + 1) = 1 .. m
    <2>1. (n + 1) - 1 = n
      OBVIOUS
    <2> QED
      BY <1>1, <1>5, <1>6, <2>1 DEF Before
  <1>8. ASSUME k # 0, NEW i \in G + 1 .. n
        PROVE  By(chain, v, i) = {} /\ Before(chain, v, i) = 1 .. m
    <2>1. ASSUME NEW j \in G + 1 .. n
          PROVE  By(chain, v, j) = {}
      <3>1. j \in DOMAIN chain /\ chain[j].nb_variables = 0
        BY <1>1, <1>8, <2>1
      <3>2. PICK a \in 0 .. Len(v) :
               By(chain, v, j) = a + 1 .. a + chain[j].nb_variables
        BY <3>1 DEF InOrder
      <3>3. a + 1 .. a + 0 = {}
        OBVIOUS
      <3> QED
        BY <3>1, <3>2, <3>3
    <2>2. \A j \in 1 .. i - 1 : j \in DOMAIN chain
      BY <1>1, <1>8
    <2>3. Before(chain, v, i) \subseteq 1 .. m
      BY <1>5, <2>2 DEF Before
    <2>4. ASSUME NEW x \in 1 .. m
          PROVE  x \in Before(chain, v, i)
      <3>1. PICK j \in 1 .. n : x \in By(chain, v, j)
        BY <1>6, <2>4
      <3>2. j \notin G + 1 .. n
        BY <2>1, <3>1
      <3>3. j \in 1 .. i - 1
        BY <1>8, <3>2
      <3> QED
        BY <3>1, <3>3 DEF Before
    <2> QED
      BY <1>8, <2>1, <2>3, <2>4
  <1>9. /\ Len(vw) = m + k /\ m \in 0 .. m + k /\ m + k \in 0 .. m + k
        /\ \A a \in 0 .. m : a \in Nat /\ a \in 0 .. m + k
    OBVIOUS
  <1>10. ASSUME NEW i \in 1 .. G
         PROVE  \E a \in 0 .. Len(vw) : /\ Before(c, vw, i) = 1 .. a
                                        /\ By(c, vw, i) = a + 1 .. a + c[i].nb_variables
    <2>1. i \in DOMAIN chain /\ i \in 1 .. G + 1
      BY <1>1, <1>10
    <2>2. PICK a \in 0 .. m :
             /\ Before(chain, v, i) = 1 .. a
             /\ By(chain, v, i) = a + 1 .. a + chain[i].nb_variables
      BY <2>1 DEF InOrder
    <2> QED
      BY <1>1, <1>2, <1>3, <1>9, <1>10, <2>1, <2>2
  <1>11. \E a \in 0 .. Len(vw) : /\ Before(c, vw, G + 1) = 1 .. a
                                 /\ By(c, vw, G + 1) = a + 1 .. a + r.nb_variables
    <2>0. G + 1 \in 1 .. G + 1 /\ By(c, vw, G + 1) = m + 1 .. m + r.nb_variables
      BY <1>2
    <2>1. Before(c, vw, G + 1) = Before(chain, v, G + 1)
      BY <1>3, <2>0
    <2>2. CASE G = n
      BY <1>7, <1>9, <2>0, <2>1, <2>2
    <2>3. CASE G # n /\ k # 0
      <3>1. G + 1 \in G + 1 .. n
        BY <2>3
      <3> QED
        BY <1>8, <1>9, <2>0, <2>1, <2>3, <3>1
    <2>4. CASE G # n /\ k = 0
      <3>1. G + 1 \in DOMAIN chain
        BY <1>1, <2>4
      <3>2. PICK a \in 0 .. m : Before(chain, v, G + 1) = 1 .. a
        BY <3>1 DEF InOrder
      <3>3. m + 1 .. m + k = a + 1 .. a + k
        BY <2>4
      <3> QED
        BY <1>2, <1>9, <2>1, <3>2, <3>3
    <2> QED
      BY <2>2, <2>3, <2>4
  <1>12. ASSUME NEW i \in G + 1 .. n
         PROVE  \E a \in 0 .. Len(vw) :
                   /\ Before(c, vw, i + 1) = 1 .. a
                   /\ By(c, vw, i + 1) = a + 1 .. a + c[i + 1].nb_variables
    <2>1. i \in DOMAIN chain /\ c[i + 1] = chain[i]
      BY <1>1, <1>12
    <2>2. PICK a \in 0 .. m :
             /\ Before(chain, v, i) = 1 .. a
             /\ By(chain, v, i) = a + 1 .. a + chain[i].nb_variables
      BY <2>1 DEF InOrder
    <2>3. By(c, vw, i + 1) = By(chain, v, i)
      BY <1>2, <1>12
    <2>4. CASE k = 0
      <3>1. m + 1 .. m + k = {}
        BY <2>4
      <3>2. Before(c, vw, i + 1) = 1 .. a
        BY <1>4, <1>12, <2>2, <3>1
      <3> QED
        BY <1>9, <2>1, <2>2, <2>3, <3>2
    <2>5. CASE k # 0
      <3>1. (1 .. m) \cup (m + 1 .. m + k) = 1 .. m + k
        OBVIOUS
      <3>2. Before(c, vw, i + 1) = 1 .. m + k
        BY <1>4, <1>8, <1>12, <2>5, <3>1
      <3>3. c[i + 1].nb_variables = 0 /\ By(c, vw, i + 1) = {}
        BY <1>8, <1>12, <2>1, <2>3, <2>5
      <3>4. (m + k) + 1 .. (m + k) + 0 = {}
        OBVIOUS
      <3> QED
        BY <1>9, <3>2, <3>3, <3>4
    <2> QED
      BY <2>4, <2>5
  <1>13. ASSUME NEW i \in DOMAIN c
         PROVE  i \in 1 .. G \/ i = G + 1 \/ (i - 1 \in G + 1 .. n /\ (i - 1) + 1 = i)
    BY <1>1, <1>13
  <1>14. ASSUME NEW i \in DOMAIN c
         PROVE  \E a \in 0 .. Len(vw) : /\ Before(c, vw, i) = 1 .. a
                                        /\ By(c, vw, i) = a + 1 .. a + c[i].nb_variables
    <2>1. CASE i - 1 \in G + 1 .. n /\ (i - 1) + 1 = i
      BY <1>12, <2>1
    <2> QED
      BY <1>1, <1>10, <1>11, <1>13, <1>14, <2>1
  <1> QED
    BY <1>14 DEF InOrder

\* The third invariant.  The rules in the order of their evaluation; a chain has new
\* names if the namespaces know all of them.
Evaluated == global_rules \o rules

\* Every rule is known to its namespace.
AllKnown(chain, spaces) ==
    \A i \in DOMAIN chain : \E n \in Namespaces :
        \E x \in DOMAIN spaces[n].rules_indexes : chain[i].name = <<n, x>>

\* A rule with strings that is not global was given with strings.
StringsGiven(rs, given) ==
    \A k \in DOMAIN rs : \E i \in DOMAIN given :
        /\ ~given[i].rule.is_global
        /\ rs[k].nb_variables # 0 => given[i].rule.variables # <<>>

Layout ==
    /\ variables \in Seq(Range(variables))
    /\ Declared(Evaluated, variables)
    /\ AllKnown(Evaluated, namespaces)
    /\ StringsGiven(rules, accepted)
    /\ GlobalStringsFirst => InOrder(Evaluated, variables)

LayoutInv == NamesInv /\ Layout

LEMMA InitLayout == Init => LayoutInv
  <1> SUFFICES ASSUME Init
               PROVE  Layout
    BY InitNames DEF LayoutInv
  <1>1. rules = <<>> /\ global_rules = <<>> /\ variables = <<>>
    BY DEF Init
  <1>2. Evaluated = <<>>
    BY <1>1 DEF Evaluated
  <1>3. DOMAIN <<>> = {} /\ <<>> \in Seq(Range(<<>>))
    BY DEF Range
  <1> QED
    BY <1>1, <1>2, <1>3 DEF Layout, Declared, AllKnown, StringsGiven, InOrder

\* The steps that accept no rule.
LEMMA LayoutKept ==
    ASSUME Layout, UNCHANGED compiled,
           \A n \in Namespaces :
              namespaces'[n].rules_indexes = namespaces[n].rules_indexes
    PROVE  Layout'
  <1>1. /\ rules' = rules /\ global_rules' = global_rules /\ variables' = variables
        /\ accepted' = accepted
    BY DEF compiled
  <1>2. Evaluated' = Evaluated
    BY <1>1 DEF Evaluated
  <1>3. AllKnown(Evaluated, namespaces')
    BY DEF Layout, AllKnown
  <1>4. GlobalStringsFirst' <=> GlobalStringsFirst
    BY <1>1 DEF GlobalStringsFirst, Text
  <1> QED
    BY <1>1, <1>2, <1>3, <1>4 DEF Layout

\* The strings of a rule that compiles.
LEMMA CompiledStrings ==
    ASSUME Opened, AddRule, NEW w, w = CompiledVariables(Component.rule)
    PROVE  /\ w \in Seq(Range(w))
           /\ Len(w) = Rule(Component.rule).nb_variables
           /\ \A k \in DOMAIN w : w[k].rule = Rule(Component.rule).name
           /\ Len(w) # 0 => Component.rule.variables # <<>>
  <1> DEFINE given == Component.rule.variables
  <1>1. given \in Seq(Range(given))
    <2>1. Component \in Written /\ Component.kind = "rule"
      BY ComponentWritten DEF AddRule
    <2> QED
      BY <2>1, RulesAssumption
  <1>2. Len(given) \in Nat /\ DOMAIN given = 1 .. Len(given)
    BY <1>1
  <1>3. /\ Rule(Component.rule).nb_variables = Len(given)
        /\ Rule(Component.rule).name = <<namespace, Component.rule.name>>
    BY DEF Rule
  <1>4. /\ DOMAIN w = DOMAIN given
        /\ \A k \in DOMAIN w : w[k].rule = <<namespace, Component.rule.name>>
    BY DEF CompiledVariables
  <1>5. w \in [1 .. Len(given) -> Range(w)]
    <2>1. w = [k \in DOMAIN w |-> w[k]]
      BY DEF CompiledVariables
    <2> QED
      BY <1>2, <1>4, <2>1 DEF Range
  <1>6. w \in Seq(Range(w)) /\ Len(w) = Len(given)
    BY <1>2, <1>5
  <1>7. Len(given) # 0 => given # <<>>
    BY <1>1
  <1> HIDE DEF given
  <1> QED
    BY <1>3, <1>4, <1>6, <1>7 DEF given

\* A rule accepted is put after the globals, or at the end.
LEMMA AddRuleInserts ==
    ASSUME Opened, Resolved, variables \in Seq(Range(variables)), AddRule,
           NEW r, r = Rule(Component.rule)
    PROVE  \E G \in Nat, n \in Nat, m \in Nat :
              /\ G <= n /\ Len(variables) = m /\ r.nb_variables \in Nat
              /\ Len(variables') = m + r.nb_variables
              /\ variables' \in Seq(Range(variables'))
              /\ Inserted(Evaluated, Evaluated', variables, variables',
                          G, n, m, r.nb_variables, r)
              /\ ~Component.rule.is_global => G = n
              /\ \A i \in G + 1 .. n : \E q \in DOMAIN rules : Evaluated[i] = rules[q]
  <1> DEFINE rule == Component.rule
             w == CompiledVariables(rule)
             U == Range(rules) \cup Range(global_rules) \cup {r}
             T == Range(variables) \cup Range(w)
             k == Len(w)
  <1>1. /\ variables' = variables \o w
        /\ rule.is_global => /\ rules' = rules
                             /\ global_rules' = Append(global_rules, r)
        /\ ~rule.is_global => /\ rules' = Append(rules, r)
                              /\ global_rules' = global_rules
    BY DEF AddRule
  <1>2. /\ w \in Seq(Range(w)) /\ k = r.nb_variables
        /\ \A j \in DOMAIN w : w[j].rule = r.name
    BY CompiledStrings
  <1>3. rules \in Seq(U) /\ global_rules \in Seq(U) /\ r \in U
    <2>1. rules \in Seq(Range(rules)) /\ global_rules \in Seq(Range(global_rules))
      BY DEF Resolved
    <2> QED
      BY <2>1
  <1> HIDE DEF w, U, rule
  <1>4. variables \in Seq(T) /\ w \in Seq(T)
    BY <1>2
  <1> HIDE DEF T
  <1>5. /\ Len(variables) \in Nat /\ k \in Nat /\ variables' \in Seq(T)
        /\ Len(variables') = Len(variables) + k
    BY <1>1, <1>4, ConcatProperties
  <1>6. variables' \in Seq(Range(variables'))
    <2>1. \A s : s \in Seq(T) => s \in Seq(Range(s))
      BY DEF Range
    <2> QED
      BY <1>5, <2>1
  <1>7. /\ Evaluated \in Seq(U) /\ Len(global_rules) \in Nat /\ Len(rules) \in Nat
        /\ Len(Evaluated) = Len(global_rules) + Len(rules)
        /\ \A i \in 1 .. Len(global_rules) + Len(rules) :
              Evaluated[i] = IF i <= Len(global_rules) THEN global_rules[i]
                             ELSE rules[i - Len(global_rules)]
    BY <1>3, ConcatProperties DEF Evaluated
  <1>8. CASE rule.is_global
    <2> DEFINE G == Len(global_rules)
               n == Len(global_rules) + Len(rules)
    <2>1. Evaluated' = Append(global_rules, r) \o rules
      BY <1>1, <1>8 DEF Evaluated
    <2>2. Inserted(Evaluated, Evaluated', variables, variables', G, n,
                   Len(variables), k, r)
      BY <1>1, <1>2, <1>3, <1>4, <2>1, InsertedFacts DEF Evaluated
    <2>3. G \in Nat /\ n \in Nat /\ G <= n
      BY <1>7
    <2>4. ASSUME NEW i \in G + 1 .. n
          PROVE  \E q \in DOMAIN rules : Evaluated[i] = rules[q]
      <3>1. i - G \in DOMAIN rules /\ i \in 1 .. n /\ ~(i <= G)
        BY <1>3, <1>7, <2>4
      <3> QED
        BY <1>7, <3>1
    <2> HIDE DEF G, n
    <2> QED
      BY <1>2, <1>5, <1>6, <1>8, <2>2, <2>3, <2>4 DEF rule
  <1>9. CASE ~rule.is_global
    <2> DEFINE n == Len(Evaluated)
    <2>1. Evaluated' = Append(Evaluated, r) \o <<>>
      <3>1. Evaluated' = global_rules \o Append(rules, r)
        BY <1>1, <1>9 DEF Evaluated
      <3>2. <<r>> \in Seq(U) /\ Append(rules, r) = rules \o <<r>>
        BY <1>3, AppendIsConcat
      <3>3. global_rules \o (rules \o <<r>>) = Evaluated \o <<r>>
        BY <1>3, <3>2, ConcatAssociative DEF Evaluated
      <3>4. /\ Append(Evaluated, r) = Evaluated \o <<r>>
            /\ Append(Evaluated, r) \in Seq(U)
        BY <1>3, <1>7, AppendIsConcat
      <3> QED
        BY <3>1, <3>2, <3>3, <3>4, ConcatEmptySeq
    <2>2. Evaluated = Evaluated \o <<>> /\ <<>> \in Seq(U) /\ Len(<<>>) = 0
      BY <1>7, ConcatEmptySeq
    <2>3. n \in Nat /\ n + 0 = n /\ n <= n
      BY <1>7
    <2>4. Inserted(Evaluated, Evaluated', variables, variables', n, n,
                   Len(variables), k, r)
      BY <1>1, <1>2, <1>3, <1>4, <1>7, <2>1, <2>2, <2>3, InsertedFacts
    <2>5. n + 1 .. n = {}
      BY <2>3
    <2> HIDE DEF n
    <2> QED
      BY <1>2, <1>5, <1>6, <2>3, <2>4, <2>5
  <1> QED
    BY <1>8, <1>9

\* A rule accepted is known to its namespace, and its name is new.
LEMMA AddRuleKnown ==
    ASSUME IInv, AddRule, AllKnown(Evaluated, namespaces),
           NEW r, r = Rule(Component.rule)
    PROVE  /\ \A i \in DOMAIN Evaluated : Evaluated[i].name # r.name
           /\ \A i \in DOMAIN Evaluated : \E n \in Namespaces :
                 \E x \in DOMAIN namespaces'[n].rules_indexes :
                    Evaluated[i].name = <<n, x>>
           /\ \E n \in Namespaces : \E x \in DOMAIN namespaces'[n].rules_indexes :
                 r.name = <<n, x>>
  <1> DEFINE name == Component.rule.name
  <1>1. r.name = <<namespace, name>> /\ namespace \in Namespaces
    BY DEF Rule, IInv, Types
  <1>2. name \notin DOMAIN namespaces[namespace].rules_indexes
    BY DEF AddRule, Acceptable, Ns
  <1>3. /\ \A n \in Namespaces \ {namespace} : namespaces'[n] = namespaces[n]
        /\ DOMAIN namespaces'[namespace].rules_indexes =
              DOMAIN namespaces[namespace].rules_indexes \cup {name}
    <2>1. DOMAIN Insert(Ns.rules_indexes, name, RuleIndex(Component.rule)) =
             DOMAIN Ns.rules_indexes \cup {name}
      BY DEF Insert
    <2> QED
      BY <2>1, AddRuleIndexes DEF Ns
  <1> HIDE DEF name
  <1> QED
    BY <1>1, <1>2, <1>3 DEF AllKnown

LEMMA AddRuleLayout ==
    ASSUME NamesInv, Layout, AddRule
    PROVE  Layout'
  <1> DEFINE rule == Component.rule
             r == Rule(rule)
             k == r.nb_variables
             entry == [namespace |-> namespace, rule |-> rule,
                       modules |-> DOMAIN Ns.imported_modules,
                       symbols |-> Range(external_symbols)]
  <1>0. /\ IInv /\ Opened /\ Resolved /\ Types
        /\ variables \in Seq(Range(variables))
        /\ Declared(Evaluated, variables)
        /\ AllKnown(Evaluated, namespaces)
        /\ StringsGiven(rules, accepted)
        /\ GlobalStringsFirst => InOrder(Evaluated, variables)
    BY DEF NamesInv, IInv, Layout
  <1>1. PICK G \in Nat, n \in Nat, m \in Nat :
           /\ G <= n /\ Len(variables) = m /\ k \in Nat
           /\ Len(variables') = m + k
           /\ variables' \in Seq(Range(variables'))
           /\ Inserted(Evaluated, Evaluated', variables, variables', G, n, m, k, r)
           /\ ~rule.is_global => G = n
           /\ \A i \in G + 1 .. n : \E q \in DOMAIN rules : Evaluated[i] = rules[q]
    BY <1>0, AddRuleInserts
  <1>2. /\ \A i \in DOMAIN Evaluated : Evaluated[i].name # r.name
        /\ \A i \in DOMAIN Evaluated : \E s \in Namespaces :
              \E x \in DOMAIN namespaces'[s].rules_indexes :
                 Evaluated[i].name = <<s, x>>
        /\ \E s \in Namespaces : \E x \in DOMAIN namespaces'[s].rules_indexes :
              r.name = <<s, x>>
    BY <1>0, AddRuleKnown
  <1>3. /\ accepted' = Append(accepted, entry)
        /\ rule.is_global => rules' = rules
        /\ ~rule.is_global => rules' = Append(rules, r)
    BY DEF AddRule
  <1>4. entry.rule = rule
    OBVIOUS
  <1>5. k # 0 => rule.variables # <<>>
    BY <1>0, CompiledStrings
  <1> HIDE DEF rule, r, k, entry
  <1>6. Fresh(Evaluated, variables, r)
    BY <1>0, <1>2 DEF Fresh
  <1>7. Declared(Evaluated', variables')
    <2>1. Moved(Evaluated, Evaluated', variables, variables', G, n, m, k)
      BY <1>1, <1>6, InsertedStrings
    <2> QED
      BY <2>1 DEF Moved
  <1>8. AllKnown(Evaluated', namespaces')
    <2> DEFINE c == Evaluated'
    <2>1. /\ DOMAIN c = 1 .. n + 1 /\ DOMAIN Evaluated = 1 .. n
          /\ \A i \in 1 .. G : c[i] = Evaluated[i]
          /\ c[G + 1] = r
          /\ \A i \in G + 1 .. n : c[i + 1] = Evaluated[i]
      BY <1>1 DEF Inserted
    <2> HIDE DEF c
    <2>2. ASSUME NEW i \in DOMAIN c
          PROVE  c[i] = r \/ \E j \in DOMAIN Evaluated : c[i] = Evaluated[j]
      <3>1. i \in 1 .. G \/ i = G + 1 \/ (i - 1 \in G + 1 .. n /\ (i - 1) + 1 = i)
        BY <1>1, <2>1, <2>2
      <3>2. \A j \in 1 .. n : j \in DOMAIN Evaluated
        BY <2>1
      <3>3. CASE i - 1 \in G + 1 .. n /\ (i - 1) + 1 = i
        <4>1. i - 1 \in 1 .. n /\ c[i] = Evaluated[i - 1]
          BY <2>1, <3>3
        <4> QED
          BY <3>2, <4>1
      <3>4. CASE i \in 1 .. G
        BY <1>1, <2>1, <3>2, <3>4
      <3> QED
        BY <2>1, <3>1, <3>3, <3>4
    <2>3. ASSUME NEW i \in DOMAIN c
          PROVE  \E s \in Namespaces : \E x \in DOMAIN namespaces'[s].rules_indexes :
                    c[i].name = <<s, x>>
      BY <1>2, <2>2, <2>3
    <2> QED
      BY <2>3 DEF AllKnown, c
  \* The rules given.
  <1>9. /\ Len(accepted) \in Nat /\ DOMAIN accepted = 1 .. Len(accepted)
        /\ DOMAIN accepted' = 1 .. Len(accepted) + 1
        /\ \A i \in 1 .. Len(accepted) : accepted'[i] = accepted[i]
        /\ accepted'[Len(accepted) + 1] = entry
    <2>1. accepted \in Seq(Range(accepted))
      BY <1>0 DEF Types
    <2> QED
      BY <1>3, <2>1, AppendAny
  <1>10. StringsGiven(rules', accepted')
    <2>1. ASSUME NEW q \in DOMAIN rules
          PROVE  \E i \in DOMAIN accepted' :
                    /\ ~accepted'[i].rule.is_global
                    /\ rules[q].nb_variables # 0 => accepted'[i].rule.variables # <<>>
      <3>1. PICK i \in DOMAIN accepted :
               /\ ~accepted[i].rule.is_global
               /\ rules[q].nb_variables # 0 => accepted[i].rule.variables # <<>>
        BY <1>0, <2>1 DEF StringsGiven
      <3>2. i \in DOMAIN accepted' /\ accepted'[i] = accepted[i]
        BY <1>9, <3>1
      <3> QED
        BY <3>1, <3>2
    <2>2. CASE rule.is_global
      BY <1>3, <2>1, <2>2 DEF StringsGiven
    <2>3. CASE ~rule.is_global
      <3>1. \A q \in DOMAIN rules' :
               \/ q \in DOMAIN rules /\ rules'[q] = rules[q]
               \/ rules'[q] = r
        <4>1. rules \in Seq(Range(rules))
          BY <1>0 DEF Resolved
        <4> QED
          BY <1>3, <2>3, <4>1, AppendAny
      <3>2. /\ Len(accepted) + 1 \in DOMAIN accepted'
            /\ ~accepted'[Len(accepted) + 1].rule.is_global
            /\ r.nb_variables # 0 => accepted'[Len(accepted) + 1].rule.variables # <<>>
        BY <1>4, <1>5, <1>9, <2>3 DEF k
      <3>3. ASSUME NEW q \in DOMAIN rules'
            PROVE  \E i \in DOMAIN accepted' :
                      /\ ~accepted'[i].rule.is_global
                      /\ rules'[q].nb_variables # 0 =>
                            accepted'[i].rule.variables # <<>>
        BY <2>1, <3>1, <3>2, <3>3
      <3> QED
        BY <3>3 DEF StringsGiven
    <2> QED
      BY <2>2, <2>3
  <1>11. ASSUME GlobalStringsFirst'
         PROVE  InOrder(Evaluated', variables')
    <2>1. \A i, j \in DOMAIN accepted' :
             i < j /\ accepted'[j].rule.is_global /\ accepted'[j].rule.variables # <<>>
                => accepted'[i].rule.is_global \/ accepted'[i].rule.variables = <<>>
      BY <1>11 DEF GlobalStringsFirst, Text
    <2>2. GlobalStringsFirst
      <3>1. \A i \in DOMAIN accepted :
               i \in DOMAIN accepted' /\ accepted'[i] = accepted[i]
        BY <1>9
      <3> QED
        BY <2>1, <3>1 DEF GlobalStringsFirst, Text
    <2>3. k # 0 => \A i \in G + 1 .. n : Evaluated[i].nb_variables = 0
      <3> SUFFICES ASSUME k # 0, NEW i \in G + 1 .. n
                   PROVE  Evaluated[i].nb_variables = 0
        OBVIOUS
      <3>1. rule.is_global
        BY <1>1
      <3>2. PICK q \in DOMAIN rules : Evaluated[i] = rules[q]
        BY <1>1
      <3>3. PICK a \in DOMAIN accepted :
               /\ ~accepted[a].rule.is_global
               /\ rules[q].nb_variables # 0 => accepted[a].rule.variables # <<>>
        BY <1>0 DEF StringsGiven
      <3>4. /\ a \in DOMAIN accepted' /\ accepted'[a] = accepted[a]
            /\ Len(accepted) + 1 \in DOMAIN accepted' /\ a < Len(accepted) + 1
        BY <1>9, <3>3
      <3>5. accepted[a].rule.variables = <<>>
        BY <1>4, <1>5, <1>9, <2>1, <3>1, <3>3, <3>4
      <3> QED
        BY <3>2, <3>3, <3>5
    <2>4. InOrder(Evaluated, variables) /\ r.nb_variables = k
      BY <1>0, <2>2 DEF k
    <2> QED
      BY <1>1, <1>6, <2>3, <2>4, InsertedInOrder
  <1> QED
    BY <1>1, <1>7, <1>8, <1>10, <1>11 DEF Layout

LEMMA StepLayout == LayoutInv /\ [Next]_compilerVars => LayoutInv'
  <1> SUFFICES ASSUME LayoutInv, [Next]_compilerVars
               PROVE  LayoutInv'
    OBVIOUS
  <1>0. NamesInv /\ Layout /\ Types
    BY DEF LayoutInv, NamesInv, IInv
  <1>1. NamesInv'
    BY <1>0, StepNames
  <1>2. CASE AddRule
    BY <1>0, <1>1, <1>2, AddRuleLayout DEF LayoutInv
  <1>3. CASE Import
    <2>1. UNCHANGED compiled
      BY <1>3 DEF Import
    <2> QED
      BY <1>0, <1>1, <1>3, <2>1, ImportIndexes, LayoutKept DEF LayoutInv
  <1>4. CASE UNCHANGED <<compiled, namespaces>>
    BY <1>0, <1>1, <1>4, LayoutKept DEF LayoutInv
  <1>5. CASE add_module \/ define_symbol \/ add_rules \/ Include \/ ComponentFails
             \/ EndOfFile
    BY <1>4, <1>5 DEF add_module, define_symbol, add_rules, Include, ComponentFails,
                      Fail, EndOfFile
  <1>6. CASE UNCHANGED compilerVars
    BY <1>4, <1>6 DEF compilerVars, compiled
  <1> QED
    BY <1>2, <1>3, <1>5, <1>6 DEF Next

\* The layout, as the scanner has it.
LEMMA LayoutHandedOver == LayoutInv => HandsOverInOrder
  <1> SUFFICES ASSUME Layout, GlobalStringsFirst
               PROVE  S!StringsInOrder(IntoScanner)
    BY DEF LayoutInv, HandsOverInOrder
  <1> DEFINE s == IntoScanner
  <1>1. S!ChainOf(s) = Evaluated /\ s.variables = variables
    BY DEF IntoScanner, S!ChainOf, Evaluated
  <1> HIDE DEF s
  <1>2. \A i : S!DeclaredBy(s, i) = By(Evaluated, variables, i)
    BY <1>1 DEF S!DeclaredBy, By
  <1>3. \A i : S!DeclaredBefore(s, i) = Before(Evaluated, variables, i)
    BY <1>2 DEF S!DeclaredBefore, Before
  <1>4. InOrder(Evaluated, variables)
    BY DEF Layout
  <1>5. S!StringsInOrder(s)
    BY <1>1, <1>2, <1>3, <1>4 DEF S!StringsInOrder, InOrder
  <1> QED
    BY <1>5 DEF s

-----------------------------------------------------------------------------
(* The scans.  What is proved of the steps of a scan holds for any scanner    *)
(* and memory: it is taken here of none given in advance.                     *)

P == INSTANCE ScannerProofs WITH Scanners <- {}, Inputs <- {}

LEMMA NoneGiven ==
    /\ P!ScannersAssumption /\ P!InputsAssumption /\ P!MatchesAssumption
    /\ P!ConditionsAssumption /\ P!ValuesAssumption
    /\ P!IntBitsAssumption /\ P!StackDepthAssumption /\ P!ExpressionsAssumption
  <1>1. /\ P!ScannersAssumption /\ P!InputsAssumption /\ P!MatchesAssumption
        /\ P!ConditionsAssumption /\ P!ValuesAssumption
    BY DEF P!ScannersAssumption, P!InputsAssumption, P!MatchesAssumption,
           P!ConditionsAssumption, P!ValuesAssumption
  <1>2. P!IntBitsAssumption /\ P!StackDepthAssumption
    BY EvaluatorAssumption DEF S!IntBitsAssumption, P!IntBitsAssumption,
       S!StackDepthAssumption, P!StackDepthAssumption
  <1>3. \A s : S!SelectionOK(s) <=> P!SelectionOK(s)
    BY DEF S!SelectionOK, P!SelectionOK
  <1>4. \A e : S!ExpressionOK(e) <=> P!ExpressionOK(e)
    BY <1>3 DEF S!ExpressionOK, P!ExpressionOK
  <1>5. P!ExpressionsAssumption
    BY <1>4, EvaluatorAssumption DEF P!ExpressionsAssumption
  <1> QED
    BY <1>1, <1>2, <1>5

\* A step of a scan, as ScannerProofs sees it.
LEMMA SameBuilt ==
    \A i, own, given :
        S!build_matched_rule(i, own, given) = P!build_matched_rule(i, own, given)
  <1>1. \A s, kept : S!Only(s, kept) = P!Only(s, kept)
    BY Zenon DEF S!Only, P!Only, S!FlattenSeq, P!FlattenSeq
  <1>2. ASSUME NEW i, NEW own, NEW given
        PROVE  S!build_matched_rule(i, own, given) = P!build_matched_rule(i, own, given)
    <2> DEFINE public == {v \in DOMAIN given : ~own[v].is_private /\ given[v] # <<>>}
               indexes == [v \in DOMAIN given |-> v]
               built(shown) ==
                   [rule |-> i,
                    matches |-> [k \in DOMAIN shown |->
                                    [name |-> own[shown[k]].name,
                                     rule |-> own[shown[k]].rule,
                                     matches |-> given[shown[k]]]]]
    <2>1. S!build_matched_rule(i, own, given) = built(S!Only(indexes, public))
      BY Zenon DEF S!build_matched_rule
    <2>2. P!build_matched_rule(i, own, given) = built(P!Only(indexes, public))
      BY Zenon DEF P!build_matched_rule
    <2>3. S!Only(indexes, public) = P!Only(indexes, public)
      BY <1>1
    <2> HIDE DEF public, indexes, built
    <2> QED
      BY <2>1, <2>2, <2>3
  <1> QED
    BY <1>2

LEMMA SameReport ==
    \A i, matched, own, given :
        S!Report(i, matched, own, given) = P!Report(i, matched, own, given)
  BY SameBuilt DEF S!Report, P!Report, S!Chain, P!Chain

LEMMA SameState ==
    /\ S!Chain = P!Chain /\ S!NbGlobals = P!NbGlobals
    /\ \A i : S!IsGlobal(i) <=> P!IsGlobal(i)
    /\ S!Undefined = P!Undefined
    /\ S!vars = P!vars /\ S!config = P!config /\ S!found = P!found
    /\ (UNCHANGED S!config <=> UNCHANGED P!config)
    /\ (UNCHANGED S!found <=> UNCHANGED P!found)
    /\ \A values, region : S!ScanModules(values, region) = P!ScanModules(values, region)
  BY DEF S!Chain, P!Chain, S!NbGlobals, P!NbGlobals, S!IsGlobal, P!IsGlobal,
         S!Undefined, P!Undefined, S!vars, P!vars, S!config, P!config, S!found, P!found,
         S!ScanModules, P!ScanModules, S!Poison, P!Poison

\* An evaluation, as EvaluatorProofs sees it: operator by operator, then the recursive
\* functions, which are the same choice from the same functions.
LEMMA SameValues ==
    /\ \A b : S!Boolean(b) = P!Boolean(b)
    /\ \A n : S!Integer(n) = P!Integer(n)
    /\ \A s : S!Bytes(s) = P!Bytes(s)
    /\ \A p : S!Poison(p) = P!Poison(p)
    /\ S!VarNeeded = P!VarNeeded
    /\ S!Undefined = P!Undefined
    /\ S!Timeout = P!Timeout
    /\ S!Panic = P!Panic
    /\ \A v : S!IsPoison(v) = P!IsPoison(v)
    /\ \A v, type : S!Has(v, type) = P!Has(v, type)
    /\ \A v : S!IsTrue(v) = P!IsTrue(v)
    /\ \A v, type : S!unwrap(v, type) = P!unwrap(v, type)
    /\ \A l, r, x : S!Strict(l, r, x) = P!Strict(l, r, x)
    /\ \A v : S!UndefinedIsFalse(v) = P!UndefinedIsFalse(v)
    /\ \A values, i : S!ValueAt(values, i) = P!ValueAt(values, i)
    /\ \A ctx, i : S!PreviousResult(ctx, i) = P!PreviousResult(ctx, i)
    /\ \A e, env : S!VarIndex(e, env) = P!VarIndex(e, env)
    /\ S!Going = P!Going
    /\ \A a : S!Answer(a) = P!Answer(a)
    /\ \A selector, n : S!EndSelection(selector, n) = P!EndSelection(selector, n)
  BY DEF S!Boolean, P!Boolean, S!Integer, P!Integer, S!Bytes, P!Bytes, S!Poison,
         P!Poison, S!VarNeeded, P!VarNeeded, S!Undefined, P!Undefined, S!Timeout,
         P!Timeout, S!Panic, P!Panic, S!IsPoison, P!IsPoison, S!Has, P!Has, S!to_bool,
         P!to_bool, S!IsTrue, P!IsTrue, S!IsFalse, P!IsFalse, S!unwrap, P!unwrap,
         S!Strict, P!Strict, S!Scalar, P!Scalar, S!Binding, P!Binding, S!Abort, P!Abort,
         S!Going, P!Going, S!Answer, P!Answer, S!All, P!All, S!None, P!None, S!Number,
         P!Number, S!ListElement, P!ListElement, S!UndefinedIsFalse, P!UndefinedIsFalse,
         S!ValueAt, P!ValueAt, S!PreviousResult, P!PreviousResult, S!VarIndex,
         P!VarIndex, S!EndSelection, P!EndSelection

LEMMA SameOperators ==
    /\ \A v : S!to_bool(v) = P!to_bool(v)
    /\ \A ctx, v : S!Negate(ctx, v) = P!Negate(ctx, v)
    /\ \A e, l, r : S!Calculated(e, l, r) = P!Calculated(e, l, r)
    /\ \A e, l, r : S!Related(e, l, r) = P!Related(e, l, r)
    /\ \A e, l, r : S!Compared(e, l, r) = P!Compared(e, l, r)
    /\ \A e, l, r : S!Equal(e, l, r) = P!Equal(e, l, r)
  BY DEF S!Boolean, P!Boolean, S!Integer, P!Integer, S!Poison, P!Poison, S!Undefined,
         P!Undefined, S!Panic, P!Panic, S!IsPoison, P!IsPoison, S!Has, P!Has, S!to_bool,
         P!to_bool, S!Half, P!Half, S!Wrap, P!Wrap, S!Sign, P!Sign, S!Abs, P!Abs,
         S!TruncDiv, P!TruncDiv, S!Arith, P!Arith, S!Negate, P!Negate, S!Compare,
         P!Compare, S!SameType, P!SameType, S!Calculated, P!Calculated, S!Related,
         P!Related, S!Compared, P!Compared, S!Equal, P!Equal

LEMMA SameOfVariables ==
    /\ \A ctx, v : S!Matches(ctx, v) = P!Matches(ctx, v)
    /\ \A ctx, v, x : S!get_var_matches(ctx, v, x) = P!get_var_matches(ctx, v, x)
    /\ \A ctx, v, nth, field : S!Occurrence(ctx, v, nth, field) = P!Occurrence(ctx, v, nth, field)
    /\ \A ctx, v, from, to : S!CountInRange(ctx, v, from, to) = P!CountInRange(ctx, v, from, to)
    /\ \A ctx, v, from, to : S!FindIn(ctx, v, from, to) = P!FindIn(ctx, v, from, to)
    /\ \A ctx, v, offset : S!FindAt(ctx, v, offset) = P!FindAt(ctx, v, offset)
  BY DEF S!Boolean, P!Boolean, S!Integer, P!Integer, S!Poison, P!Poison, S!Undefined,
         P!Undefined, S!Panic, P!Panic, S!VarNeeded, P!VarNeeded, S!IsPoison,
         P!IsPoison, S!Matches, P!Matches, S!get_var_matches, P!get_var_matches,
         S!MatchesIn, P!MatchesIn, S!FoundAt, P!FoundAt, S!Occurrence, P!Occurrence,
         S!Usize, P!Usize, S!Cardinality, P!Cardinality, S!CountInRange, P!CountInRange,
         S!FindIn, P!FindIn, S!FindAt, P!FindAt

LEMMA SameConnectives ==
    /\ \A results, decider : S!Connective(results, decider) = P!Connective(results, decider)
  BY DEF S!Boolean, P!Boolean, S!Poison, P!Poison, S!Undefined, P!Undefined, S!Timeout,
         P!Timeout, S!Panic, P!Panic, S!VarNeeded, P!VarNeeded, S!IsPoison, P!IsPoison,
         S!Has, P!Has, S!to_bool, P!to_bool, S!IsTrue, P!IsTrue, S!IsFalse, P!IsFalse,
         S!Stops, P!Stops, S!Connective, P!Connective, S!Min, P!Min

LEMMA SameSelections ==
    /\ \A selection, value, n : S!ForSelectionOf(selection, value, n) = P!ForSelectionOf(selection, value, n)
    /\ \A loop, v : S!Advance(loop, v) = P!Advance(loop, v)
  BY DEF S!ForExprSelection, P!ForExprSelection, S!ForSelectionOf, P!ForSelectionOf,
         S!Boolean, P!Boolean, S!Integer, P!Integer, S!Poison, P!Poison, S!Undefined,
         P!Undefined, S!Timeout, P!Timeout, S!Panic, P!Panic, S!VarNeeded, P!VarNeeded,
         S!IsPoison, P!IsPoison, S!Has, P!Has, S!to_bool, P!to_bool, S!IsTrue, P!IsTrue,
         S!All, P!All, S!None, P!None, S!Number, P!Number, S!Going, P!Going, S!Answer,
         P!Answer, S!Advance, P!Advance, S!Consume, P!Consume, S!AddResult, P!AddResult

LEMMA SameElements ==
    /\ \A value : S!ModuleElements(value) = P!ModuleElements(value)
    /\ \A iterator, list : S!ListElements(iterator, list) = P!ListElements(iterator, list)
  BY DEF S!Binding, P!Binding, S!Integer, P!Integer, S!Poison, P!Poison, S!Undefined,
         P!Undefined, S!Abort, P!Abort, S!IsPoison, P!IsPoison, S!Has, P!Has,
         S!ModuleElements, P!ModuleElements, S!RangeElements, P!RangeElements,
         S!ListElement, P!ListElement, S!ListElements, P!ListElements, S!unwrap,
         P!unwrap

LoopBy(selector, results, f) ==
    f = [i \in 0 .. Len(results) |->
            IF i = 0 THEN [sel |-> selector, nb_vars_needed |-> 0, value |-> S!Going]
            ELSE S!Advance(f[i - 1], results[i])]
LoopAs(selector, results, f) ==
    f = [i \in 0 .. Len(results) |->
            IF i = 0 THEN [sel |-> selector, nb_vars_needed |-> 0, value |-> P!Going]
            ELSE P!Advance(f[i - 1], results[i])]

LEMMA SameLoops ==
    \A selection, results :
        S!WithSelection(selection, results) = P!WithSelection(selection, results)
  <1> TAKE selection, results
  <1> DEFINE s == CHOOSE f : LoopBy(selection, results, f)
             p == CHOOSE f : LoopAs(selection, results, f)
             n == Len(results)
  <1>1. \A loop, v : S!Advance(loop, v) = P!Advance(loop, v)
    BY SameSelections
  <1>2. \A f : LoopBy(selection, results, f) <=> LoopAs(selection, results, f)
    BY <1>1, SameValues, Zenon DEF LoopBy, LoopAs
  <1>3. s = p
    BY <1>2, Zenon
  <1>4. S!ForLoopResult(selection, results) =
           IF s[n].value = S!Going
           THEN S!Answer(S!EndSelection(s[n].sel, s[n].nb_vars_needed)) ELSE s[n].value
    BY Zenon DEF S!ForLoopResult, LoopBy
  <1>5. P!ForLoopResult(selection, results) =
           IF p[n].value = P!Going
           THEN P!Answer(P!EndSelection(p[n].sel, p[n].nb_vars_needed)) ELSE p[n].value
    BY Zenon DEF P!ForLoopResult, LoopAs
  <1> HIDE DEF s, p, n
  <1>6. S!ForLoopResult(selection, results) = P!ForLoopResult(selection, results)
    BY <1>3, <1>4, <1>5, SameValues
  <1> QED
    BY <1>6 DEF S!WithSelection, P!WithSelection

LEMMA SameExpr ==
    ASSUME NEW ctx, NEW ev, NEW e \in Expression, NEW env
    PROVE  S!evaluate_expr(ctx, ev, e, env) = P!evaluate_expr(ctx, ev, e, env)
  <1> DEFINE Same == S!evaluate_expr(ctx, ev, e, env) = P!evaluate_expr(ctx, ev, e, env)
  <1>1. CASE e.op = "filesize"
    BY <1>1, SameValues, Zenon DEF S!evaluate_expr, P!evaluate_expr
  <1>2. CASE e.op = "entrypoint"
    BY <1>2, SameValues, Zenon DEF S!evaluate_expr, P!evaluate_expr
  <1>3. CASE e.op = "integer"
    BY <1>3, SameValues, Zenon DEF S!evaluate_expr, P!evaluate_expr
  <1>4. CASE e.op = "bytes"
    BY <1>4, SameValues, Zenon DEF S!evaluate_expr, P!evaluate_expr
  <1>5. CASE e.op = "boolean"
    BY <1>5, SameValues, Zenon DEF S!evaluate_expr, P!evaluate_expr
  <1>6. CASE e.op = "external"
    BY <1>6, SameValues, Zenon DEF S!evaluate_expr, P!evaluate_expr
  <1>7. CASE e.op = "rule"
    BY <1>7, SameValues, Zenon DEF S!evaluate_expr, P!evaluate_expr
  <1>8. CASE e.op = "read_integer"
    BY <1>8, SameValues, Zenon DEF S!evaluate_expr, P!evaluate_expr
  <1>9. CASE e.op = "variable"
    BY <1>9, SameValues, SameOfVariables, Zenon DEF S!evaluate_expr, P!evaluate_expr
  <1>10. CASE e.op = "count"
    BY <1>10, SameValues, SameOfVariables, Zenon DEF S!evaluate_expr, P!evaluate_expr
  <1>11. CASE e.op = "variable_at"
    BY <1>11, SameValues, SameOfVariables, Zenon DEF S!evaluate_expr, P!evaluate_expr
  <1>12. CASE e.op = "offset"
    BY <1>12, SameValues, SameOfVariables, Zenon DEF S!evaluate_expr, P!evaluate_expr
  <1>13. CASE e.op = "length"
    BY <1>13, SameValues, SameOfVariables, Zenon DEF S!evaluate_expr, P!evaluate_expr
  <1>14. CASE e.op = "count_in"
    BY <1>14, SameValues, SameOfVariables, Zenon DEF S!evaluate_expr, P!evaluate_expr
  <1>15. CASE e.op = "variable_in"
    BY <1>15, SameValues, SameOfVariables, Zenon DEF S!evaluate_expr, P!evaluate_expr
  <1>16. CASE e.op = "neg"
    BY <1>16, SameValues, SameOperators, Zenon DEF S!evaluate_expr, P!evaluate_expr
  <1>17. CASE e.op = "arith"
    BY <1>17, SameValues, SameOperators, Zenon DEF S!evaluate_expr, P!evaluate_expr
  <1>18. CASE e.op = "cmp"
    BY <1>18, SameValues, SameOperators, Zenon DEF S!evaluate_expr, P!evaluate_expr
  <1>19. CASE e.op = "eq"
    BY <1>19, SameValues, SameOperators, Zenon DEF S!evaluate_expr, P!evaluate_expr
  <1>20. CASE e.op = "string_op"
    BY <1>20, SameValues, SameOperators, Zenon DEF S!evaluate_expr, P!evaluate_expr
  <1>21. CASE e.op = "not"
    BY <1>21, SameValues, SameOperators, Zenon DEF S!evaluate_expr, P!evaluate_expr
  <1>22. CASE e.op = "and"
    BY <1>22, SameValues, SameConnectives, Zenon DEF S!evaluate_expr, P!evaluate_expr
  <1>23. CASE e.op = "or"
    BY <1>23, SameValues, SameConnectives, Zenon DEF S!evaluate_expr, P!evaluate_expr
  <1>24. CASE e.op = "defined"
    BY <1>24, SameValues, SMT DEF S!evaluate_expr, P!evaluate_expr, S!Boolean,
       P!Boolean, S!Poison, P!Poison, S!Undefined, P!Undefined, S!IsPoison, P!IsPoison
  <1>25. CASE e.op = "module"
    BY <1>25, SameValues, SMT DEF S!evaluate_expr, P!evaluate_expr, S!IsPoison,
       P!IsPoison, S!Min, P!Min, S!Scalar, P!Scalar, S!ValueAt, P!ValueAt, S!Undefined,
       P!Undefined, S!Poison, P!Poison, S!Has, P!Has
  <1>26. CASE e.op = "for"
    BY <1>26, SameValues, SameSelections, SameLoops, Zenon DEF S!evaluate_expr,
       P!evaluate_expr
  <1>27. CASE e.op = "for_in"
    BY <1>27, SameValues, SameSelections, SameElements, SameLoops, SMT DEF
       S!evaluate_expr, P!evaluate_expr, S!Has, P!Has
  <1>28. CASE e.op = "for_rules"
    BY <1>28, SameValues, SameSelections, SameLoops, Zenon DEF S!evaluate_expr,
       P!evaluate_expr
  <1>29. S!ExpressionOK(e)
    BY EvaluatorAssumption
  <1> HIDE DEF Same
  <1> QED
    BY <1>1, <1>2, <1>3, <1>4, <1>5, <1>6, <1>7, <1>8, <1>9, <1>10, <1>11,
       <1>12, <1>13, <1>14, <1>15, <1>16, <1>17, <1>18, <1>19, <1>20, <1>21, <1>22,
       <1>23, <1>24, <1>25, <1>26, <1>27, <1>28, <1>29 DEF S!ExpressionOK

DeepBy(ctx, f) ==
    f = [n \in 0 .. StackDepth |-> [e \in Expression |-> [env \in S!Env |->
            IF n = 0 THEN S!Panic ELSE S!evaluate_expr(ctx, f[n - 1], e, env)]]]
DeepAs(ctx, f) ==
    f = [n \in 0 .. StackDepth |-> [e \in Expression |-> [env \in P!Env |->
            IF n = 0 THEN P!Panic ELSE P!evaluate_expr(ctx, f[n - 1], e, env)]]]

LEMMA SameEval == \A ctx, e : S!Eval(ctx, e) = P!Eval(ctx, e)
  <1> TAKE ctx, e
  <1> DEFINE by(h, n) == [x \in Expression |-> [env \in S!Env |->
                            IF n = 0 THEN S!Panic ELSE S!evaluate_expr(ctx, h, x, env)]]
             as(h, n) == [x \in Expression |-> [env \in P!Env |->
                            IF n = 0 THEN P!Panic ELSE P!evaluate_expr(ctx, h, x, env)]]
  <1>1. S!Env = P!Env
    BY DEF S!Env, P!Env, S!BoundValue, P!BoundValue
  <1>2. \A h, n : by(h, n) = as(h, n)
    BY <1>1, SameExpr, SameValues
  <1>3. \A f : DeepBy(ctx, f) <=> f = [n \in 0 .. StackDepth |-> by(f[n - 1], n)]
    BY DEF DeepBy
  <1>4. \A f : DeepAs(ctx, f) <=> f = [n \in 0 .. StackDepth |-> as(f[n - 1], n)]
    BY DEF DeepAs
  <1> HIDE DEF by, as
  <1>5. \A f : DeepBy(ctx, f) <=> DeepAs(ctx, f)
    <2> TAKE f
    <2>1. [n \in 0 .. StackDepth |-> by(f[n - 1], n)] =
             [n \in 0 .. StackDepth |-> as(f[n - 1], n)]
      BY <1>2, Zenon
    <2> QED
      BY <1>3, <1>4, <2>1, Zenon
  <1>6. (CHOOSE f : DeepBy(ctx, f)) = (CHOOSE f : DeepAs(ctx, f))
    BY <1>5, Zenon
  <1>7. S!Eval(ctx, e) = (CHOOSE f : DeepBy(ctx, f))
                            [StackDepth][e][[selected |-> 0, stack |-> <<>>]]
    BY Zenon DEF S!Eval, DeepBy
  <1>8. P!Eval(ctx, e) = (CHOOSE f : DeepAs(ctx, f))
                            [StackDepth][e][[selected |-> 0, stack |-> <<>>]]
    BY Zenon DEF P!Eval, DeepAs
  <1> QED
    BY <1>6, <1>7, <1>8, Zenon

LEMMA SameRuleResults == \A ctx, e : S!evaluate_rule(ctx, e) = P!evaluate_rule(ctx, e)
  BY SameEval, SameValues, Zenon DEF S!evaluate_rule, P!evaluate_rule

\* What a scan gives to an evaluation, and what the evaluation returns.
LEMMA SameResults ==
    /\ \A in, p : S!Readable(in, p) = P!Readable(in, p)
    /\ \A known, own : S!Context(known, own) = P!Context(known, own)
    /\ \A s : S!Own(s) = P!Own(s)
    /\ S!NoScanResult = P!NoScanResult
    /\ S!EvalResult = P!EvalResult
  <1>1. \A in, p : S!Readable(in, p) = P!Readable(in, p)
    BY Zenon DEF S!Readable, P!Readable, S!Min, P!Min
  <1>2. \A own, previous, first, values :
           S!ScanContext(own, previous, first, values) =
              P!ScanContext(own, previous, first, values)
    BY <1>1, SameState, SameValues, Zenon DEF S!ScanContext, P!ScanContext
  <1>3. \A known, own : S!Context(known, own) = P!Context(known, own)
    BY <1>2, Zenon DEF S!Context, P!Context
  <1>4. \A s : S!Own(s) = P!Own(s)
    BY SameState, Zenon DEF S!Own, P!Own
  <1>5. S!NoScanResult = P!NoScanResult
    BY <1>3, SameState, SameRuleResults, Zenon DEF S!NoScanResult, P!NoScanResult
  <1>6. S!EvalResult = P!EvalResult
    BY <1>3, <1>4, SameState, SameRuleResults, Zenon DEF S!EvalResult, P!EvalResult
  <1> QED
    BY <1>1, <1>3, <1>4, <1>5, <1>6

\* A step of a scan, as ScannerProofs sees it.
LEMMA SameSteps == S!Next => P!Next
  <1> SUFFICES ASSUME S!Next
               PROVE  P!Next
    OBVIOUS
  <1>1. ASSUME NEW i, NEW matched, NEW own, NEW given
        PROVE  S!Report(i, matched, own, given) = P!Report(i, matched, own, given)
    BY SameReport
  <1>2. S!StartScan => P!StartScan
    BY SameState DEF S!StartScan, P!StartScan,
       S!can_use_no_scan_optimization, P!can_use_no_scan_optimization
  <1>3. S!NoScanGlobal => P!NoScanGlobal
    BY <1>1, SameState, SameResults DEF S!NoScanGlobal, P!NoScanGlobal
  <1>4. S!NoScanFalseGlobal => P!NoScanFalseGlobal
    BY SameState, SameResults
       DEF S!NoScanFalseGlobal, P!NoScanFalseGlobal, S!Finish, P!Finish
  <1>5. S!NoScanGlobalsKnown => P!NoScanGlobalsKnown
    BY SameState DEF S!NoScanGlobalsKnown, P!NoScanGlobalsKnown
  <1>6. S!FallBack => P!FallBack
    BY SameState DEF S!FallBack, P!FallBack
  <1>7. S!NoScanGlobalsUnknown => P!NoScanGlobalsUnknown
    BY <1>6, SameState DEF S!NoScanGlobalsUnknown, P!NoScanGlobalsUnknown
  <1>8. S!NoScanRule => P!NoScanRule
    BY <1>1, SameState, SameResults DEF S!NoScanRule, P!NoScanRule
  <1>9. S!NoScanRuleUndecidable => P!NoScanRuleUndecidable
    BY <1>6, SameState, SameResults DEF S!NoScanRuleUndecidable, P!NoScanRuleUndecidable
  <1>10. S!NoScanDecided => P!NoScanDecided
    BY SameState DEF S!NoScanDecided, P!NoScanDecided, S!Finish, P!Finish
  <1>11. S!ScanRegion => P!ScanRegion
    <2>1. \A acc, region : S!AddMatches(acc, region) = P!AddMatches(acc, region)
      BY DEF S!AddMatches, P!AddMatches
    <2> QED
      BY <2>1, SameState DEF S!ScanRegion, P!ScanRegion
  <1>12. S!MemoryScanned => P!MemoryScanned
    BY SameState DEF S!MemoryScanned, P!MemoryScanned
  <1>13. S!EvalRule => P!EvalRule
    BY <1>1, SameState, SameResults DEF S!EvalRule, P!EvalRule
  <1>14. S!EvalFalseGlobal => P!EvalFalseGlobal
    BY SameState, SameResults
       DEF S!EvalFalseGlobal, P!EvalFalseGlobal, S!Finish, P!Finish
  <1>15. S!EvalDone => P!EvalDone
    BY SameState DEF S!EvalDone, P!EvalDone, S!Finish, P!Finish
  <1>16. S!Evaluating <=> P!Evaluating
    BY SameState DEF S!Evaluating, P!Evaluating
  <1>17. S!EvaluationPanics => P!EvaluationPanics
    BY <1>16, SameState, SameResults
       DEF S!EvaluationPanics, P!EvaluationPanics, S!Finish, P!Finish
  <1>18. S!TimeoutExpires => P!TimeoutExpires
    BY <1>16, SameState DEF S!TimeoutExpires, P!TimeoutExpires, S!Finish, P!Finish
  <1> QED
    BY <1>2, <1>3, <1>4, <1>5, <1>7, <1>8, <1>9, <1>10, <1>11, <1>12, <1>13, <1>14,
       <1>15, <1>17, <1>18, Zenon DEF S!Next, P!Next

LEMMA ScanSteps == S!Next => P!Moves
  BY SameSteps, NoneGiven, P!NextMoves

\* No step of a scan is taken before it starts, nor leads back there; none changes
\* the scanner.
LEMMA ScanRuns ==
    S!Next => phase # "compile" /\ phase' # "compile" /\ scanner' = scanner
  BY DEF S!Next, S!StartScan, S!NoScanGlobal, S!NoScanFalseGlobal,
         S!NoScanGlobalsKnown, S!NoScanGlobalsUnknown, S!NoScanRule,
         S!NoScanRuleUndecidable, S!NoScanDecided, S!ScanRegion, S!MemoryScanned,
         S!EvalRule, S!EvalFalseGlobal, S!EvalDone, S!EvaluationPanics,
         S!TimeoutExpires, S!Evaluating, S!FallBack, S!Finish, S!config
LEMMA SameOrder == \A s : S!StringsInOrder(s) <=> P!StringsInOrder(s)
  <1> TAKE s
  <1>1. S!ChainOf(s) = P!ChainOf(s)
    BY DEF S!ChainOf, P!ChainOf
  <1>2. \A i : S!DeclaredBy(s, i) = P!DeclaredBy(s, i)
    BY <1>1 DEF S!DeclaredBy, P!DeclaredBy
  <1>3. \A i : S!DeclaredBefore(s, i) = P!DeclaredBefore(s, i)
    BY <1>2 DEF S!DeclaredBefore, P!DeclaredBefore
  <1> QED
    BY <1>1, <1>2, <1>3 DEF S!StringsInOrder, P!StringsInOrder

LEMMA SameMatches == ReportsOwnStrings <=> P!MatchesAreOwn
  <1>1. \A s, kept : S!Only(s, kept) = P!Only(s, kept)
    BY Zenon DEF S!Only, P!Only, S!FlattenSeq, P!FlattenSeq
  <1>2. \A i, own, given :
           S!build_matched_rule(i, own, given) = P!build_matched_rule(i, own, given)
    BY SameBuilt
  <1>3. \A x : S!AllMatchesOf(x) = P!AllMatchesOf(x)
    BY Zenon DEF S!AllMatchesOf, P!AllMatchesOf, S!FlattenSeq, P!FlattenSeq
  <1>4. \A i : S!OwnVariables(i) = P!OwnVariables(i)
    BY <1>1, SameState DEF S!OwnVariables, P!OwnVariables
  <1>5. \A i : S!OwnMatches(i) = P!OwnMatches(i)
    BY <1>3, <1>4 DEF S!OwnMatches, P!OwnMatches
  <1> QED
    BY <1>2, <1>4, <1>5 DEF ReportsOwnStrings, S!MatchesAreOwn, P!MatchesAreOwn

\* What the compiler hands over besides the order: rules that count their strings,
\* and strings that a rule can declare.
Handed ==
    /\ \A r \in Range(rules) \cup Range(global_rules) : r.nb_variables \in Nat
    /\ Range(variables) \subseteq Declarable

LEMMA HandedKept ==
    ASSUME Opened, Resolved, variables \in Seq(Range(variables)),
           namespace \in Namespaces, Handed, [Next]_compilerVars
    PROVE  Handed'
  <1>1. CASE AddRule
    <2> DEFINE rule == Component.rule
               r == Rule(rule)
               w == CompiledVariables(rule)
    <2>1. /\ variables' = variables \o w
          /\ \/ rules' = rules /\ global_rules' = Append(global_rules, r)
             \/ rules' = Append(rules, r) /\ global_rules' = global_rules
      BY <1>1 DEF AddRule
    <2>2. w \in Seq(Range(w)) /\ Len(w) = r.nb_variables
      BY <1>1, CompiledStrings
    <2>3. r.nb_variables \in Nat
      BY <2>2
    <2>4. Range(w) \subseteq Declarable
      <3>1. Component \in Written /\ Component.kind = "rule"
        BY <1>1, ComponentWritten DEF AddRule
      <3>2. \A k \in DOMAIN w :
               /\ rule.variables[k] \in Range(rule.variables)
               /\ w[k] = [rule |-> <<namespace, rule.name>>,
                          name |-> rule.variables[k].name,
                          is_private |-> rule.variables[k].is_private]
        BY DEF CompiledVariables, Range
      <3>3. StringsOf(namespace, rule) \subseteq Declarable
        BY <3>1 DEF Declarable
      <3>4. \A k \in DOMAIN w : w[k] \in StringsOf(namespace, rule)
        BY <3>2 DEF StringsOf
      <3> QED
        BY <3>3, <3>4 DEF Range
    <2> HIDE DEF r, w, rule
    <2>5. Range(variables') \subseteq Range(variables) \cup Range(w)
      <3> DEFINE T == Range(variables) \cup Range(w)
      <3>1. variables \in Seq(T) /\ w \in Seq(T)
        BY <2>2
      <3> HIDE DEF T
      <3>2. variables' \in Seq(T)
        BY <2>1, <3>1
      <3>3. \A k \in DOMAIN variables' : variables'[k] \in T
        BY <3>2
      <3> QED
        BY <3>3 DEF Range, T
    <2>6. \A s : s \in Seq(Range(s)) => Range(Append(s, r)) \subseteq Range(s) \cup {r}
      <3> SUFFICES ASSUME NEW s, s \in Seq(Range(s))
                   PROVE  Range(Append(s, r)) \subseteq Range(s) \cup {r}
        OBVIOUS
      <3> DEFINE T == Range(s) \cup {r}
      <3>1. s \in Seq(T) /\ r \in T
        OBVIOUS
      <3> HIDE DEF T
      <3>2. Append(s, r) \in Seq(T)
        BY <3>1
      <3>3. \A k \in DOMAIN Append(s, r) : Append(s, r)[k] \in T
        BY <3>2
      <3> QED
        BY <3>3 DEF Range, T
    <2>7. Range(rules') \cup Range(global_rules') \subseteq
             Range(rules) \cup Range(global_rules) \cup {r}
      BY <2>1, <2>6 DEF Resolved
    <2> QED
      BY <2>3, <2>4, <2>5, <2>7 DEF Handed
  <1>2. CASE UNCHANGED compiled
    BY <1>2 DEF compiled, Handed
  <1>3. CASE add_module \/ define_symbol \/ add_rules \/ Include \/ Import
             \/ ComponentFails \/ EndOfFile
    BY <1>2, <1>3 DEF add_module, define_symbol, add_rules, Include, Import,
                      ComponentFails, Fail, EndOfFile
  <1>4. CASE UNCHANGED compilerVars
    BY <1>2, <1>4 DEF compilerVars, compiled
  <1> QED
    BY <1>1, <1>3, <1>4 DEF Next

\* A memory given is one that the scanner handed over can scan.
LEMMA ScanGiven ==
    ASSUME LayoutInv, Handed, NEW m \in Memories
    PROVE  P!ScanOK(IntoScanner, Seen(m))
  <1> DEFINE s == IntoScanner
             in == Seen(m)
             seen(k) == [m.regions[k] EXCEPT
                           !.modules = [i \in DOMAIN imported_modules |->
                                           @[imported_modules[i]]]]
  <1>1. /\ s.rules = rules /\ s.global_rules = global_rules
        /\ s.variables = variables
    BY DEF IntoScanner
  <1>2. P!ScannerOK(s)
    <2>1. /\ rules \in Seq(Range(rules)) /\ global_rules \in Seq(Range(global_rules))
          /\ variables \in Seq(Range(variables))
      BY DEF LayoutInv, NamesInv, Resolved, Layout
    <2> HIDE DEF s
    <2> QED
      BY <1>1, <2>1 DEF P!ScannerOK, P!IsSeq, P!Range, Range, Handed
  <1>3. /\ S!InputOK(m)
        /\ \A region \in Range(m.regions) :
              /\ DOMAIN region = {"start", "fetched", "found", "modules",
                                  "entrypoint", "memory"}
              /\ \A x \in Declarable :
                    region.found[x] \in Seq([offset : Nat, length : Nat])
    BY MemoriesAssumption
  <1>4. /\ in.direct = m.direct
        /\ in.regions = [k \in DOMAIN m.regions |-> seen(k)]
    BY DEF Seen
  <1>5. \A k \in DOMAIN m.regions :
           /\ seen(k).start = m.regions[k].start
           /\ seen(k).fetched = m.regions[k].fetched
           /\ seen(k).found = m.regions[k].found
           /\ m.regions[k] \in Range(m.regions)
    BY <1>3 DEF Range
  <1> HIDE DEF in, seen
  <1>6. /\ m.regions \in Seq(Range(m.regions))
        /\ m.direct => Len(m.regions) = 1 /\ m.regions[1].fetched
        /\ \A j, k \in DOMAIN m.regions :
              j < k => m.regions[j].start < m.regions[k].start
    BY <1>3 DEF S!InputOK, S!IsSeq, S!Range, Range
  <1>7. /\ DOMAIN m.regions = 1 .. Len(m.regions) /\ Len(m.regions) \in Nat
        /\ DOMAIN in.regions = 1 .. Len(m.regions)
    BY <1>4, <1>6
  <1>8. in.regions \in Seq(Range(in.regions)) /\ Len(in.regions) = Len(m.regions)
    <2>1. in.regions \in [1 .. Len(m.regions) -> Range(in.regions)]
      BY <1>4, <1>7 DEF Range
    <2> QED
      BY <1>7, <2>1
  <1>9. \A k \in DOMAIN in.regions :
           /\ in.regions[k].start = m.regions[k].start
           /\ in.regions[k].fetched = m.regions[k].fetched
           /\ in.regions[k].found = m.regions[k].found
           /\ m.regions[k] \in Range(m.regions)
    BY <1>4, <1>5
  <1>10. P!InputOK(in)
    <2>1. in.direct => Len(in.regions) = 1 /\ in.regions[1].fetched
      BY SMTT(30), <1>4, <1>6, <1>7, <1>8, <1>9
    <2>2. \A j, k \in DOMAIN in.regions :
             j < k => in.regions[j].start < in.regions[k].start
      BY <1>6, <1>7, <1>9
    <2> QED
      BY <1>8, <2>1, <2>2 DEF P!InputOK, P!IsSeq, P!Range, Range
  <1>11. P!MatchesOK(s, in)
    <2>1. \A k \in DOMAIN in.regions, x \in Declarable :
             in.regions[k].found[x] \in Seq([offset : Nat, length : Nat])
      BY <1>3, <1>9
    <2>2. P!Range(s.variables) \subseteq Declarable
      BY <1>1 DEF P!Range, Range, Handed
    <2>3. \A region \in P!Range(in.regions) : \E k \in DOMAIN in.regions :
             region = in.regions[k]
      BY DEF P!Range
    <2> HIDE DEF s
    <2> QED
      BY <2>1, <2>2, <2>3 DEF P!MatchesOK
  <1> QED
    BY <1>2, <1>10, <1>11 DEF P!ScanOK, in

-----------------------------------------------------------------------------
(* The conditions compiled, and what a scan gives them: no evaluation of a    *)
(* scan that the compiler makes leaves the bounds of what it reads.           *)

\* A condition is a connective of operands of at most two levels, which name strings of
\* the rule.
Leaf(x, strings) ==
    \/ x.op \in {"boolean", "external", "rule"}
    \/ x.op = "module" /\ x.args = <<>>
    \/ x.op = "for_rules" /\ x.selection.kind # "expr"
    \/ x.op = "variable" /\ x.var \in 0 .. strings
Comparison(x) == x.op = "cmp" /\ x.l.op = "filesize" /\ x.r.op = "integer"
Loop(x, strings) ==
    /\ x.op = "for" /\ x.selection.kind # "expr"
    /\ Range(x.set) \subseteq 0 .. strings
    /\ x.body.op = "variable" /\ x.body.var = 0
Operand(x, strings) == Leaf(x, strings) \/ Comparison(x) \/ Loop(x, strings)
Shaped(e, strings) ==
    /\ e.op \in {"and", "or"}
    /\ \A k \in DOMAIN e.ops : Operand(e.ops[k], strings)

LEMMA TermOperand ==
    ASSUME NEW ns, NEW rule, NEW term, TermOK(term),
           rule.variables \in Seq(Range(rule.variables)),
           compile_term(ns, rule, term).ok,
           NEW e, e = compile_term(ns, rule, term).expr
    PROVE  Operand(e, Len(rule.variables))
  <1> DEFINE n == Len(rule.variables)
  <1>0. ~Error.ok /\ n \in Nat /\ DOMAIN rule.variables = 1 .. n
    BY DEF Error
  <1>1. CASE term.op = "filesize_ge"
    BY <1>1 DEF compile_term, Expr, Operand, Comparison
  <1>2. CASE term.op = "string"
    <2> DEFINE named == {i \in DOMAIN rule.variables :
                            rule.variables[i].name = term.name}
    <2>1. compile_term(ns, rule, term) =
             IF named = {} THEN Error
             ELSE Expr([op |-> "variable", var |-> Min(named)])
      BY <1>2 DEF compile_term
    <2>2. named \subseteq 1 .. n
      BY <1>0
    <2> HIDE DEF named, n
    <2>3. /\ named # {}
          /\ compile_term(ns, rule, term) = Expr([op |-> "variable", var |-> Min(named)])
      BY <1>0, <2>1
    <2>4. Min(named) \in named
      <3>1. named \subseteq Nat
        BY <1>0, <2>2
      <3>2. \E x \in named : \A y \in named : x <= y
        BY <2>3, <3>1, LeastNumber
      <3> QED
        BY <3>2 DEF Min
    <2>5. e.op = "variable" /\ e.var = Min(named)
      BY <2>3 DEF Expr
    <2>6. e.var \in 0 .. n
      BY <1>0, <2>2, <2>4, <2>5
    <2> QED
      BY <2>5, <2>6 DEF Operand, Leaf, n
  <1>3. CASE term.op = "any_of_them"
    <2> DEFINE strings == DOMAIN rule.variables
               body == [op |-> "for", selection |-> [kind |-> "any"],
                        set |-> [i \in strings |-> i],
                        body |-> [op |-> "variable", var |-> 0]]
    <2>1. compile_term(ns, rule, term) =
             IF strings = {} THEN Error ELSE Expr(body)
      BY <1>3 DEF compile_term
    <2>2. compile_term(ns, rule, term) = Expr(body)
      BY <1>0, <2>1
    <2>3. e = body
      BY <2>2 DEF Expr
    <2>4. Range([i \in strings |-> i]) \subseteq 0 .. n
      <3> DEFINE f == [i \in strings |-> i]
      <3>1. DOMAIN f = strings /\ (\A i \in strings : f[i] = i) /\ strings = 1 .. n
        BY <1>0
      <3> HIDE DEF f, strings, n
      <3>2. \A i \in DOMAIN f : f[i] \in 0 .. n
        BY <1>0, <3>1
      <3>3. Range(f) \subseteq 0 .. n
        BY <3>2 DEF Range
      <3> QED
        BY <3>3 DEF f
    <2>5. /\ e.op = "for" /\ e.selection.kind = "any"
          /\ e.set = [i \in strings |-> i]
          /\ e.body.op = "variable" /\ e.body.var = 0
      BY <2>3
    <2> HIDE DEF body, strings
    <2> QED
      BY <2>4, <2>5 DEF Operand, Loop, n
  <1>4. CASE term.op = "identifier"
    <2> DEFINE name == term.name
               index == ns.rules_indexes[name]
    <2>1. compile_term(ns, rule, term) = compile_identifier(ns, name)
      BY <1>4 DEF compile_term
    <2>2. \/ compile_identifier(ns, name) = Expr(Module(ns.imported_modules[name]))
          \/ compile_identifier(ns, name) =
                Expr(IF index = 0 THEN GlobalHolds
                     ELSE [op |-> "rule", index |-> index])
          \/ compile_identifier(ns, name) =
                Expr([op |-> "external", index |-> IndexOf(external_symbols, name)])
          \/ compile_identifier(ns, name) = Error
      BY DEF compile_identifier
    <2>3. e \in {Module(ns.imported_modules[name]), GlobalHolds,
                 [op |-> "rule", index |-> index],
                 [op |-> "external", index |-> IndexOf(external_symbols, name)]}
      BY <1>0, <2>1, <2>2 DEF Expr
    <2> QED
      BY <2>3 DEF Operand, Leaf, Module, GlobalHolds
  <1>5. CASE term.op = "rule_set"
    <2>1. compile_term(ns, rule, term) = compile_rule_set(ns, term)
      BY <1>5 DEF compile_term
    <2>2. e.op = "for_rules" /\ e.selection = [kind |-> term.kind]
      BY <1>0, <2>1 DEF compile_rule_set
    <2> QED
      BY <1>5, <2>2 DEF Operand, Leaf, TermOK
  <1> QED
    BY <1>1, <1>2, <1>3, <1>4, <1>5 DEF TermOK

LEMMA RuleShaped ==
    ASSUME NEW ns, NEW rule, compile_rule(ns, rule).ok,
           rule.variables \in Seq(Range(rule.variables)),
           rule.condition.op \in {"and", "or"},
           \A t \in Range(rule.condition.terms) : TermOK(t)
    PROVE  Shaped(compile_rule(ns, rule).expr, Len(rule.variables))
  <1> DEFINE terms == rule.condition.terms
             term(k) == compile_term(ns, rule, terms[k])
             found == [k \in DOMAIN terms |-> term(k)]
             wildcards == UNION {found[k].wildcards : k \in DOMAIN terms}
             e == [op |-> rule.condition.op,
                   ops |-> [k \in DOMAIN terms |-> found[k].expr]]
             good == [ok |-> TRUE, expr |-> e, wildcards |-> wildcards]
             names == {rule.variables[i].name : i \in DOMAIN rule.variables}
             bad == \/ Cardinality(names) # Len(rule.variables)
                    \/ \E k \in DOMAIN terms : ~found[k].ok
                    \/ names \ UsedStrings(rule) # {}
  <1>1. compile_rule(ns, rule) = IF bad THEN Error ELSE good
    BY DEF compile_rule
  <1>2. ~Error.ok
    BY DEF Error
  <1>3. ~bad /\ compile_rule(ns, rule) = good
    <2> HIDE DEF bad, good
    <2> QED
      BY <1>1, <1>2
  <1>4. compile_rule(ns, rule).expr = e
    <2> HIDE DEF e, wildcards
    <2> QED
      BY <1>3
  <1>5. \A k \in DOMAIN terms : found[k].ok /\ found[k] = term(k)
    BY <1>3
  <1>6. /\ e.op = rule.condition.op
        /\ e.ops = [k \in DOMAIN terms |-> found[k].expr]
    OBVIOUS
  <1>7. ASSUME NEW k \in DOMAIN terms
        PROVE  Operand(e.ops[k], Len(rule.variables))
    <2>1. e.ops[k] = compile_term(ns, rule, terms[k]).expr
      BY <1>5, <1>6
    <2>2. TermOK(terms[k]) /\ compile_term(ns, rule, terms[k]).ok
      BY <1>5 DEF Range
    <2> HIDE DEF e
    <2> QED
      BY <2>1, <2>2, TermOperand
  <1>8. DOMAIN e.ops = DOMAIN terms
    BY <1>6
  <1> HIDE DEF e
  <1> QED
    BY <1>4, <1>6, <1>7, <1>8 DEF Shaped

\* Such a condition fits a scan that has the results and strings it names.
LEMMA ShapedFits ==
    ASSUME StackDepth >= 3, NEW e \in Expression, NEW results, NEW strings \in Nat,
           Shaped(e, strings), References(e) \subseteq 1 .. results
    PROVE  P!Fits(e, results, strings)
  <1>0. \A x \in Expression : P!ExpressionOK(x)
    BY NoneGiven DEF P!ExpressionsAssumption
  <1>1. e.op \in {"and", "or"} /\ e.ops \in Seq(Expression)
    BY <1>0 DEF Shaped, P!ExpressionOK
  <1>2. P!Parts(e) = P!Each(e.ops) /\ P!InReach(e, results, strings)
    BY <1>1 DEF P!Parts, P!InReach
  <1>3. ASSUME NEW k \in DOMAIN e.ops
        PROVE  /\ e.ops[k] \in Expression /\ Operand(e.ops[k], strings)
               /\ e.ops[k].op = "rule" => e.ops[k].index \in 1 .. results
               /\ e.ops[k].op = "for_rules" => P!Each(e.ops[k].set) \subseteq 1 .. results
    <2>1. e.ops[k] \in Expression /\ e.ops[k] \in Range(e.ops)
      BY <1>1 DEF Range
    <2>2. e.ops[k].op = "rule" => e.ops[k].index \in References(e)
      BY <2>1 DEF References
    <2>3. e.ops[k].op = "for_rules" => Range(e.ops[k].set) \subseteq References(e)
      BY <2>1 DEF References
    <2>4. P!Each(e.ops[k].set) = Range(e.ops[k].set)
      BY DEF P!Each, Range
    <2> QED
      BY <2>1, <2>2, <2>3, <2>4 DEF Shaped
  <1>4. ASSUME NEW x \in Expression, Operand(x, strings),
               x.op = "rule" => x.index \in 1 .. results,
               x.op = "for_rules" => P!Each(x.set) \subseteq 1 .. results
        PROVE  /\ P!Within(x, results, strings)
               /\ \A y \in P!Parts(x) : P!Within(y, results, strings) /\ P!Parts(y) = {}
    <2>1. CASE Leaf(x, strings)
      <3>1. P!Parts(x) = {}
        BY <2>1 DEF Leaf, P!Parts, P!Each, P!OfSelection
      <3>2. P!InReach(x, results, strings)
        BY <1>4, <2>1 DEF Leaf, P!InReach
      <3> QED
        BY <3>1, <3>2 DEF P!Within
    <2>2. CASE Comparison(x)
      <3>1. P!Parts(x) = {x.l, x.r} /\ P!InReach(x, results, strings)
        BY <2>2 DEF Comparison, P!Parts, P!InReach
      <3>2. {x.l, x.r} \subseteq Expression
        BY <1>0, <2>2 DEF Comparison, P!ExpressionOK
      <3>3. \A y : y.op \in {"filesize", "integer"} =>
               P!Parts(y) = {} /\ P!InReach(y, results, strings)
        BY DEF P!Parts, P!InReach
      <3> QED
        BY <2>2, <3>1, <3>2, <3>3 DEF Comparison, P!Within
    <2>3. CASE Loop(x, strings)
      <3>1. P!Parts(x) = {x.body}
        BY <2>3 DEF Loop, P!Parts, P!OfSelection
      <3>2. x.body \in Expression
        BY <1>0, <2>3 DEF Loop, P!ExpressionOK
      <3>3. P!InReach(x, results, strings)
        BY <2>3 DEF Loop, P!InReach, P!Each, Range
      <3>4. P!Parts(x.body) = {} /\ P!InReach(x.body, results, strings)
        BY <2>3 DEF Loop, P!Parts, P!InReach
      <3> QED
        BY <3>1, <3>2, <3>3, <3>4 DEF P!Within
    <2> QED
      BY <1>4, <2>1, <2>2, <2>3 DEF Operand
  <1>5. \A x \in P!Parts(e) :
           /\ P!Within(x, results, strings)
           /\ \A y \in P!Parts(x) : P!Within(y, results, strings) /\ P!Parts(y) = {}
    BY <1>2, <1>3, <1>4 DEF P!Each
  <1>6. P!Within(e, results, strings)
    BY <1>2 DEF P!Within
  <1> QED
    BY <1>5, <1>6, NoneGiven, P!ThreeLevelsFit

\* A count of the strings of the first rules of a chain of n, of `total` strings.
CountsTo(upto, chain, n, total) ==
    /\ upto \in [0 .. n -> 0 .. total]
    /\ upto[0] = 0
    /\ \A i \in 1 .. n : upto[i] = upto[i - 1] + chain[i].nb_variables
Counted(chain, total) ==
    \E n \in Nat : DOMAIN chain = 1 .. n
                   /\ \E upto \in [0 .. n -> 0 .. total] : CountsTo(upto, chain, n, total)

LEMMA InsertedCounted ==
    ASSUME NEW chain, NEW c, NEW v, NEW vw, NEW G \in Nat, NEW n \in Nat, G <= n,
           NEW m \in Nat, NEW k \in Nat, NEW r, r.nb_variables = k,
           Inserted(chain, c, v, vw, G, n, m, k, r), Counted(chain, m),
           \A i \in DOMAIN chain : chain[i].nb_variables \in Nat
    PROVE  Counted(c, m + k)
  <1>1. /\ DOMAIN chain = 1 .. n /\ DOMAIN c = 1 .. n + 1
        /\ \A i \in 1 .. G : c[i] = chain[i]
        /\ c[G + 1] = r
        /\ \A i \in G + 1 .. n : c[i + 1] = chain[i]
    BY DEF Inserted
  <1>2. PICK upto \in [0 .. n -> 0 .. m] : CountsTo(upto, chain, n, m)
    <2>1. PICK l \in Nat : /\ DOMAIN chain = 1 .. l
                           /\ \E u \in [0 .. l -> 0 .. m] : CountsTo(u, chain, l, m)
      BY DEF Counted
    <2>2. l = n
      BY <1>1, <2>1
    <2> QED
      BY <2>1, <2>2
  <1> DEFINE w == [i \in 0 .. n + 1 |-> IF i <= G THEN upto[i] ELSE upto[i - 1] + k]
  <1>3. \A i \in 0 .. n : upto[i] \in 0 .. m
    OBVIOUS
  <1>4. w \in [0 .. n + 1 -> 0 .. m + k]
    <2> SUFFICES ASSUME NEW i \in 0 .. n + 1
                 PROVE  (IF i <= G THEN upto[i] ELSE upto[i - 1] + k) \in 0 .. m + k
      OBVIOUS
    <2>1. CASE i <= G
      BY <1>3, <2>1
    <2>2. CASE ~(i <= G)
      <3>1. i - 1 \in 0 .. n
        BY <2>2
      <3>2. upto[i - 1] \in 0 .. m
        BY <1>3, <3>1
      <3> QED
        BY <2>2, <3>2
    <2> QED
      BY <2>1, <2>2
  <1>5. /\ \A i \in 0 .. G : w[i] = upto[i]
        /\ \A i \in G + 1 .. n + 1 : w[i] = upto[i - 1] + k
    OBVIOUS
  <1> HIDE DEF w
  <1>6. upto[0] = 0 /\ \A i \in 1 .. n : upto[i] = upto[i - 1] + chain[i].nb_variables
    BY <1>2 DEF CountsTo
  <1>7. w[0] = 0
    BY <1>5, <1>6
  <1>8. ASSUME NEW i \in 1 .. n + 1
        PROVE  w[i] = w[i - 1] + c[i].nb_variables
    <2>1. CASE i <= G
      <3>1. i \in 0 .. G /\ i - 1 \in 0 .. G /\ i \in 1 .. n /\ i \in 1 .. G
        BY <2>1
      <3> QED
        BY <1>1, <1>5, <1>6, <3>1
    <2>2. CASE i = G + 1
      <3>1. i \in G + 1 .. n + 1 /\ i - 1 = G /\ G \in 0 .. G
        BY <2>2
      <3> QED
        BY <1>1, <1>5, <2>2, <3>1
    <2>3. CASE i > G + 1
      <3> DEFINE j == i - 1
      <3>1. /\ i \in G + 1 .. n + 1 /\ j \in G + 1 .. n + 1 /\ j \in 1 .. n
            /\ j \in G + 1 .. n /\ i = j + 1 /\ j - 1 \in 0 .. n /\ j \in 0 .. n
        BY <2>3
      <3>2. w[i] = upto[j] + k /\ w[j] = upto[j - 1] + k
        BY <1>5, <3>1
      <3>3. upto[j] = upto[j - 1] + chain[j].nb_variables /\ c[i] = chain[j]
        BY <1>1, <1>6, <3>1
      <3> HIDE DEF j
      <3>4. upto[j] \in Nat /\ upto[j - 1] \in Nat
        BY <1>3, <3>1
      <3>5. i - 1 = j
        BY DEF j
      <3>6. c[i].nb_variables \in Nat
        BY <1>1, <3>1, <3>3
      <3>7. \A x, y, z \in Nat : (x + y) + z = (x + z) + y
        OBVIOUS
      <3>8. /\ w[i] = (upto[j - 1] + c[i].nb_variables) + k
            /\ w[j] + c[i].nb_variables = (upto[j - 1] + k) + c[i].nb_variables
        BY <3>2, <3>3, Zenon
      <3>9. (upto[j - 1] + c[i].nb_variables) + k = (upto[j - 1] + k) + c[i].nb_variables
        BY <3>4, <3>6, <3>7
      <3>10. w[i] = w[j] + c[i].nb_variables
        BY <3>8, <3>9, Zenon
      <3> QED
        BY <3>5, <3>10, Zenon
    <2> QED
      BY <2>1, <2>2, <2>3
  <1>9. n + 1 \in Nat
    OBVIOUS
  <1> QED
    BY <1>1, <1>4, <1>7, <1>8, <1>9 DEF Counted, CountsTo

\* What is compiled can be scanned: the symbols are of those that have a value and the
\* modules of those that may be added, the conditions are as said, and the strings are
\* those that the rules count.
Runnable ==
    /\ external_symbols \in Seq(Symbols)
    /\ DOMAIN available_modules \subseteq Modules
    /\ \A r \in Range(rules) \cup Range(global_rules) :
          Shaped(r.condition, r.nb_variables)
    /\ Counted(Evaluated, Len(variables))

\* The rules in the order of evaluation.
LEMMA EvaluatedRules ==
    ASSUME Resolved
    PROVE  /\ Len(global_rules) \in Nat /\ Len(rules) \in Nat
           /\ Len(Evaluated) = Len(global_rules) + Len(rules)
           /\ DOMAIN Evaluated = 1 .. Len(global_rules) + Len(rules)
           /\ \A i \in DOMAIN Evaluated :
                 /\ Evaluated[i] \in Range(rules) \cup Range(global_rules)
                 /\ i <= Len(global_rules) =>
                       i \in DOMAIN global_rules /\ Evaluated[i] = global_rules[i]
                 /\ i > Len(global_rules) =>
                       /\ i - Len(global_rules) \in DOMAIN rules
                       /\ Evaluated[i] = rules[i - Len(global_rules)]
  <1> DEFINE T == Range(rules) \cup Range(global_rules)
             G == Len(global_rules)
             R == Len(rules)
  <1>1. rules \in Seq(T) /\ global_rules \in Seq(T)
    BY DEF Resolved
  <1> HIDE DEF T
  <1>2. /\ Evaluated \in Seq(T) /\ G \in Nat /\ R \in Nat /\ Len(Evaluated) = G + R
        /\ DOMAIN global_rules = 1 .. G /\ DOMAIN rules = 1 .. R
        /\ \A i \in 1 .. G + R :
              Evaluated[i] = IF i <= G THEN global_rules[i] ELSE rules[i - G]
    BY <1>1, ConcatProperties DEF Evaluated
  <1>3. DOMAIN Evaluated = 1 .. G + R
    BY <1>2
  <1> HIDE DEF G, R
  <1>4. ASSUME NEW i \in DOMAIN Evaluated
        PROVE  /\ Evaluated[i] \in T
               /\ i <= G => i \in DOMAIN global_rules /\ Evaluated[i] = global_rules[i]
               /\ i > G => i - G \in DOMAIN rules /\ Evaluated[i] = rules[i - G]
    BY <1>2, <1>3
  <1> QED
    BY <1>2, <1>3, <1>4 DEF T, G, R

LEMMA InitRunnable == Init => Runnable
  <1> SUFFICES ASSUME Init
               PROVE  Runnable
    OBVIOUS
  <1>1. /\ rules = <<>> /\ global_rules = <<>> /\ variables = <<>>
        /\ external_symbols = <<>> /\ available_modules = <<>>
    BY DEF Init
  <1>2. Evaluated = <<>> /\ Len(variables) = 0 /\ DOMAIN Evaluated = 1 .. 0
    BY <1>1 DEF Evaluated
  <1>3. Counted(Evaluated, 0)
    <2> DEFINE upto == [i \in 0 .. 0 |-> 0]
    <2>1. upto \in [0 .. 0 -> 0 .. 0] /\ CountsTo(upto, Evaluated, 0, 0)
      BY DEF CountsTo
    <2> QED
      BY <1>2, <2>1 DEF Counted
  <1> QED
    BY <1>1, <1>2, <1>3 DEF Runnable, Range

LEMMA RunnableKept ==
    ASSUME LayoutInv, Handed, Runnable, [Next]_compilerVars
    PROVE  Runnable'
  <1>0. Opened /\ Resolved /\ variables \in Seq(Range(variables))
    BY DEF LayoutInv, NamesInv, Layout
  <1>1. CASE AddRule
    <2> DEFINE rule == Component.rule
               r == Rule(rule)
    <2>1. /\ \/ rules' = rules /\ global_rules' = Append(global_rules, r)
             \/ rules' = Append(rules, r) /\ global_rules' = global_rules
          /\ external_symbols' = external_symbols
          /\ available_modules' = available_modules
      BY <1>1 DEF AddRule, modules
    <2>2. Shaped(r.condition, r.nb_variables)
      <3>1. Component \in Written /\ Component.kind = "rule"
        BY <1>0, <1>1, ComponentWritten DEF AddRule
      <3>2. /\ rule.variables \in Seq(Range(rule.variables))
            /\ rule.condition.op \in {"and", "or"}
            /\ \A t \in Range(rule.condition.terms) : TermOK(t)
        BY <3>1, RulesAssumption
      <3>3. compile_rule(Ns, rule).ok
        BY <1>1 DEF AddRule, Acceptable
      <3>4. r.condition = compile_rule(Ns, rule).expr /\ r.nb_variables = Len(rule.variables)
        BY DEF Rule
      <3> HIDE DEF rule, r
      <3> QED
        BY <3>2, <3>3, <3>4, RuleShaped
    <2> HIDE DEF rule
    <2>3. \A s : s \in Seq(Range(s)) => Range(Append(s, r)) \subseteq Range(s) \cup {r}
      <3> SUFFICES ASSUME NEW s, s \in Seq(Range(s))
                   PROVE  Range(Append(s, r)) \subseteq Range(s) \cup {r}
        OBVIOUS
      <3> HIDE DEF r
      <3> DEFINE T == Range(s) \cup {r}
      <3>1. s \in Seq(T) /\ r \in T
        OBVIOUS
      <3> HIDE DEF T
      <3>2. Append(s, r) \in Seq(T)
        BY <3>1
      <3>3. \A k \in DOMAIN Append(s, r) : Append(s, r)[k] \in T
        BY <3>2
      <3> QED
        BY <3>3 DEF Range, T
    <2>4. Range(rules') \cup Range(global_rules') \subseteq
             Range(rules) \cup Range(global_rules) \cup {r}
      <3> HIDE DEF r
      <3> QED
        BY <1>0, <2>1, <2>3 DEF Resolved
    <2>5. Counted(Evaluated', Len(variables'))
      <3>1. PICK G \in Nat, n \in Nat, m \in Nat :
              /\ G <= n /\ Len(variables) = m /\ r.nb_variables \in Nat
              /\ Len(variables') = m + r.nb_variables
              /\ Inserted(Evaluated, Evaluated', variables, variables',
                          G, n, m, r.nb_variables, r)
        BY <1>0, <1>1, AddRuleInserts DEF rule
      <3>2. Counted(Evaluated, m)
        BY <3>1 DEF Runnable
      <3>3. \A i \in DOMAIN Evaluated : Evaluated[i].nb_variables \in Nat
        BY <1>0, EvaluatedRules DEF Handed
      <3> HIDE DEF r
      <3>4. Counted(Evaluated', m + r.nb_variables)
        BY <3>1, <3>2, <3>3, InsertedCounted
      <3> QED
        BY <3>1, <3>4
    <2> HIDE DEF r
    <2> QED
      BY <2>1, <2>2, <2>4, <2>5 DEF Runnable
  <1>2. ASSUME UNCHANGED compiled, external_symbols' \in Seq(Symbols),
               DOMAIN available_modules' \subseteq Modules
        PROVE  Runnable'
    <2>1. /\ rules' = rules /\ global_rules' = global_rules /\ variables' = variables
          /\ Evaluated' = Evaluated
      BY <1>2 DEF compiled, Evaluated
    <2> QED
      BY <1>2, <2>1 DEF Runnable
  <1>3. CASE add_module
    <2>1. PICK m \in Modules : available_modules' = Insert(available_modules, m, 0)
      BY <1>3 DEF add_module
    <2>2. DOMAIN available_modules' = DOMAIN available_modules \cup {m}
      BY <2>1 DEF Insert
    <2> QED
      BY <1>2, <1>3, <2>2 DEF add_module, Runnable
  <1>4. CASE define_symbol
    <2>1. PICK s \in Symbols : external_symbols' = Append(external_symbols, s)
      BY <1>4 DEF define_symbol
    <2>2. external_symbols' \in Seq(Symbols)
      BY <2>1 DEF Runnable
    <2> QED
      BY <1>2, <1>4, <2>2 DEF define_symbol, modules, Runnable
  <1>5. CASE Import
    <2>1. DOMAIN available_modules' = DOMAIN available_modules
      BY <1>5 DEF Import
    <2> QED
      BY <1>2, <1>5, <2>1 DEF Import, Runnable
  <1>6. CASE add_rules \/ Include \/ ComponentFails \/ EndOfFile
    BY <1>2, <1>6 DEF add_rules, Include, ComponentFails, Fail, EndOfFile, modules,
                      Runnable
  <1>7. CASE UNCHANGED compilerVars
    BY <1>2, <1>7 DEF compilerVars, compiled, Runnable
  <1> QED
    BY <1>1, <1>3, <1>4, <1>5, <1>6, <1>7 DEF Next

\* The conditions compiled are expressions of the evaluator, over which a scan
\* evaluates.
CompiledAreExpressions ==
    \A r \in Range(global_rules) \cup Range(rules) : r.condition \in Expression

\* Where no global names a rule, no condition reads what is not there.
LEMMA HandedOverFits ==
    ASSUME StackDepth >= 3, LayoutInv, Handed, Runnable, CompiledAreExpressions,
           GlobalsReadNoRule
    PROVE  /\ P!ConditionsOK(IntoScanner) /\ P!ConditionsFit(IntoScanner)
           /\ P!StringsCounted(IntoScanner)
  <1> DEFINE s == IntoScanner
             G == Len(global_rules)
  <1>0. Resolved /\ RulesReadEarlierRules
    BY DEF LayoutInv, NamesInv, Resolved
  <1>1. /\ s.rules = rules /\ s.global_rules = global_rules /\ s.variables = variables
        /\ P!ChainOf(s) = Evaluated
    BY DEF IntoScanner, P!ChainOf, Evaluated
  <1> HIDE DEF s
  <1>2. P!ConditionsOK(s)
    BY <1>1 DEF P!ConditionsOK, CompiledAreExpressions, P!Range, Range
  <1>3. /\ G \in Nat /\ Len(Evaluated) \in Nat /\ DOMAIN Evaluated = 1 .. Len(Evaluated)
        /\ \A i \in DOMAIN Evaluated :
              /\ Evaluated[i] \in Range(rules) \cup Range(global_rules)
              /\ i <= G => i \in DOMAIN global_rules /\ Evaluated[i] = global_rules[i]
              /\ i > G => i - G \in DOMAIN rules /\ Evaluated[i] = rules[i - G]
    BY <1>0, EvaluatedRules
  <1> HIDE DEF G
  <1>4. ASSUME NEW i \in DOMAIN Evaluated
        PROVE  P!Fits(Evaluated[i].condition, P!EarlierRules(s, i),
                      Evaluated[i].nb_variables)
    <2>1. /\ Evaluated[i].condition \in Expression
          /\ Evaluated[i].nb_variables \in Nat
          /\ Shaped(Evaluated[i].condition, Evaluated[i].nb_variables)
      BY <1>3 DEF CompiledAreExpressions, Handed, Runnable
    <2>2. P!EarlierRules(s, i) = IF i <= G THEN 0 ELSE i - 1 - G
      BY <1>1 DEF P!EarlierRules, G
    <2>3. References(Evaluated[i].condition) \subseteq 1 .. P!EarlierRules(s, i)
      <3>1. CASE i <= G
        BY <1>3, <3>1 DEF GlobalsReadNoRule
      <3>2. CASE i > G
        <4>1. i \in Nat /\ i - 1 - G = (i - G) - 1 /\ ~(i <= G)
          BY <1>3, <3>2
        <4>2. References(rules[i - G].condition) \subseteq 1 .. (i - G) - 1
          BY <1>0, <1>3, <3>2 DEF RulesReadEarlierRules
        <4> QED
          BY <1>3, <2>2, <3>2, <4>1, <4>2
      <3> QED
        BY <1>3, <3>1, <3>2
    <2> QED
      BY <2>1, <2>3, ShapedFits
  <1>5. P!ConditionsFit(s)
    BY <1>1, <1>4 DEF P!ConditionsFit
  <1>6. P!StringsCounted(s)
    <2>1. PICK n \in Nat :
             /\ DOMAIN Evaluated = 1 .. n
             /\ \E u \in [0 .. n -> 0 .. Len(variables)] :
                   CountsTo(u, Evaluated, n, Len(variables))
      BY DEF Runnable, Counted
    <2>2. n = Len(Evaluated)
      <3> DEFINE l == Len(Evaluated)
      <3>1. l \in Nat /\ DOMAIN Evaluated = 1 .. l
        BY <1>3
      <3>2. DOMAIN Evaluated = 1 .. n
        BY <2>1
      <3> HIDE DEF l
      <3>3. 1 .. n = 1 .. l
        BY <3>1, <3>2
      <3>4. n = l
        BY <3>1, <3>3
      <3> QED
        BY <3>4 DEF l
    <2>3. PICK u \in [0 .. n -> 0 .. Len(variables)] :
             CountsTo(u, Evaluated, n, Len(variables))
      BY <2>1
    <2>4. P!IsCount(u, s)
      BY <1>1, <1>3, <2>2, <2>3 DEF P!IsCount, CountsTo
    <2> QED
      BY <1>1, <2>2, <2>4 DEF P!StringsCounted
  <1> QED
    BY <1>2, <1>5, <1>6 DEF s

LEMMA SameTypes ==
    /\ S!BoundValue = P!BoundValue /\ S!ModuleValues = P!ModuleValues
    /\ S!Undefined = P!Undefined
  BY DEF S!BoundValue, P!BoundValue, S!ModuleValues, P!ModuleValues, S!Undefined,
         P!Undefined, S!Poison, P!Poison

\* The values that a memory given has for the modules and the symbols.
LEMMA ValuesGiven ==
    ASSUME LayoutInv, Runnable, NEW m \in Memories
    PROVE  /\ P!ValuesOK(Seen(m))
           /\ P!NoModuleValues(Seen(m)) =
                 [i \in DOMAIN imported_modules |-> S!Undefined]
  <1> DEFINE in == Seen(m)
             seen(k) == [m.regions[k] EXCEPT
                           !.modules = [i \in DOMAIN imported_modules |->
                                           @[imported_modules[i]]]]
  <1>1. /\ m.regions \in Seq(Range(m.regions)) /\ m.regions # <<>>
        /\ m.direct => m.size \in Nat
        /\ \A x \in Symbols : m.symbols[x] \in P!BoundValue
        /\ \A region \in Range(m.regions) :
              /\ DOMAIN region = {"start", "fetched", "found", "modules",
                                  "entrypoint", "memory"}
              /\ region.start \in Nat
              /\ region.entrypoint \in [int : Nat] \cup {P!Undefined}
              /\ \A n \in DOMAIN region.memory : region.memory[n] \in Int
              /\ \A x \in Modules :
                    region.modules[x] \in P!ModuleValues \cup {P!Undefined}
    BY MemoriesAssumption, SameTypes DEF S!InputOK, S!IsSeq, S!Range, Range
  <1>2. /\ in.direct = m.direct /\ in.size = m.size
        /\ in.externals = [k \in DOMAIN external_symbols |->
                              m.symbols[external_symbols[k]]]
        /\ in.regions = [k \in DOMAIN m.regions |-> seen(k)]
    BY DEF Seen
  <1>3. \A k \in DOMAIN external_symbols : external_symbols[k] \in Symbols
    BY DEF Runnable
  <1>4. \A k \in DOMAIN imported_modules : imported_modules[k] \in Modules
    BY DEF LayoutInv, NamesInv, Slots, Runnable
  <1>5. ASSUME NEW k \in DOMAIN m.regions
        PROVE  /\ m.regions[k] \in Range(m.regions)
               /\ seen(k).start = m.regions[k].start
               /\ seen(k).entrypoint = m.regions[k].entrypoint
               /\ seen(k).memory = m.regions[k].memory
               /\ seen(k).modules = [i \in DOMAIN imported_modules |->
                                        m.regions[k].modules[imported_modules[i]]]
    <2>1. m.regions[k] \in Range(m.regions)
      BY DEF Range
    <2>2. "modules" \in DOMAIN m.regions[k]
      BY <1>1, <2>1
    <2> QED
      BY <1>1, <2>1, <2>2
  <1> HIDE DEF in, seen
  <1>6. 1 \in DOMAIN m.regions
    BY <1>1
  <1>7. P!NoModuleValues(in) = [i \in DOMAIN imported_modules |-> P!Undefined]
    <2>1. in.regions[1] = seen(1)
      BY <1>2, <1>6
    <2>2. DOMAIN seen(1).modules = DOMAIN imported_modules
      BY <1>5, <1>6
    <2>3. P!NoModuleValues(in) = [k \in DOMAIN seen(1).modules |-> P!Undefined]
      BY <2>1, Zenon DEF P!NoModuleValues
    <2> QED
      BY <2>2, <2>3, Zenon
  <1>8. ASSUME NEW k \in DOMAIN m.regions
        PROVE  /\ seen(k).start \in Nat
               /\ seen(k).entrypoint \in [int : Nat] \cup {P!Undefined}
               /\ \A n \in DOMAIN seen(k).memory : seen(k).memory[n] \in Int
               /\ \A i \in DOMAIN imported_modules :
                     seen(k).modules[i] \in P!ModuleValues \cup {P!Undefined}
    <2>1. m.regions[k] \in Range(m.regions)
      BY <1>5
    <2>2. seen(k).start \in Nat /\ seen(k).entrypoint \in [int : Nat] \cup {P!Undefined}
      BY <1>1, <1>5
    <2>3. \A n \in DOMAIN seen(k).memory : seen(k).memory[n] \in Int
      BY <1>1, <1>5
    <2>4. \A i \in DOMAIN imported_modules :
             seen(k).modules[i] = m.regions[k].modules[imported_modules[i]]
      BY <1>5
    <2>5. \A i \in DOMAIN imported_modules :
             seen(k).modules[i] \in P!ModuleValues \cup {P!Undefined}
      BY <1>1, <1>4, <2>1, <2>4
    <2> QED
      BY <2>2, <2>3, <2>5
  <1>9. \A region \in P!Range(in.regions) : \E k \in DOMAIN m.regions : region = seen(k)
    BY <1>2 DEF P!Range
  <1>10. \A k \in DOMAIN in.externals : in.externals[k] \in P!BoundValue
    BY <1>1, <1>2, <1>3
  <1>11. DOMAIN P!NoModuleValues(in) = DOMAIN imported_modules
    BY <1>7
  <1>12. P!ValuesOK(in)
    BY <1>1, <1>2, <1>8, <1>9, <1>10, <1>11 DEF P!ValuesOK
  <1> QED
    BY <1>7, <1>12, SameTypes DEF in

-----------------------------------------------------------------------------
\* The invariant of a compiler that becomes a scanner: the data of a scan is new until
\* it starts, the scan runs on what was handed over, and where the strings are in order,
\* what ScannerProofs proves of a scan holds of this one.
NewScan ==
    /\ cursor = 1 /\ var_index = 0 /\ entrypoint = S!Undefined
    /\ previous_results = <<>> /\ matched_rules = <<>> /\ result = "none"

ScanInv ==
    IF phase = "compile" THEN NewScan
    ELSE scanner = IntoScanner /\ (GlobalStringsFirst => P!MatchesInv)

EngineInv == LayoutInv /\ Handed /\ Runnable /\ ScanInv

LEMMA InitEngine == EngineInit => EngineInv
  <1> SUFFICES ASSUME EngineInit
               PROVE  EngineInv
    OBVIOUS
  <1>1. Init /\ phase = "compile" /\ NewScan
    BY DEF EngineInit, S!InitWith, NewScan
  <1>2. Handed
    <2>1. rules = <<>> /\ global_rules = <<>> /\ variables = <<>>
      BY <1>1 DEF Init
    <2> QED
      BY <2>1 DEF Handed, Range
  <1> QED
    BY <1>1, <1>2, InitLayout, InitRunnable DEF EngineInv, ScanInv

\* A scan starts with new data, on what it may be given.
LEMMA ScanStarts ==
    ASSUME LayoutInv, Handed, Runnable, ScanInv, Scan
    PROVE  /\ P!Started'
           /\ P!ScanOK(scanner', input') /\ P!ValuesOK(input')
  <1>1. /\ phase = "compile" /\ phase' = "start"
        /\ scanner' = IntoScanner /\ memory' \in Memories
        /\ input' = Seen(memory')
        /\ matches' = [v \in DOMAIN variables |-> <<>>]
        /\ module_values' = [i \in DOMAIN imported_modules |-> S!Undefined]
        /\ UNCHANGED <<cursor, var_index, entrypoint, previous_results, matched_rules,
                       result>>
    BY DEF Scan
  <1>2. NewScan
    BY <1>1 DEF ScanInv
  <1>3. P!ScanOK(scanner', input') /\ P!ValuesOK(input')
    BY <1>1, ScanGiven, ValuesGiven
  <1>4. P!ScannerOK(scanner') /\ scanner'.variables = variables
    BY <1>1, <1>3 DEF P!ScanOK, IntoScanner
  <1>5. module_values' = P!NoModuleValues(input')
    BY <1>1, ValuesGiven
  <1>6. entrypoint' = P!Undefined
    BY <1>1, <1>2, SameTypes DEF NewScan
  <1> QED
    BY <1>1, <1>2, <1>3, <1>4, <1>5, <1>6 DEF P!Started, NewScan

LEMMA StepEngine == EngineInv /\ [EngineNext]_engineVars => EngineInv'
  <1> SUFFICES ASSUME EngineInv, [EngineNext]_engineVars
               PROVE  EngineInv'
    OBVIOUS
  <1>1. LayoutInv /\ Handed /\ Runnable /\ ScanInv
    BY DEF EngineInv
  <1>2. [Next]_compilerVars
    BY DEF EngineNext, Compile, Scan, engineVars
  <1>3. LayoutInv'
    BY <1>1, <1>2, StepLayout
  <1>4. Handed'
    BY <1>1, <1>2, HandedKept DEF LayoutInv, NamesInv, IInv, Types, Layout
  <1>5. ScanInv'
    <2>1. CASE Compile
      BY <1>1, <2>1 DEF Compile, scanVars, ScanInv, NewScan
    <2>2. ASSUME UNCHANGED compilerVars
          PROVE  /\ IntoScanner' = IntoScanner
                 /\ GlobalStringsFirst' <=> GlobalStringsFirst
      BY <2>2 DEF compilerVars, IntoScanner, GlobalStringsFirst, Text
    <2>3. CASE Scan
      <3>1. /\ phase = "compile" /\ phase' = "start" /\ UNCHANGED compilerVars
            /\ scanner' = IntoScanner /\ memory' \in Memories
            /\ input' = Seen(memory')
            /\ matches' = [v \in DOMAIN variables |-> <<>>]
            /\ UNCHANGED <<cursor, var_index, previous_results, matched_rules>>
        BY <2>3 DEF Scan
      <3>3. P!ScanOK(scanner', input')
        BY <1>1, <2>3, ScanStarts
      <3>4. P!Started'
        BY <1>1, <2>3, ScanStarts
      <3>5. P!MatchesInv'
        BY <3>3, <3>4, NoneGiven, P!StartsMatches
      <3> QED
        BY <2>2, <3>1, <3>5 DEF ScanInv
    <2>4. CASE S!Next /\ UNCHANGED <<compilerVars, memory>>
      <3>1. phase # "compile" /\ phase' # "compile" /\ scanner' = scanner
        BY <2>4, ScanRuns
      <3>2. ASSUME GlobalStringsFirst
            PROVE  P!MatchesInv'
        <4>1. P!MatchesInv /\ scanner = IntoScanner
          BY <1>1, <3>1, <3>2 DEF ScanInv
        <4>2. P!StringsInOrder(scanner)
          BY <1>1, <3>2, <4>1, LayoutHandedOver, SameOrder DEF HandsOverInOrder
        <4>3. P!Moves
          BY <2>4, ScanSteps
        <4> QED
          BY <4>1, <4>2, <4>3, NoneGiven, P!StepMatches
      <3> QED
        BY <1>1, <2>2, <2>4, <3>1, <3>2 DEF ScanInv
    <2>5. CASE UNCHANGED engineVars
      <3>1. UNCHANGED compilerVars /\ UNCHANGED scanVars
        BY <2>5 DEF engineVars
      <3>2. CASE phase = "compile"
        BY <1>1, <3>1, <3>2 DEF scanVars, ScanInv, NewScan
      <3>3. CASE phase # "compile"
        <4>1. phase' # "compile" /\ scanner' = scanner /\ UNCHANGED P!vars
          BY <3>1, <3>3 DEF scanVars, P!vars
        <4>2. ASSUME GlobalStringsFirst
              PROVE  P!MatchesInv'
          <5>1. P!MatchesInv /\ scanner = IntoScanner
            BY <1>1, <3>3, <4>2 DEF ScanInv
          <5>2. P!StringsInOrder(scanner)
            BY <1>1, <4>2, <5>1, LayoutHandedOver, SameOrder DEF HandsOverInOrder
          <5> QED
            BY <4>1, <5>1, <5>2, NoneGiven, P!StepMatches
        <4> QED
          BY <1>1, <2>2, <3>1, <3>3, <4>1, <4>2 DEF ScanInv
      <3> QED
        BY <3>2, <3>3
    <2> QED
      BY <2>1, <2>3, <2>4, <2>5 DEF EngineNext
  <1>6. Runnable'
    BY <1>1, <1>2, RunnableKept
  <1> QED
    BY <1>3, <1>4, <1>5, <1>6 DEF EngineInv

\* Where no global names a rule, what ScannerProofs proves of scans that do not panic
\* holds of this one.
CalmEngine ==
    EngineInv /\ (phase # "compile" /\ GlobalsReadNoRule => P!CalmInv)

LEMMA StepCalm ==
    ASSUME StackDepth >= 3, CalmEngine, CompiledAreExpressions, [EngineNext]_engineVars
    PROVE  CalmEngine'
  <1>1. LayoutInv /\ Handed /\ Runnable /\ ScanInv /\ EngineInv
    BY DEF CalmEngine, EngineInv
  <1>2. EngineInv'
    BY <1>1, StepEngine
  <1>3. ASSUME UNCHANGED compilerVars
        PROVE  GlobalsReadNoRule' <=> GlobalsReadNoRule
    BY <1>3 DEF compilerVars, GlobalsReadNoRule
  <1>4. CASE Compile
    <2>1. phase' = "compile"
      BY <1>4 DEF Compile, scanVars
    <2> QED
      BY <1>2, <2>1 DEF CalmEngine
  <1>5. CASE Scan
    <2>1. UNCHANGED compilerVars /\ scanner' = IntoScanner
      BY <1>5 DEF Scan
    <2>2. ASSUME GlobalsReadNoRule
          PROVE  P!CalmInv'
      <3>1. P!ConditionsOK(scanner')
        BY <1>1, <2>1, <2>2, HandedOverFits
      <3>2. P!Started' /\ P!ScanOK(scanner', input') /\ P!ValuesOK(input')
        BY <1>1, <1>5, ScanStarts
      <3>3. (P!Started /\ P!Given)'
        BY <3>1, <3>2 DEF P!Given
      <3> QED
        BY <3>3, NoneGiven, P!StartsCalm
    <2> QED
      BY <1>2, <1>3, <2>1, <2>2 DEF CalmEngine
  <1>6. CASE UNCHANGED compilerVars /\ (S!Next \/ UNCHANGED scanVars)
    <2>1. CASE phase # "compile"
      <3>1. ASSUME GlobalsReadNoRule
            PROVE  P!CalmInv'
        <4>1. P!CalmInv /\ scanner = IntoScanner
          BY <1>1, <2>1, <3>1 DEF CalmEngine, ScanInv
        <4>2. P!ConditionsFit(scanner) /\ P!StringsCounted(scanner)
          BY <1>1, <3>1, <4>1, HandedOverFits
        <4>3. P!Next \/ UNCHANGED P!vars
          BY <1>6, SameSteps DEF scanVars, P!vars
        <4> QED
          BY <4>1, <4>2, <4>3, NoneGiven, P!CalmScanStep
      <3> QED
        BY <1>2, <1>3, <1>6, <3>1 DEF CalmEngine
    <2>2. CASE phase = "compile"
      <3>1. phase' = "compile"
        BY <1>6, <2>2, ScanRuns DEF scanVars
      <3> QED
        BY <1>2, <3>1 DEF CalmEngine
    <2> QED
      BY <2>1, <2>2
  <1> QED
    BY <1>4, <1>5, <1>6 DEF EngineNext, engineVars

-----------------------------------------------------------------------------
(* Theorems. *)

\* Of a compiler alone, the invariant holds in every state.
THEOREM Inductive == Spec => []IInv
  <1> QED
    BY InitInv, StepInv, PTL DEF Spec

\* compile_rule_set and the test on rule names (compiler/mod.rs:376): whatever the files,
\* the errors of earlier calls, the includes and the namespaces, no rule is added that
\* the wildcard of an earlier rule of the namespace would have selected.
THEOREM WildcardsStaySealed == Spec => []WildcardsAreSealed
  <1> QED
    BY Inductive, InvIsSealed, PTL

\* The invariant on names holds in every state.
THEOREM NamesInductive == Spec => []NamesInv
  <1> QED
    BY InitNames, StepNames, PTL DEF Spec

\* add_component (compiler/mod.rs:295-460): whatever the calls that failed half-way, the name of a
\* rule finds the result of that rule, and a module the value of that module: an
\* index given once is never given again, nor moved.
THEOREM NamesResolve == Spec => [](NamesFindTheirRule /\ ModulesHaveOneSlot)
  <1>1. NamesInv => NamesFindTheirRule /\ ModulesHaveOneSlot
    BY DEF NamesInv, Resolved, Slots
  <1> QED
    BY <1>1, NamesInductive, PTL

\* "new rules can reference already existing rules" (compiler/mod.rs:524): a rule, alone
\* or through a set of rules, reads no result by an index that the scan, which
\* evaluates the rules in their order, has not filled.
THEOREM RulesReadBackwards == Spec => []RulesReadEarlierRules
  <1>1. NamesInv => RulesReadEarlierRules
    BY DEF NamesInv, Resolved
  <1> QED
    BY <1>1, NamesInductive, PTL

\* into_scanner and the scans: what the compiler and the scanner do together is, seen
\* from the compiler, what a compiler does: no scan changes what was compiled.
THEOREM EngineCompiles == EngineSpec => Spec
  <1>1. EngineInit => Init
    BY DEF EngineInit
  <1>2. [EngineNext]_engineVars => [Next]_compilerVars
    BY DEF EngineNext, Compile, Scan, engineVars
  <1> QED
    BY <1>1, <1>2, PTL DEF EngineSpec, Spec

\* The same of a compiler that becomes a scanner.
THEOREM EngineStaysSealed == EngineSpec => []WildcardsAreSealed
  <1> QED
    BY EngineCompiles, WildcardsStaySealed, PTL

\* The layout of the strings holds in every state.
THEOREM LayoutInductive == Spec => []LayoutInv
  <1> QED
    BY InitLayout, StepLayout, PTL DEF Spec

\* into_scanner, add_rule and the scans, which take the first strings left for the rule
\* they evaluate (scanner/mod.rs:439, 465): wherever no global with strings is compiled
\* after another rule with strings, a scanner gets the strings in the order in which the
\* rules are evaluated, whatever the calls, the includes and the errors.
THEOREM StringsAreHandedOver == EngineSpec => []HandsOverInOrder
  <1> QED
    BY EngineCompiles, LayoutInductive, LayoutHandedOver, PTL

\* The invariant of the compiler that becomes a scanner holds in every state.
THEOREM EngineInductive == EngineSpec => []EngineInv
  <1> QED
    BY InitEngine, StepEngine, PTL DEF EngineSpec

\* The loop of do_scan (scanner/mod.rs:433-473): the matches listed for a rule,
\* cut from those of all strings by the counts of the rules alone, are those of the strings
\* that the text of this rule declares, for all files, calls and memories, wherever no
\* global with strings is compiled after another rule with strings.
THEOREM ListsOwnStrings == EngineSpec => []OwnStringsWhenGlobalsFirst
  <1>1. EngineInv => OwnStringsWhenGlobalsFirst
    <2> SUFFICES ASSUME EngineInv, GlobalStringsFirst
                 PROVE  P!MatchesAreOwn
      BY SameMatches DEF OwnStringsWhenGlobalsFirst
    <2>1. CASE phase = "compile"
      BY <2>1 DEF EngineInv, ScanInv, NewScan, P!MatchesAreOwn
    <2>2. CASE phase # "compile"
      BY <2>2 DEF EngineInv, ScanInv, P!MatchesInv
    <2> QED
      BY <2>1, <2>2
  <1> QED
    BY <1>1, EngineInductive, PTL

\* evaluate_expr (evaluator/mod.rs:655, 675) and variable.rs (lines 24 to 91), which read
\* results and matches by index: for all files, calls, memories and parameters, none that
\* is not there is read, in either pass, wherever no global names a rule.  The evaluator evaluates what was
\* compiled, of three levels at most, which the stack can hold.
THEOREM ScansOfCompiledRulesDoNotPanic ==
    ASSUME StackDepth >= 3
    PROVE  EngineSpec /\ []CompiledAreExpressions => []OnlyGlobalsPanic
  <1>1. EngineInit => CalmEngine
    BY InitEngine DEF EngineInit, CalmEngine
  <1>2. CalmEngine /\ CompiledAreExpressions /\ [EngineNext]_engineVars => CalmEngine'
    BY StepCalm
  <1>3. CalmEngine => OnlyGlobalsPanic
    BY DEF CalmEngine, EngineInv, ScanInv, NewScan, OnlyGlobalsPanic, P!CalmInv
  <1> QED
    BY <1>1, <1>2, <1>3, PTL DEF EngineSpec
=============================================================================
