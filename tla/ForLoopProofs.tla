---------------------------- MODULE ForLoopProofs ----------------------------
(* Proofs about the loop of a `for`, for every number of elements, every      *)
(* selection and every set of elements that need the matches.                 *)
EXTENDS ForLoop, FiniteSetTheorems, TLAPS

\* Elements the current pass has added, and those it has skipped.
Done    == 1 .. index - 1
Seen    == IF pass = "no_scan" THEN Done \ needs ELSE Done
Skipped == IF pass = "no_scan" THEN Done \cap needs ELSE {}

\* What the accumulated state says of the elements behind the loop.
LoopInv ==
    /\ nb_vars_needed = Cardinality(Skipped)
    /\ sel.kind = "all" => Trues(Seen) = Seen
    /\ sel.kind = "none" => Trues(Seen) = {}
    /\ sel.kind = "number" =>
          /\ sel.n > 0
          /\ sel.n + Cardinality(Trues(Seen)) = selection.n

IInv ==
    /\ TypeOK
    /\ sel.kind = selection.kind
    /\ pass = "no_scan" => answer["full"] = "open"
    /\ pass = "full" => answer["no_scan"] # "open"
    /\ Running => LoopInv
    /\ NoScanIsSound
    /\ FullIsExact
    /\ NoScanIsPrecise

-----------------------------------------------------------------------------
\* Sets of elements are finite, and so are their true elements.
LEMMA Finite ==
    ASSUME NEW S \in SUBSET Elems
    PROVE  /\ IsFiniteSet(S)
           /\ Cardinality(S) \in Nat
           /\ Trues(S) \in SUBSET Elems
           /\ IsFiniteSet(Trues(S))
           /\ Cardinality(Trues(S)) \in Nat
<1>1. IsFiniteSet(Elems)
  BY NAssumption, FS_Interval DEF Elems
<1>2. ASSUME NEW T \in SUBSET Elems
      PROVE  IsFiniteSet(T) /\ Cardinality(T) \in Nat
  BY <1>1, FS_Subset, FS_CardinalityType
<1>3. Trues(S) \in SUBSET Elems
  BY DEF Trues
<1>. QED
  BY <1>2, <1>3

\* One more element adds its own truth to the count.
LEMMA AddOne ==
    ASSUME NEW S \in SUBSET Elems, NEW e \in Elems, e \notin S
    PROVE  /\ Cardinality(S \cup {e}) = Cardinality(S) + 1
           /\ body[e] => Cardinality(Trues(S \cup {e})) = Cardinality(Trues(S)) + 1
           /\ ~body[e] => Trues(S \cup {e}) = Trues(S)
<1>1. IsFiniteSet(S) /\ IsFiniteSet(Trues(S))
  BY Finite
<1>2. e \notin Trues(S)
  BY DEF Trues
<1>3. body[e] => Trues(S \cup {e}) = Trues(S) \cup {e}
  BY DEF Trues
<1>4. ~body[e] => Trues(S \cup {e}) = Trues(S)
  BY DEF Trues
<1>. QED
  BY <1>1, <1>2, <1>3, <1>4, FS_AddElement

\* The true elements of a subset are no more than those of the set.
LEMMA Monotone ==
    ASSUME NEW S \in SUBSET Elems
    PROVE  Cardinality(Trues(S)) <= Cardinality(Trues(Elems))
<1>1. IsFiniteSet(Trues(Elems))
  BY Finite
<1>2. Trues(S) \in SUBSET Trues(Elems)
  BY DEF Trues
<1>. QED
  BY <1>1, <1>2, FS_Subset

\* The skipped elements add at most their number.
LEMMA SkippedBound ==
    ASSUME needs \in SUBSET Elems
    PROVE  Cardinality(Trues(Elems))
              <= Cardinality(Trues(Elems \ needs)) + Cardinality(needs)
<1> DEFINE known == Trues(Elems \ needs)
<1>1. IsFiniteSet(known) /\ IsFiniteSet(needs) /\ IsFiniteSet(Trues(Elems))
  BY Finite
<1>2. Trues(Elems) \in SUBSET (known \cup needs)
  BY DEF Trues
<1>3. IsFiniteSet(known \cup needs)
      /\ Cardinality(known \cup needs)
            = Cardinality(known) + Cardinality(needs) - Cardinality(known \cap needs)
  BY <1>1, FS_Union
<1>4. Cardinality(known \cap needs) \in Nat
  BY Finite
<1>5. Cardinality(Trues(Elems)) <= Cardinality(known \cup needs)
  BY <1>2, <1>3, FS_Subset
<1>6. /\ Cardinality(known) \in Nat
      /\ Cardinality(needs) \in Nat
      /\ Cardinality(Trues(Elems)) \in Nat
  BY Finite
<1>. QED
  BY <1>3, <1>4, <1>5, <1>6

-----------------------------------------------------------------------------
\* The fields of a selector.
LEMMA SelectorFields ==
    ASSUME NEW s \in Selector
    PROVE  s.kind \in {"all", "none", "number"} /\ s.n \in Nat
BY DEF Selector

\* A step of the loop on the element `index` moves it behind the loop.
LEMMA DoneStep ==
    ASSUME TypeOK, index <= N
    PROVE  /\ index \in Elems
           /\ index \notin Done
           /\ 1 .. (index + 1) - 1 = Done \cup {index}
           /\ Done \in SUBSET Elems
           /\ Seen \in SUBSET Elems
           /\ Skipped \in SUBSET Elems
BY NAssumption DEF TypeOK, Elems, Done, Seen, Skipped

-----------------------------------------------------------------------------
LEMMA InitInv == LoopInit => IInv
<1> SUFFICES ASSUME LoopInit PROVE IInv
  OBVIOUS
<1>1. TypeOK
  BY NAssumption, SelectionsAssumption
  DEF LoopInit, TypeOK, Elems, Pass, Answers
<1>2. Done = {}
  BY DEF LoopInit, Done
<1>3. Seen = {} /\ Skipped = {} /\ Trues({}) = {}
  BY <1>2 DEF Seen, Skipped, Trues
<1>4. Cardinality({}) = 0
  BY FS_EmptySet
<1>5. selection \in Selector /\ (selection.kind = "number" => selection.n > 0)
  BY SelectionsAssumption DEF LoopInit
<1>6. selection.n \in Nat
  BY <1>5, SelectorFields
<1>7. sel = selection /\ nb_vars_needed = 0
  BY DEF LoopInit
<1>8. LoopInv
  BY <1>3, <1>4, <1>5, <1>6, <1>7 DEF LoopInv
<1>9. answer["no_scan"] = "open" /\ answer["full"] = "open" /\ pass = "no_scan"
  BY DEF LoopInit, Pass
<1>. QED
  BY <1>1, <1>7, <1>8, <1>9
  DEF IInv, NoScanIsSound, FullIsExact, NoScanIsPrecise, Answered

LEMMA SkipInv == IInv /\ SkipUnknown => IInv'
<1> SUFFICES ASSUME IInv, SkipUnknown PROVE IInv'
  OBVIOUS
<1>1. TypeOK /\ LoopInv
  BY DEF IInv, SkipUnknown
<1>2. TypeOK'
  BY <1>1, NAssumption DEF SkipUnknown, inputs, TypeOK
<1>3. /\ pass = "no_scan" /\ pass' = pass /\ needs' = needs /\ body' = body
      /\ sel' = sel /\ selection' = selection /\ answer' = answer
      /\ index \in needs /\ index <= N /\ index' = index + 1
      /\ nb_vars_needed' = nb_vars_needed + 1
  BY DEF SkipUnknown, inputs
<1>4. Done' = Done \cup {index} /\ index \in Elems /\ index \notin Done
      /\ Seen \in SUBSET Elems /\ Skipped \in SUBSET Elems
  BY <1>1, <1>3, DoneStep DEF Done
<1>5. Seen' = Seen
  BY <1>3, <1>4 DEF Seen
<1>6. Skipped' = Skipped \cup {index} /\ index \notin Skipped
  BY <1>3, <1>4 DEF Skipped
<1>7. Cardinality(Skipped') = Cardinality(Skipped) + 1
  BY <1>4, <1>6, AddOne
<1>8. Trues(Seen)' = Trues(Seen)
  BY <1>3, <1>5 DEF Trues
<1>9. LoopInv'
  BY <1>1, <1>3, <1>5, <1>7, <1>8 DEF LoopInv
<1>10. Trues(Elems)' = Trues(Elems) /\ Trues(Elems \ needs)' = Trues(Elems \ needs)
  BY <1>3 DEF Trues, Elems
<1>11. NoScanIsSound' /\ FullIsExact' /\ NoScanIsPrecise'
  BY <1>3, <1>10
  DEF IInv, NoScanIsSound, FullIsExact, NoScanIsPrecise, Answered, Holds, Elems
<1>. QED
  BY <1>2, <1>3, <1>9, <1>11 DEF IInv

LEMMA AddInv == IInv /\ AddElement => IInv'
<1> SUFFICES ASSUME IInv, AddElement PROVE IInv'
  OBVIOUS
<1> DEFINE added == AddResult(sel, body[index])
<1>1. TypeOK /\ LoopInv /\ sel.kind = selection.kind /\ Running
  BY DEF IInv, AddElement
<1>2. /\ pass' = pass /\ needs' = needs /\ body' = body
      /\ selection' = selection /\ nb_vars_needed' = nb_vars_needed
      /\ index <= N /\ index' = index + 1
      /\ ~(pass = "no_scan" /\ index \in needs)
      /\ sel' = added.sel
      /\ answer' = [answer EXCEPT ![pass] = added.answer]
  BY DEF AddElement, inputs
<1>3. /\ sel \in Selector /\ selection \in Selector /\ pass \in Pass
      /\ answer \in [Pass -> Answers] /\ index \in Nat
      /\ sel.n \in Nat /\ selection.n \in Nat
      /\ sel.kind \in {"all", "none", "number"}
  BY <1>1, SelectionsAssumption, SelectorFields DEF TypeOK
<1>4. /\ index \in Elems /\ index \notin Done /\ Done' = Done \cup {index}
      /\ Seen \in SUBSET Elems /\ Skipped \in SUBSET Elems
  BY <1>1, <1>2, DoneStep DEF Done
<1>5. Seen' = Seen \cup {index} /\ index \notin Seen /\ Skipped' = Skipped
  BY <1>2, <1>4 DEF Seen, Skipped
<1>6. body[index] \in BOOLEAN
  BY <1>1, <1>4 DEF TypeOK
<1>7. /\ added.sel \in Selector /\ added.sel.kind = sel.kind
      /\ added.answer \in {"open", "true", "false"}
  BY <1>3, <1>6 DEF AddResult, Consume, Selector, Number
<1>8. TypeOK'
  BY <1>1, <1>2, <1>4, <1>7, NAssumption
  DEF TypeOK, Answers, Elems
<1>9. Trues(Seen)' = Trues(Seen \cup {index}) /\ Trues(Elems)' = Trues(Elems)
      /\ Trues(Elems \ needs)' = Trues(Elems \ needs)
  BY <1>2, <1>5 DEF Trues, Elems
<1>10. /\ Cardinality(Trues(Seen)) \in Nat
       /\ Cardinality(Trues(Seen \cup {index})) <= Cardinality(Trues(Elems))
       /\ Cardinality(Trues(Elems)) \in Nat
  BY <1>4, Finite, Monotone
<1>11. /\ body[index] => Cardinality(Trues(Seen \cup {index}))
                            = Cardinality(Trues(Seen)) + 1
       /\ ~body[index] => Trues(Seen \cup {index}) = Trues(Seen)
  BY <1>4, <1>5, AddOne
<1>12. added.answer = "open" => LoopInv'
  <2> SUFFICES ASSUME added.answer = "open" PROVE LoopInv'
    OBVIOUS
  <2>1. CASE sel.kind = "all"
    <3>1. body[index]
      BY <2>1, <1>6 DEF AddResult, Consume
    <3>2. Trues(Seen \cup {index}) = Seen \cup {index}
      BY <2>1, <3>1, <1>1 DEF LoopInv, Trues
    <3>. QED
      BY <2>1, <3>2, <1>1, <1>2, <1>5, <1>7, <1>9 DEF LoopInv
  <2>2. CASE sel.kind = "none"
    <3>1. ~body[index]
      BY <2>2, <1>6 DEF AddResult, Consume
    <3>. QED
      BY <2>2, <3>1, <1>1, <1>2, <1>5, <1>7, <1>9, <1>11 DEF LoopInv
  <2>3. CASE sel.kind = "number"
    <3>1. sel.n > 0 /\ sel.n + Cardinality(Trues(Seen)) = selection.n
      BY <2>3, <1>1 DEF LoopInv
    <3>2. CASE body[index]
      <4>1. added.sel.n = sel.n - 1 /\ added.sel.n > 0
        BY <2>3, <3>1, <3>2, <1>3 DEF AddResult, Consume, Number
      <4>2. /\ sel'.n = sel.n - 1 /\ sel'.n > 0 /\ sel'.kind = "number"
            /\ selection'.n = selection.n
        BY <2>3, <4>1, <1>2, <1>7
      <4>3. Cardinality(Trues(Seen))' = Cardinality(Trues(Seen)) + 1
        BY <3>2, <1>9, <1>11
      <4>4. sel'.n + Cardinality(Trues(Seen))' = selection'.n
        BY <3>1, <4>2, <4>3, <1>3, <1>10
      <4>5. nb_vars_needed' = Cardinality(Skipped')
        BY <1>1, <1>2, <1>5 DEF LoopInv
      <4>. QED
        BY <4>2, <4>4, <4>5 DEF LoopInv
    <3>3. CASE ~body[index]
      <4>1. added.sel = sel
        BY <2>3, <3>3, <1>3 DEF AddResult, Consume
      <4>. QED
        BY <2>3, <3>1, <3>3, <4>1, <1>1, <1>2, <1>5, <1>7, <1>9, <1>11 DEF LoopInv
    <3>. QED
      BY <3>2, <3>3
  <2>. QED
    BY <2>1, <2>2, <2>3, <1>3
<1>13. added.answer # "open" => (added.answer = "true") = Holds
  <2> SUFFICES ASSUME added.answer # "open" PROVE (added.answer = "true") = Holds
    OBVIOUS
  <2>1. CASE sel.kind = "all"
    <3>1. ~body[index] /\ added.answer = "false"
      BY <2>1, <1>6 DEF AddResult, Consume
    <3>. QED
      BY <2>1, <3>1, <1>1, <1>4 DEF Holds, Trues
  <2>2. CASE sel.kind = "none"
    <3>1. body[index] /\ added.answer = "false"
      BY <2>2, <1>6 DEF AddResult, Consume
    <3>. QED
      BY <2>2, <3>1, <1>1, <1>4 DEF Holds, Trues
  <2>3. CASE sel.kind = "number"
    <3>1. body[index] /\ added.answer = "true" /\ sel.n - 1 = 0
      BY <2>3, <1>1, <1>3, <1>6 DEF AddResult, Consume, Number, LoopInv
    <3>2. 1 + Cardinality(Trues(Seen)) = selection.n
      BY <2>3, <3>1, <1>1, <1>3 DEF LoopInv
    <3>3. Cardinality(Trues(Elems)) >= selection.n
      BY <3>1, <3>2, <1>3, <1>10, <1>11
    <3>. QED
      BY <2>3, <3>1, <3>3, <1>1 DEF Holds
  <2>. QED
    BY <2>1, <2>2, <2>3, <1>3
<1>14. /\ answer'[pass] = added.answer
       /\ \A p \in Pass : p # pass => answer'[p] = answer[p]
  BY <1>2, <1>3
<1>15. Holds' = Holds
  BY <1>2, <1>9 DEF Holds, Elems
<1>16. NoScanIsSound' /\ FullIsExact' /\ NoScanIsPrecise'
  BY <1>2, <1>3, <1>7, <1>9, <1>13, <1>14, <1>15
  DEF IInv, NoScanIsSound, FullIsExact, NoScanIsPrecise, Answered, Pass, Elems
<1>17. Running' => LoopInv'
  BY <1>2, <1>12, <1>14 DEF Running
<1>. QED
  BY <1>1, <1>2, <1>3, <1>7, <1>8, <1>14, <1>16, <1>17 DEF IInv, Pass

LEMMA EndInv == IInv /\ EndLoop => IInv'
<1> SUFFICES ASSUME IInv, EndLoop PROVE IInv'
  OBVIOUS
<1> DEFINE known == Trues(Elems \ needs)
           final == EndSelection(sel, nb_vars_needed)
<1>1. TypeOK /\ LoopInv /\ sel.kind = selection.kind /\ Running
  BY DEF IInv, EndLoop
<1>2. /\ pass' = pass /\ needs' = needs /\ body' = body /\ sel' = sel
      /\ selection' = selection /\ nb_vars_needed' = nb_vars_needed
      /\ index = N + 1 /\ index' = index
      /\ answer' = [answer EXCEPT ![pass] = final]
  BY DEF EndLoop, inputs
<1>3. /\ sel \in Selector /\ selection \in Selector /\ pass \in Pass
      /\ answer \in [Pass -> Answers] /\ needs \in SUBSET Elems
      /\ sel.n \in Nat /\ selection.n \in Nat /\ nb_vars_needed \in Nat
      /\ sel.kind \in {"all", "none", "number"}
  BY <1>1, SelectionsAssumption, SelectorFields DEF TypeOK
<1>4. Done = Elems
  BY <1>2, NAssumption DEF Done, Elems
<1>5. /\ pass = "no_scan" => Seen = Elems \ needs /\ Skipped = needs
      /\ pass = "full" => Seen = Elems /\ Skipped = {}
  BY <1>3, <1>4 DEF Seen, Skipped
<1>6. final \in {"unknown", "true", "false"}
  BY DEF EndSelection
<1>7. TypeOK'
  BY <1>1, <1>2, <1>6 DEF TypeOK, Answers
<1>8. /\ Cardinality({}) = 0
      /\ IsFiniteSet(needs)
      /\ Cardinality(needs) \in Nat
      /\ Cardinality(needs) = 0 <=> needs = {}
      /\ Cardinality(known) \in Nat
      /\ Cardinality(Trues(Elems)) \in Nat
      /\ Cardinality(known) <= Cardinality(Trues(Elems))
      /\ Cardinality(Trues(Elems)) <= Cardinality(known) + Cardinality(needs)
  BY <1>3, FS_EmptySet, Finite, Monotone, SkippedBound
<1>9. /\ answer'[pass] = final
      /\ \A p \in Pass : p # pass => answer'[p] = answer[p]
  BY <1>2, <1>3
<1>10. /\ Holds' = Holds
       /\ (Trues(Elems \ needs) = Elems \ needs)'
             = (Trues(Elems \ needs) = Elems \ needs)
       /\ known' = known
  BY <1>2 DEF Holds, Elems, Trues
<1>11. CASE pass = "no_scan"
  <2>1. nb_vars_needed = Cardinality(needs)
    BY <1>1, <1>5, <1>11 DEF LoopInv
  <2>2. final # "unknown" => (final = "true") = Holds
    <3>1. CASE sel.kind = "all"
      <4>1. known = Elems \ needs
        BY <3>1, <1>1, <1>5, <1>11 DEF LoopInv
      <4>2. final # "unknown" => final = "true" /\ needs = {}
        BY <3>1, <2>1, <1>8 DEF EndSelection
      <4>. QED
        BY <3>1, <4>1, <4>2, <1>1 DEF Holds, Trues
    <3>2. CASE sel.kind = "none"
      <4>1. known = {}
        BY <3>2, <1>1, <1>5, <1>11 DEF LoopInv
      <4>2. final # "unknown" => final = "true" /\ needs = {}
        BY <3>2, <2>1, <1>8 DEF EndSelection
      <4>. QED
        BY <3>2, <4>1, <4>2, <1>1 DEF Holds, Trues
    <3>3. CASE sel.kind = "number"
      <4>1. sel.n + Cardinality(known) = selection.n
        BY <3>3, <1>1, <1>5, <1>11 DEF LoopInv
      <4>2. final # "unknown" => final = "false" /\ Cardinality(needs) < sel.n
        BY <3>3, <2>1, <1>3, <1>8 DEF EndSelection
      <4>3. final # "unknown" => ~(Cardinality(Trues(Elems)) >= selection.n)
        BY <4>1, <4>2, <1>3, <1>8
      <4>. QED
        BY <3>3, <4>2, <4>3, <1>1 DEF Holds
    <3>. QED
      BY <3>1, <3>2, <3>3, <1>3
  <2>3. final = "unknown" =>
           \/ selection.kind = "all"  /\ known = Elems \ needs /\ needs # {}
           \/ selection.kind = "none" /\ known = {} /\ needs # {}
           \/ /\ selection.kind = "number"
              /\ Cardinality(known) < selection.n
              /\ selection.n <= Cardinality(known) + Cardinality(needs)
    <3>1. CASE sel.kind = "all"
      <4>1. selection.kind = "all" /\ known = Elems \ needs
        BY <3>1, <1>1, <1>5, <1>11 DEF LoopInv
      <4>2. final = "unknown" => needs # {}
        BY <3>1, <2>1, <1>8 DEF EndSelection
      <4>. QED
        BY <4>1, <4>2
    <3>2. CASE sel.kind = "none"
      <4>1. selection.kind = "none" /\ known = {}
        BY <3>2, <1>1, <1>5, <1>11 DEF LoopInv
      <4>2. final = "unknown" => needs # {}
        BY <3>2, <2>1, <1>8 DEF EndSelection
      <4>. QED
        BY <4>1, <4>2
    <3>3. CASE sel.kind = "number"
      <4>1. /\ selection.kind = "number"
            /\ sel.n > 0 /\ sel.n + Cardinality(known) = selection.n
        BY <3>3, <1>1, <1>5, <1>11 DEF LoopInv
      <4>2. final = "unknown" => sel.n <= Cardinality(needs)
        BY <3>3, <2>1, <1>3, <1>8 DEF EndSelection
      <4>3. /\ Cardinality(known) < selection.n
            /\ sel.n <= Cardinality(needs) =>
                   selection.n <= Cardinality(known) + Cardinality(needs)
        BY <4>1, <1>3, <1>8
      <4>. QED
        BY <4>1, <4>2, <4>3
    <3>. QED
      BY <3>1, <3>2, <3>3, <1>3
  <2>. QED
    BY <2>2, <2>3, <1>1, <1>2, <1>6, <1>7, <1>9, <1>10, <1>11
    DEF IInv, NoScanIsSound, FullIsExact, NoScanIsPrecise, Answered, Pass, Running
<1>12. CASE pass = "full"
  <2>1. nb_vars_needed = 0
    BY <1>1, <1>5, <1>8, <1>12 DEF LoopInv
  <2>2. final # "unknown" /\ (final = "true") = Holds
    <3>1. CASE sel.kind = "all"
      <4>1. Trues(Elems) = Elems /\ final = "true"
        BY <3>1, <2>1, <1>1, <1>5, <1>12 DEF LoopInv, EndSelection
      <4>. QED
        BY <3>1, <4>1, <1>1 DEF Holds
    <3>2. CASE sel.kind = "none"
      <4>1. Trues(Elems) = {} /\ final = "true"
        BY <3>2, <2>1, <1>1, <1>5, <1>12 DEF LoopInv, EndSelection
      <4>. QED
        BY <3>2, <4>1, <1>1 DEF Holds
    <3>3. CASE sel.kind = "number"
      <4>1. /\ sel.n > 0
            /\ sel.n + Cardinality(Trues(Elems)) = selection.n
        BY <3>3, <1>1, <1>5, <1>12 DEF LoopInv
      <4>2. final = "false" /\ ~(Cardinality(Trues(Elems)) >= selection.n)
        BY <3>3, <4>1, <2>1, <1>3, <1>8 DEF EndSelection
      <4>. QED
        BY <3>3, <4>2, <1>1 DEF Holds
    <3>. QED
      BY <3>1, <3>2, <3>3, <1>3
  <2>. QED
    BY <2>2, <1>1, <1>2, <1>6, <1>7, <1>9, <1>10, <1>12
    DEF IInv, NoScanIsSound, FullIsExact, NoScanIsPrecise, Answered, Pass, Running
<1>. QED
  BY <1>11, <1>12, <1>3 DEF Pass

LEMMA SecondPassInv == IInv /\ SecondPass => IInv'
<1> SUFFICES ASSUME IInv, SecondPass PROVE IInv'
  OBVIOUS
<1>1. TypeOK
  BY DEF IInv
<1>2. /\ pass = "no_scan" /\ pass' = "full" /\ index' = 1 /\ sel' = selection
      /\ nb_vars_needed' = 0 /\ answer["no_scan"] # "open"
      /\ selection' = selection /\ body' = body /\ needs' = needs
      /\ answer' = answer
  BY DEF SecondPass, inputs, Running
<1>3. /\ selection \in Selector /\ selection.n \in Nat
      /\ selection.kind = "number" => selection.n > 0
  BY <1>1, SelectionsAssumption, SelectorFields DEF TypeOK
<1>4. TypeOK'
  BY <1>1, <1>2, <1>3, NAssumption DEF TypeOK, Pass, Elems
<1>5. Done' = {}
  BY <1>2 DEF Done
<1>6. Seen' = {} /\ Skipped' = {} /\ Trues(Seen)' = {}
  BY <1>2, <1>5 DEF Seen, Skipped, Trues
<1>7. Cardinality({}) = 0
  BY FS_EmptySet
<1>8. LoopInv'
  BY <1>2, <1>3, <1>6, <1>7 DEF LoopInv
<1>9. Holds' = Holds /\ Trues(Elems \ needs)' = Trues(Elems \ needs)
  BY <1>2 DEF Holds, Trues, Elems
<1>. QED
  BY <1>2, <1>4, <1>8, <1>9
  DEF IInv, NoScanIsSound, FullIsExact, NoScanIsPrecise, Answered, Elems

LEMMA StepInv == IInv /\ [LoopNext]_loop_vars => IInv'
<1> SUFFICES ASSUME IInv, [LoopNext]_loop_vars PROVE IInv'
  OBVIOUS
<1>1. CASE SkipUnknown
  BY <1>1, SkipInv
<1>2. CASE AddElement
  BY <1>2, AddInv
<1>3. CASE EndLoop
  BY <1>3, EndInv
<1>4. CASE SecondPass
  BY <1>4, SecondPassInv
<1>5. CASE UNCHANGED loop_vars
  BY <1>5, ZenonT(60)
  DEF loop_vars, IInv, TypeOK, Running, LoopInv, NoScanIsSound, FullIsExact,
      NoScanIsPrecise, Answered, Holds, Trues, Elems, Seen, Skipped, Done
<1>. QED
  BY <1>1, <1>2, <1>3, <1>4, <1>5 DEF LoopNext

-----------------------------------------------------------------------------
LEMMA Inductive == LoopSpec => []IInv
<1>1. LoopInit => IInv
  BY InitInv
<1>2. IInv /\ [LoopNext]_loop_vars => IInv'
  BY StepInv
<1>. QED
  BY <1>1, <1>2, PTL DEF LoopSpec

\* The variables of the loop keep their types: the countdown never goes below
\* zero and the element is always one of the set or the end.
THEOREM Types == LoopSpec => []TypeOK
<1>1. IInv => TypeOK
  BY DEF IInv
<1>. QED
  BY <1>1, Inductive, PTL

\* A for decided without the matches (end and add_result_and_check returning
\* Some in the first pass) has the answer the evaluation with the matches has.
THEOREM NoScanSoundness == LoopSpec => []NoScanIsSound
<1>1. IInv => NoScanIsSound
  BY DEF IInv
<1>. QED
  BY <1>1, Inductive, PTL

\* With the matches, evaluate_for_var computes what the selection means, early
\* exits included, and always has an answer.
THEOREM FullExactness == LoopSpec => []FullIsExact
<1>1. IInv => FullIsExact
  BY DEF IInv
<1>. QED
  BY <1>1, Inductive, PTL

\* Without them it answers VarNeeded only when both results are still possible.
THEOREM NoScanPrecision == LoopSpec => []NoScanIsPrecise
<1>1. IInv => NoScanIsPrecise
  BY DEF IInv
<1>. QED
  BY <1>1, Inductive, PTL
=============================================================================
