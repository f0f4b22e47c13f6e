---------------------------- MODULE ScannerProofs ----------------------------
(* For every scanner, input and set of parameters: the report of a scan names *)
(* the rules in order, each once, never a private one, and the results that   *)
(* later rules read by index are aligned with the rules, across the pass      *)
(* without matches, its fallback, and the full evaluation.  Where the strings *)
(* are laid out in the order of evaluation, the matches that a reported rule  *)
(* lists are those of its own strings, in every region, and the scan refines  *)
(* the contract of ScanContract: what it returns is what an evaluation of     *)
(* every rule with all the matches gives.                                     *)
EXTENDS Scanner, EvaluatorProofs

-----------------------------------------------------------------------------
(* The invariant: three named parts. *)

\* Where the cursor can be in each phase, and what the rules see from there.
CursorOK ==
    /\ cursor \in Nat \ {0}
    /\ phase \in Phases
    /\ phase = "start" => cursor = 1
    /\ phase = "no_scan_globals" => cursor <= NbGlobals + 1
    /\ phase = "no_scan_rules" => NbGlobals < cursor

\* The results read by index.
ResultsOK ==
    /\ previous_results \in Seq(BOOLEAN)
    /\ phase \in {"start", "no_scan_globals", "memory"} => previous_results = <<>>
    /\ PreviousResultsAligned

\* The report: empty where the scan starts over, of rules before the cursor
\* where rules are evaluated.
ReportOK ==
    /\ IsSeq(matched_rules)
    /\ \A k \in DOMAIN matched_rules : matched_rules[k].rule \in Nat
    /\ phase \in {"start", "memory"} => matched_rules = <<>>
    /\ phase \in {"no_scan_globals", "no_scan_rules", "eval"} =>
          \A k \in DOMAIN matched_rules : matched_rules[k].rule < cursor
    /\ ReportedOnceInOrder

IInv == ScannerOK(scanner) /\ CursorOK /\ ResultsOK /\ ReportOK

-----------------------------------------------------------------------------
(* The steps, whatever the evaluations return: what follows depends on no     *)
(* value of a condition.                                                      *)

\* The rule at the cursor is matched or not, and reported with some matches.
Judged(matched, variables, var_matches) ==
    /\ matched_rules' = Report(cursor, matched, variables, var_matches)
    /\ cursor' = cursor + 1
    /\ UNCHANGED <<config, phase, found>>

JudgesGlobal ==
    /\ phase = "no_scan_globals" /\ cursor <= NbGlobals
    /\ \E matched \in BOOLEAN : Judged(matched, <<>>, <<>>)
    /\ UNCHANGED <<var_index, previous_results>>

JudgesRule ==
    /\ phase = "no_scan_rules"
    /\ \E matched \in BOOLEAN :
          /\ Judged(matched, <<>>, <<>>)
          /\ previous_results' = Append(previous_results, matched)
    /\ UNCHANGED var_index

Judges ==
    /\ phase = "eval" /\ cursor <= Len(Chain)
    /\ \E matched \in BOOLEAN :
          /\ Judged(matched, Own(scanner.variables), Own(matches))
          /\ previous_results' = IF IsGlobal(cursor) THEN previous_results
                                 ELSE Append(previous_results, matched)
    /\ var_index' = var_index + Chain[cursor].nb_variables

GivesUp == phase \in {"no_scan_globals", "no_scan_rules"} /\ FallBack

Ends ==
    /\ phase' = "done"
    /\ matched_rules' \in {matched_rules, <<>>}
    /\ UNCHANGED <<config, cursor, var_index, found, previous_results>>

Moves ==
    \/ StartScan \/ NoScanGlobalsKnown \/ ScanRegion \/ MemoryScanned
    \/ JudgesGlobal \/ JudgesRule \/ Judges \/ GivesUp \/ Ends

LEMMA NextMoves == Next => Moves
  <1>1. NoScanGlobal => JudgesGlobal
    BY DEF NoScanGlobal, JudgesGlobal, Judged
  <1>2. NoScanRule => JudgesRule
    BY DEF NoScanRule, JudgesRule, Judged
  <1>3. EvalRule => Judges
    BY DEF EvalRule, Judges, Judged
  <1>4. (NoScanGlobalsUnknown \/ NoScanRuleUndecidable) => GivesUp
    BY DEF NoScanGlobalsUnknown, NoScanRuleUndecidable, GivesUp
  <1>5. (NoScanFalseGlobal \/ NoScanDecided \/ EvalFalseGlobal
         \/ EvalDone \/ EvaluationPanics \/ TimeoutExpires) => Ends
    BY DEF NoScanFalseGlobal, NoScanDecided, EvalFalseGlobal, EvalDone,
           EvaluationPanics, TimeoutExpires, Finish, Ends
  <1> QED
    BY <1>1, <1>2, <1>3, <1>4, <1>5 DEF Next, Moves

-----------------------------------------------------------------------------
(* Lemmas on the operators. *)

LEMMA Counts ==
    ASSUME ScannerOK(scanner)
    PROVE  NbGlobals \in Nat /\ Len(Chain) \in Nat /\ NbGlobals <= Len(Chain)
  <1>1. IsSeq(scanner.global_rules) /\ IsSeq(scanner.rules)
    BY DEF ScannerOK
  <1> DEFINE g == scanner.global_rules
             r == scanner.rules
             U == Range(g) \cup Range(r)
  <1>2. g \in Seq(U) /\ r \in Seq(U)
    BY <1>1 DEF IsSeq
  <1> HIDE DEF U, g, r
  <1>3. Len(g \o r) = Len(g) + Len(r) /\ Len(g) \in Nat /\ Len(r) \in Nat
    BY <1>2, ConcatProperties
  <1>4. NbGlobals = Len(g) /\ Len(Chain) = Len(g \o r)
    BY DEF NbGlobals, Chain, g, r
  <1> QED
    BY <1>3, <1>4

LEMMA IsSeqOf ==
    ASSUME NEW S, NEW s \in Seq(S)
    PROVE  IsSeq(s)
  <1>1. \A k \in 1 .. Len(s) : s[k] \in Range(s)
    BY DEF Range
  <1> QED
    BY <1>1 DEF IsSeq

\* Appending to a sequence of unknown elements.
LEMMA AppendSeq ==
    ASSUME NEW s, NEW x, IsSeq(s)
    PROVE  /\ IsSeq(Append(s, x))
           /\ Len(s) \in Nat
           /\ DOMAIN s = 1 .. Len(s)
           /\ DOMAIN Append(s, x) = 1 .. Len(s) + 1
           /\ \A k \in 1 .. Len(s) : Append(s, x)[k] = s[k]
           /\ Append(s, x)[Len(s) + 1] = x
  <1> DEFINE S == Range(s) \cup {x}
             t == Append(s, x)
  <1>1. s \in Seq(S)
    BY DEF IsSeq
  <1>2. /\ t \in Seq(S) /\ Len(t) = Len(s) + 1
        /\ \A k \in 1 .. Len(s) : t[k] = s[k]
        /\ t[Len(s) + 1] = x
    BY <1>1
  <1>3. t \in Seq(Range(t))
    BY <1>2 DEF Range
  <1> QED
    BY <1>1, <1>2, <1>3 DEF IsSeq

LEMMA EmptyReport ==
    ASSUME matched_rules = <<>>
    PROVE  /\ IsSeq(matched_rules)
           /\ DOMAIN matched_rules = {}
  BY DEF IsSeq, Range

\* Reporting rule i after rules of smaller number keeps the report in order.
LEMMA ReportGrows ==
    ASSUME IsSeq(matched_rules),
           \A k \in DOMAIN matched_rules : matched_rules[k].rule \in Nat,
           ReportedOnceInOrder,
           NEW i \in Nat,
           \A k \in DOMAIN matched_rules : matched_rules[k].rule < i,
           NEW matched, NEW variables, NEW var_matches
    PROVE  LET r == Report(i, matched, variables, var_matches) IN
           /\ IsSeq(r)
           /\ \A k \in DOMAIN r : r[k].rule \in Nat /\ r[k].rule < i + 1
           /\ \A j, k \in DOMAIN r : j < k => r[j].rule < r[k].rule
  <1> DEFINE m == matched_rules
             x == build_matched_rule(i, variables, var_matches)
             r == Report(i, matched, variables, var_matches)
  <1>1. CASE matched /\ ~Chain[i].is_private
    <2>1. r = Append(m, x)
      BY <1>1 DEF Report
    <2>2. x.rule = i
      BY DEF build_matched_rule
    <2> HIDE DEF x, r
    <2>3. /\ IsSeq(r) /\ Len(m) \in Nat /\ DOMAIN m = 1 .. Len(m)
          /\ DOMAIN r = 1 .. Len(m) + 1
          /\ \A k \in 1 .. Len(m) : r[k] = m[k]
          /\ r[Len(m) + 1] = x
      BY <2>1, AppendSeq
    <2>4. \A k \in DOMAIN r : k \in DOMAIN m \/ k = Len(m) + 1
      BY <2>3
    <2>5. \A k \in DOMAIN r : r[k].rule \in Nat /\ r[k].rule < i + 1
      BY <2>2, <2>3, <2>4
    <2>6. ASSUME NEW j \in DOMAIN r, NEW k \in DOMAIN r, j < k
          PROVE  r[j].rule < r[k].rule
      <3>1. j \in DOMAIN m
        BY <2>3, <2>6
      <3>2. CASE k \in DOMAIN m
        BY <3>1, <3>2, <2>3, <2>6 DEF ReportedOnceInOrder
      <3>3. CASE k = Len(m) + 1
        BY <3>1, <3>3, <2>2, <2>3
      <3> QED
        BY <3>2, <3>3, <2>4
    <2> QED
      BY <2>3, <2>5, <2>6 DEF r
  <1>2. CASE ~(matched /\ ~Chain[i].is_private)
    <2>1. r = m
      BY <1>2 DEF Report
    <2>2. \A k \in DOMAIN m : m[k].rule < i + 1
      OBVIOUS
    <2> QED
      BY <2>1, <2>2 DEF ReportedOnceInOrder
  <1> QED
    BY <1>1, <1>2

-----------------------------------------------------------------------------
(* The invariant is inductive. *)

\* A scan about to start: the data is new.
Started ==
    /\ ScannerOK(scanner)
    /\ phase = "start" /\ cursor = 1 /\ var_index = 0
    /\ matches = [v \in DOMAIN scanner.variables |-> <<>>]
    /\ module_values = NoModuleValues(input) /\ entrypoint = Undefined
    /\ previous_results = <<>> /\ matched_rules = <<>> /\ result = "none"

LEMMA InitStarts == Init => Started
  BY ScannersAssumption DEF Init, InitWith, Started

LEMMA StartedInv == Started => IInv
  <1> SUFFICES ASSUME Started
               PROVE  IInv
    OBVIOUS
  <1> USE DEF Started
  <1>1. CursorOK
    BY DEF CursorOK, Phases
  <1>2. ResultsOK
    BY DEF ResultsOK, PreviousResultsAligned
  <1>3. ReportOK
    BY EmptyReport DEF ReportOK, ReportedOnceInOrder
  <1> QED
    BY <1>1, <1>2, <1>3 DEF IInv

\* The scan, and what the invariant says of it, keep the same rules.
LEMMA SameRules ==
    ASSUME UNCHANGED scanner
    PROVE  /\ Chain' = Chain /\ NbGlobals' = NbGlobals
           /\ \A i : IsGlobal(i)' = IsGlobal(i)
  BY DEF Chain, NbGlobals, IsGlobal

\* A step that leaves the report alone, or empties it, keeps ReportOK: when
\* rules are evaluated after it, the cursor has not gone back.
LEMMA ReportKept ==
    ASSUME IInv, UNCHANGED scanner,
           \/ matched_rules' = <<>>
           \/ /\ UNCHANGED matched_rules
              /\ phase' \in {"start", "memory"} => matched_rules = <<>>
              /\ phase' \in {"no_scan_globals", "no_scan_rules", "eval"} =>
                    \A k \in DOMAIN matched_rules : matched_rules[k].rule < cursor'
    PROVE  ReportOK'
  <1>1. CASE matched_rules' = <<>>
    <2>1. IsSeq(matched_rules') /\ DOMAIN matched_rules' = {}
      BY <1>1 DEF IsSeq, Range
    <2> QED
      BY <1>1, <2>1 DEF ReportOK, ReportedOnceInOrder
  <1>2. CASE matched_rules' # <<>>
    BY <1>2, SameRules DEF IInv, ReportOK, ReportedOnceInOrder
  <1> QED
    BY <1>1, <1>2

\* A step that moves to the next rule and reports the one at the cursor.
LEMMA ReportNext ==
    ASSUME IInv, UNCHANGED scanner, UNCHANGED phase, cursor' = cursor + 1,
           phase \in {"no_scan_globals", "no_scan_rules", "eval"},
           NEW matched, NEW variables, NEW var_matches,
           matched_rules' = Report(cursor, matched, variables, var_matches)
    PROVE  ReportOK'
  <1>1. cursor \in Nat
    BY DEF IInv, CursorOK
  <1>2. /\ IsSeq(matched_rules')
        /\ \A k \in DOMAIN matched_rules' :
              matched_rules'[k].rule \in Nat /\ matched_rules'[k].rule < cursor + 1
        /\ \A j, k \in DOMAIN matched_rules' :
              j < k => matched_rules'[j].rule < matched_rules'[k].rule
    BY <1>1, ReportGrows DEF IInv, ReportOK
  <1> QED
    BY <1>2, SameRules DEF ReportOK, ReportedOnceInOrder

\* A step to the end of the scan.
LEMMA Finished ==
    ASSUME IInv, Ends
    PROVE  IInv'
  <1>1. /\ phase' = "done" /\ matched_rules' \in {matched_rules, <<>>}
        /\ UNCHANGED <<scanner, cursor, previous_results>>
    BY DEF Ends, config
  <1>2. CursorOK'
    BY <1>1 DEF IInv, CursorOK, Phases
  <1>3. ResultsOK'
    BY <1>1 DEF IInv, ResultsOK, PreviousResultsAligned
  <1>4. ReportOK'
    BY <1>1, ReportKept
  <1> QED
    BY <1>1, <1>2, <1>3, <1>4 DEF IInv

LEMMA StepInv ==
    ASSUME IInv, [Moves]_vars
    PROVE  IInv'
  <1> USE DEF IInv
  <1>0. NbGlobals \in Nat /\ Len(Chain) \in Nat /\ NbGlobals <= Len(Chain)
    BY Counts
  <1>1. CASE StartScan
    <2>1. /\ UNCHANGED <<scanner, cursor, previous_results, matched_rules>>
          /\ phase = "start" /\ phase' \in {"no_scan_globals", "memory"}
      BY <1>1 DEF StartScan, config
    <2>2. CursorOK'
      BY <2>1, <1>0, SameRules DEF CursorOK, Phases
    <2>3. ResultsOK'
      BY <2>1 DEF ResultsOK, PreviousResultsAligned
    <2>4. ReportOK'
      <3>1. matched_rules = <<>>
        BY <2>1 DEF ReportOK
      <3> QED
        BY <2>1, <3>1, ReportKept
    <2> QED
      BY <2>1, <2>2, <2>3, <2>4
  <1>2. CASE JudgesGlobal
    <2>1. PICK matched \in BOOLEAN :
          /\ UNCHANGED <<scanner, phase, previous_results>>
          /\ phase = "no_scan_globals" /\ cursor <= NbGlobals
          /\ cursor' = cursor + 1
          /\ matched_rules' = Report(cursor, matched, <<>>, <<>>)
      BY <1>2 DEF JudgesGlobal, Judged, config
    <2>2. CursorOK'
      BY <2>1, <1>0, SameRules DEF CursorOK, Phases
    <2>3. ResultsOK'
      BY <2>1 DEF ResultsOK, PreviousResultsAligned
    <2>4. ReportOK'
      BY <2>1, ReportNext
    <2> QED
      BY <2>1, <2>2, <2>3, <2>4
  <1>3. CASE NoScanGlobalsKnown
    <2>1. /\ UNCHANGED <<scanner, cursor, previous_results, matched_rules>>
          /\ phase = "no_scan_globals" /\ phase' = "no_scan_rules"
          /\ cursor > NbGlobals
      BY <1>3 DEF NoScanGlobalsKnown, config
    <2>2. cursor = NbGlobals + 1
      BY <2>1, <1>0 DEF CursorOK
    <2>3. CursorOK'
      BY <2>1, <2>2, <1>0, SameRules DEF CursorOK, Phases
    <2>4. ResultsOK'
      <3>1. previous_results = <<>> /\ ~IsGlobal(cursor)'
        BY <2>1, <2>2, <1>0, SameRules DEF ResultsOK, IsGlobal
      <3>2. PreviousResultsAligned'
        BY <2>1, <2>2, <3>1, <1>0, SameRules DEF PreviousResultsAligned
      <3> QED
        BY <2>1, <3>2 DEF ResultsOK
    <2>5. ReportOK'
      <3>1. \A k \in DOMAIN matched_rules : matched_rules[k].rule < cursor'
        BY <2>1 DEF ReportOK
      <3> QED
        BY <2>1, <3>1, ReportKept
    <2> QED
      BY <2>1, <2>3, <2>4, <2>5
  <1>4. CASE GivesUp
    <2>1. /\ UNCHANGED scanner
          /\ matched_rules' = <<>> /\ previous_results' = <<>>
          /\ cursor' = 1 /\ phase' = "memory"
      BY <1>4 DEF GivesUp, FallBack, config
    <2>2. CursorOK'
      BY <2>1 DEF CursorOK, Phases
    <2>3. ResultsOK'
      BY <2>1 DEF ResultsOK, PreviousResultsAligned
    <2>4. ReportOK'
      BY <2>1, ReportKept
    <2> QED
      BY <2>1, <2>2, <2>3, <2>4
  <1>5. CASE JudgesRule
    <2>1. PICK matched \in BOOLEAN :
          /\ UNCHANGED <<scanner, phase>>
          /\ phase = "no_scan_rules"
          /\ cursor' = cursor + 1
          /\ previous_results' = Append(previous_results, matched)
          /\ matched_rules' = Report(cursor, matched, <<>>, <<>>)
      BY <1>5 DEF JudgesRule, Judged, config
    <2>2. CursorOK'
      BY <2>1, <1>0, SameRules DEF CursorOK, Phases
    <2>3. ResultsOK'
      <3>1. ~IsGlobal(cursor) /\ cursor \in Nat
        BY <2>1, <1>0, SameRules DEF CursorOK, IsGlobal
      <3>2. Len(previous_results) = cursor - 1 - NbGlobals
        BY <2>1, <3>1 DEF ResultsOK, PreviousResultsAligned
      <3>3. /\ previous_results' \in Seq(BOOLEAN)
            /\ Len(previous_results') = Len(previous_results) + 1
        BY <2>1 DEF ResultsOK
      <3>4. PreviousResultsAligned'
        BY <2>1, <3>1, <3>2, <3>3, <1>0, SameRules DEF PreviousResultsAligned, IsGlobal
      <3> QED
        BY <2>1, <3>3, <3>4 DEF ResultsOK
    <2>4. ReportOK'
      BY <2>1, ReportNext
    <2> QED
      BY <2>1, <2>2, <2>3, <2>4
  <1>6. CASE ScanRegion
    <2>1. /\ UNCHANGED <<scanner, phase, previous_results, matched_rules>>
          /\ phase = "memory" /\ cursor' = cursor + 1
      BY <1>6 DEF ScanRegion, config
    <2>2. CursorOK'
      BY <2>1 DEF CursorOK, Phases
    <2>3. ResultsOK'
      BY <2>1 DEF ResultsOK, PreviousResultsAligned
    <2>4. ReportOK'
      BY <2>1, ReportKept DEF ReportOK
    <2> QED
      BY <2>1, <2>2, <2>3, <2>4
  <1>7. CASE MemoryScanned
    <2>1. /\ UNCHANGED <<scanner, previous_results, matched_rules>>
          /\ phase = "memory" /\ phase' = "eval" /\ cursor' = 1
      BY <1>7 DEF MemoryScanned, config
    <2>2. CursorOK'
      BY <2>1 DEF CursorOK, Phases
    <2>3. ResultsOK'
      <3>1. previous_results = <<>>
        BY <2>1 DEF ResultsOK
      <3>2. PreviousResultsAligned'
        BY <2>1, <3>1, <1>0, SameRules DEF PreviousResultsAligned, IsGlobal
      <3> QED
        BY <2>1, <3>1, <3>2 DEF ResultsOK
    <2>4. ReportOK'
      <3>1. matched_rules' = <<>>
        BY <2>1 DEF ReportOK
      <3> QED
        BY <2>1, <3>1, ReportKept
    <2> QED
      BY <2>1, <2>2, <2>3, <2>4
  <1>8. CASE Judges
    <2>1. PICK matched \in BOOLEAN :
          /\ UNCHANGED <<scanner, phase>>
          /\ phase = "eval" /\ cursor <= Len(Chain)
          /\ cursor' = cursor + 1
          /\ previous_results' = IF IsGlobal(cursor) THEN previous_results
                                 ELSE Append(previous_results, matched)
          /\ matched_rules' = Report(cursor, matched,
                                     Own(scanner.variables), Own(matches))
      BY <1>8 DEF Judges, Judged, config
    <2>2. CursorOK'
      BY <2>1, <1>0, SameRules DEF CursorOK, Phases
    <2>3. ResultsOK'
      <3>0. cursor \in Nat
        BY DEF CursorOK
      <3>1. CASE IsGlobal(cursor)
        <4>1. previous_results' = previous_results /\ Len(previous_results) = 0
          BY <2>1, <3>1 DEF ResultsOK, PreviousResultsAligned
        <4>2. cursor <= NbGlobals
          BY <3>1 DEF IsGlobal
        <4>3. PreviousResultsAligned'
          BY <2>1, <4>1, <4>2, <3>0, <1>0, SameRules
             DEF PreviousResultsAligned, IsGlobal
        <4> QED
          BY <2>1, <4>1, <4>3 DEF ResultsOK
      <3>2. CASE ~IsGlobal(cursor)
        <4>1. Len(previous_results) = cursor - 1 - NbGlobals
          BY <2>1, <3>2 DEF ResultsOK, PreviousResultsAligned
        <4>2. /\ previous_results' \in Seq(BOOLEAN)
              /\ Len(previous_results') = Len(previous_results) + 1
          BY <2>1, <3>2 DEF ResultsOK
        <4>3. PreviousResultsAligned'
          BY <2>1, <3>2, <4>1, <4>2, <3>0, <1>0, SameRules
             DEF PreviousResultsAligned, IsGlobal
        <4> QED
          BY <2>1, <4>2, <4>3 DEF ResultsOK
      <3> QED
        BY <3>1, <3>2
    <2>4. ReportOK'
      BY <2>1, ReportNext
    <2> QED
      BY <2>1, <2>2, <2>3, <2>4
  <1>9. CASE Ends
    BY <1>9, Finished
  <1>10. CASE UNCHANGED vars
    <2>1. UNCHANGED <<scanner, cursor, phase, previous_results, matched_rules>>
      BY <1>10 DEF vars
    <2>2. CursorOK'
      BY <2>1, SameRules DEF CursorOK
    <2>3. ResultsOK'
      BY <2>1, SameRules DEF ResultsOK, PreviousResultsAligned
    <2>4. ReportOK'
      BY <2>1, SameRules DEF ReportOK, ReportedOnceInOrder
    <2> QED
      BY <2>1, <2>2, <2>3, <2>4
  <1> QED
    BY <1>1, <1>2, <1>3, <1>4, <1>5, <1>6, <1>7, <1>8, <1>9, <1>10 DEF Moves

-----------------------------------------------------------------------------
(* The elements at some positions. *)

\* What Only joins: the elements kept, one by one.
Pieces(s, kept) == [k \in DOMAIN s |-> IF k \in kept THEN <<s[k]>> ELSE <<>>]

LEMMA PiecesType ==
    ASSUME NEW T, NEW s \in Seq(T), NEW kept
    PROVE  /\ Pieces(s, kept) \in Seq(Seq(T))
           /\ Len(Pieces(s, kept)) = Len(s)
           /\ \A k \in 1 .. Len(s) :
                 Pieces(s, kept)[k] = IF k \in kept THEN <<s[k]>> ELSE <<>>
  <1>1. DOMAIN s = 1 .. Len(s) /\ Len(s) \in Nat /\ \A k \in 1 .. Len(s) : s[k] \in T
    OBVIOUS
  <1>2. \A k \in 1 .. Len(s) :
           (IF k \in kept THEN <<s[k]>> ELSE <<>>) \in Seq(T)
    BY <1>1
  <1>3. Pieces(s, kept) \in [1 .. Len(s) -> Seq(T)]
    BY <1>1, <1>2 DEF Pieces
  <1>4. \A k \in 1 .. Len(s) :
           Pieces(s, kept)[k] = IF k \in kept THEN <<s[k]>> ELSE <<>>
    BY <1>1 DEF Pieces
  <1> QED
    BY <1>1, <1>3, <1>4

\* Kept positions that follow each other give a slice.
LEMMA OnlySlice ==
    ASSUME NEW T, NEW s \in Seq(T), NEW a \in Nat, NEW n \in Nat,
           a + n <= Len(s)
    PROVE  Only(s, a + 1 .. a + n) = [i \in 1 .. n |-> s[a + i]]
  <1> DEFINE kept == a + 1 .. a + n
             seqs == Pieces(s, kept)
             size(j) == IF j <= a THEN 0 ELSE IF j <= a + n THEN j - a ELSE n
             slice(j) == [i \in 1 .. size(j) |-> s[a + i]]
             S == {j \in Nat : j <= Len(s) => Prefix(seqs, j) = slice(j)}
  <1>0. Len(s) \in Nat /\ \A k \in 1 .. Len(s) : s[k] \in T
    OBVIOUS
  <1>1. /\ seqs \in Seq(Seq(T)) /\ Len(seqs) = Len(s)
        /\ \A k \in 1 .. Len(s) : seqs[k] = IF k \in kept THEN <<s[k]>> ELSE <<>>
    BY PiecesType
  <1>2. /\ Prefix(seqs, 0) = <<>>
        /\ \A j \in 0 .. Len(seqs) - 1 :
              Prefix(seqs, j + 1) = Prefix(seqs, j) \o seqs[j + 1]
        /\ FlattenSeq(seqs) = Prefix(seqs, Len(seqs))
    BY <1>1, PrefixSteps
  <1> HIDE DEF seqs
  <1>3. \A j \in 0 .. Len(s) :
           size(j) \in Nat /\ slice(j) \in Seq(T) /\ Len(slice(j)) = size(j)
    <2> TAKE j \in 0 .. Len(s)
    <2>1. size(j) \in Nat /\ size(j) <= n
      OBVIOUS
    <2>2. \A i \in 1 .. size(j) : s[a + i] \in T
      BY <1>0, <2>1
    <2> HIDE DEF size
    <2> QED
      BY <2>1, <2>2
  <1>4. 0 \in S
    <2>1. size(0) = 0
      OBVIOUS
    <2> HIDE DEF size
    <2>2. slice(0) = <<>>
      BY <2>1
    <2> HIDE DEF slice
    <2> QED
      BY <1>2, <2>2
  <1>5. ASSUME NEW j \in Nat, j \in S
        PROVE  j + 1 \in S
    <2> SUFFICES ASSUME j + 1 <= Len(s)
                 PROVE  Prefix(seqs, j + 1) = slice(j + 1)
      OBVIOUS
    <2>1. j \in 0 .. Len(s) /\ j + 1 \in 0 .. Len(s) /\ j \in 0 .. Len(s) - 1
          /\ j + 1 \in 1 .. Len(s)
      BY <1>0
    <2>2. Prefix(seqs, j + 1) = slice(j) \o seqs[j + 1]
      <3>1. Prefix(seqs, j) = slice(j)
        BY <1>5, <2>1
      <3>2. j \in 0 .. Len(seqs) - 1
        BY <1>1, <2>1
      <3> HIDE DEF slice
      <3>3. Prefix(seqs, j + 1) = Prefix(seqs, j) \o seqs[j + 1]
        BY <1>2, <3>2
      <3> QED
        BY <3>1, <3>3
    <2>3. CASE j + 1 \in kept
      <3>1. size(j + 1) = size(j) + 1 /\ a + size(j + 1) = j + 1
        BY <2>3
      <3>2. seqs[j + 1] = <<s[j + 1]>> /\ s[j + 1] \in T
        BY <1>0, <1>1, <2>1, <2>3
      <3>3. slice(j) \in Seq(T) /\ Len(slice(j)) = size(j) /\ size(j) \in Nat
        BY <1>3, <2>1
      <3>4. slice(j + 1) \in Seq(T) /\ Len(slice(j + 1)) = size(j + 1)
        BY <1>3, <2>1
      <3>5. \A i \in 1 .. size(j + 1) : slice(j + 1)[i] = s[a + i]
        OBVIOUS
      <3>6. \A i \in 1 .. size(j) : slice(j)[i] = s[a + i]
        OBVIOUS
      <3> HIDE DEF slice, size, kept
      <3> DEFINE t == slice(j) \o <<s[j + 1]>>
      <3>7. /\ t \in Seq(T) /\ Len(t) = size(j) + 1
            /\ \A i \in 1 .. size(j) : t[i] = s[a + i]
            /\ t[size(j) + 1] = s[j + 1]
        BY <3>2, <3>3, <3>6
      <3>8. t = slice(j + 1)
        <4>1. \A i \in 1 .. Len(t) : t[i] = slice(j + 1)[i]
          BY <3>1, <3>3, <3>5, <3>7
        <4> HIDE DEF t
        <4> QED
          BY <3>1, <3>4, <3>7, <4>1
      <3> QED
        BY <2>2, <3>2, <3>8
    <2>4. CASE j + 1 \notin kept
      <3>1. size(j + 1) = size(j)
        BY <2>4
      <3>2. seqs[j + 1] = <<>>
        BY <1>1, <2>1, <2>4
      <3>3. slice(j + 1) = slice(j)
        <4> HIDE DEF size
        <4> QED
          BY <3>1
      <3>4. slice(j) \in Seq(T)
        BY <1>3, <2>1
      <3> HIDE DEF slice, size, kept
      <3>5. slice(j) \o <<>> = slice(j)
        BY <3>4
      <3> QED
        BY <2>2, <3>2, <3>3, <3>5
    <2> QED
      BY <2>3, <2>4
  <1>6. Nat \subseteq S
    <2> HIDE DEF S
    <2> QED
      BY <1>4, <1>5, SetInduction
  <1>7. Prefix(seqs, Len(s)) = slice(Len(s))
    BY <1>0, <1>6
  <1>8. size(Len(s)) = n
    BY <1>0
  <1>9. Only(s, kept) = FlattenSeq(seqs)
    BY DEF Only, seqs, Pieces
  <1>10. slice(Len(s)) = [i \in 1 .. n |-> s[a + i]]
    <2> HIDE DEF size
    <2> QED
      BY <1>8
  <1> HIDE DEF slice, size
  <1> QED
    BY <1>1, <1>2, <1>7, <1>9, <1>10

-----------------------------------------------------------------------------
(* The matches of a variable. *)

\* What the scan of a region adds to a variable.
FoundIn(region, x) ==
    IF ~region.fetched THEN <<>>
    ELSE [m \in DOMAIN region.found[x] |->
             [region.found[x][m] EXCEPT !.offset = @ + region.start]]

\* What every region of a memory adds to it.
Shares(in, x) == [k \in DOMAIN in.regions |-> FoundIn(in.regions[k], x)]

\* The scanner and the memory of a scan.
ScanOK(s, in) == ScannerOK(s) /\ InputOK(in) /\ MatchesOK(s, in)

LEMMA SharesType ==
    ASSUME NEW in, NEW s, ScanOK(s, in), NEW x \in Range(s.variables)
    PROVE  /\ Len(in.regions) \in Nat /\ DOMAIN in.regions = 1 .. Len(in.regions)
           /\ Len(Shares(in, x)) = Len(in.regions)
           /\ \E T : Shares(in, x) \in Seq(Seq(T))
           /\ \A k \in 1 .. Len(in.regions) :
                 Shares(in, x)[k] = FoundIn(in.regions[k], x)
  <1> DEFINE regions == in.regions
             T == UNION {Range(FoundIn(regions[k], x)) : k \in DOMAIN regions}
  <1>1. DOMAIN regions = 1 .. Len(regions) /\ Len(regions) \in Nat
    BY DEF ScanOK, InputOK, IsSeq
  <1>2. ASSUME NEW k \in DOMAIN regions
        PROVE  FoundIn(regions[k], x) \in Seq(T)
    <2> DEFINE region == regions[k]
               e(m) == [region.found[x][m] EXCEPT !.offset = @ + region.start]
    <2>1. Range(FoundIn(region, x)) \subseteq T
      OBVIOUS
    <2>2. CASE ~region.fetched
      BY <2>2 DEF FoundIn
    <2>3. CASE region.fetched
      <3>1. region \in Range(in.regions)
        BY DEF Range
      <3>2. IsSeq(region.found[x])
        <4>1. region.found[x] \in Seq([offset : Nat, length : Nat])
          BY <3>1 DEF ScanOK, MatchesOK
        <4> HIDE DEF region
        <4> QED
          BY <4>1, IsSeqOf
      <3>3. /\ DOMAIN region.found[x] = 1 .. Len(region.found[x])
            /\ Len(region.found[x]) \in Nat
        BY <3>2 DEF IsSeq
      <3>4. FoundIn(region, x) = [m \in 1 .. Len(region.found[x]) |-> e(m)]
        BY <2>3, <3>3 DEF FoundIn
      <3> HIDE DEF e, region, T
      <3>5. \A m \in 1 .. Len(region.found[x]) : e(m) \in Range(FoundIn(region, x))
        BY <3>4 DEF Range
      <3>6. \A m \in 1 .. Len(region.found[x]) : e(m) \in T
        BY <2>1, <3>5
      <3>7. FoundIn(region, x) \in [1 .. Len(region.found[x]) -> T]
        BY <3>4, <3>6
      <3>8. FoundIn(region, x) \in Seq(T)
        BY <3>3, <3>7
      <3> QED
        BY <3>8 DEF region
    <2> QED
      BY <2>2, <2>3
  <1> HIDE DEF T, regions
  <1>3. Shares(in, x) = [k \in 1 .. Len(regions) |-> FoundIn(regions[k], x)]
    BY <1>1 DEF Shares, regions
  <1>4. Shares(in, x) \in [1 .. Len(regions) -> Seq(T)]
    BY <1>1, <1>2, <1>3
  <1>5. Shares(in, x) \in Seq(Seq(T)) /\ Len(Shares(in, x)) = Len(regions)
    BY <1>1, <1>4
  <1>6. \A k \in 1 .. Len(regions) : Shares(in, x)[k] = FoundIn(regions[k], x)
    BY <1>3
  <1> QED
    BY <1>1, <1>5, <1>6 DEF regions

\* One region more, and all of them.
LEMMA NextShare ==
    ASSUME NEW in, NEW s, ScanOK(s, in), NEW x \in Range(s.variables)
    PROVE  /\ Prefix(Shares(in, x), 0) = <<>>
           /\ \A c \in Nat \ {0} :
                 c <= Len(in.regions) =>
                     Prefix(Shares(in, x), c) =
                        Prefix(Shares(in, x), c - 1) \o FoundIn(in.regions[c], x)
           /\ \A c \in Nat \ {0} :
                 c <= Len(in.regions) /\ ~in.regions[c].fetched =>
                     Prefix(Shares(in, x), c) = Prefix(Shares(in, x), c - 1)
           /\ FlattenSeq(Shares(in, x)) = Prefix(Shares(in, x), Len(in.regions))
  <1> DEFINE seqs == Shares(in, x)
             n == Len(in.regions)
  <1>1. PICK T : seqs \in Seq(Seq(T))
    BY SharesType
  <1>2. n \in Nat /\ Len(seqs) = n
        /\ \A k \in 1 .. n : seqs[k] = FoundIn(in.regions[k], x)
    BY SharesType
  <1> HIDE DEF seqs, n
  <1>3. /\ Prefix(seqs, 0) = <<>>
        /\ \A j \in 0 .. n - 1 : Prefix(seqs, j + 1) = Prefix(seqs, j) \o seqs[j + 1]
        /\ \A j \in 0 .. n : Prefix(seqs, j) \in Seq(T)
        /\ FlattenSeq(seqs) = Prefix(seqs, n)
    BY <1>1, <1>2, PrefixSteps
  <1>4. ASSUME NEW c \in Nat \ {0}, c <= n
        PROVE  Prefix(seqs, c) = Prefix(seqs, c - 1) \o FoundIn(in.regions[c], x)
    <2>1. c - 1 \in 0 .. n - 1 /\ (c - 1) + 1 = c /\ c \in 1 .. n
      BY <1>2, <1>4
    <2>2. Prefix(seqs, (c - 1) + 1) = Prefix(seqs, c - 1) \o seqs[(c - 1) + 1]
      BY <1>3, <2>1
    <2> QED
      BY <1>2, <2>1, <2>2
  <1>5. ASSUME NEW c \in Nat \ {0}, c <= n, ~in.regions[c].fetched
        PROVE  Prefix(seqs, c) = Prefix(seqs, c - 1)
    <2>1. FoundIn(in.regions[c], x) = <<>>
      BY <1>5 DEF FoundIn
    <2>2. Prefix(seqs, c - 1) \in Seq(T)
      <3>1. c - 1 \in 0 .. n
        BY <1>2, <1>5
      <3> QED
        BY <1>3, <3>1
    <2>3. Prefix(seqs, c - 1) \o <<>> = Prefix(seqs, c - 1)
      BY <2>2
    <2> QED
      BY <1>4, <1>5, <2>1, <2>3
  <1> QED
    BY <1>3, <1>4, <1>5 DEF seqs, n

LEMMA AllMatches ==
    \A x : AllMatchesOf(x) = FlattenSeq(Shares(input, x))
  BY DEF AllMatchesOf, Shares, FoundIn

-----------------------------------------------------------------------------
(* The strings of a rule. *)

LEMMA ChainType ==
    ASSUME NEW s, ScannerOK(s)
    PROVE  /\ Len(ChainOf(s)) \in Nat /\ DOMAIN ChainOf(s) = 1 .. Len(ChainOf(s))
           /\ \A i \in DOMAIN ChainOf(s) : ChainOf(s)[i].nb_variables \in Nat
  <1> DEFINE g == s.global_rules
             r == s.rules
             U == Range(g) \cup Range(r)
  <1>1. IsSeq(g) /\ IsSeq(r) /\ \A x \in U : x.nb_variables \in Nat
    BY DEF ScannerOK
  <1>2. g \in Seq(U) /\ r \in Seq(U)
    BY <1>1 DEF IsSeq
  <1> HIDE DEF U, g, r
  <1>3. g \o r \in Seq(U)
    BY <1>2
  <1>4. /\ Len(g \o r) \in Nat /\ DOMAIN (g \o r) = 1 .. Len(g \o r)
        /\ \A i \in DOMAIN (g \o r) : (g \o r)[i] \in U
    BY <1>3
  <1> QED
    BY <1>1, <1>4 DEF ChainOf, g, r

\* A slice of a sequence, as SubSeq takes it.
LEMMA Slice ==
    ASSUME NEW T, NEW s \in Seq(T), NEW a \in Nat, NEW n \in Nat, a + n <= Len(s)
    PROVE  SubSeq(s, a + 1, a + n) = [i \in 1 .. n |-> s[a + i]]
  OBVIOUS

\* Where the strings before a rule are 1 .. a, those before the next follow.
LEMMA NextDeclared ==
    ASSUME NEW s, ScannerOK(s), StringsInOrder(s),
           NEW i \in DOMAIN ChainOf(s), NEW a \in Nat,
           DeclaredBefore(s, i) = 1 .. a
    PROVE  /\ DeclaredBy(s, i) = a + 1 .. a + ChainOf(s)[i].nb_variables
           /\ DeclaredBefore(s, i + 1) = 1 .. a + ChainOf(s)[i].nb_variables
  <1> DEFINE n == ChainOf(s)[i].nb_variables
  <1>0. i \in Nat \ {0} /\ n \in Nat
    BY ChainType
  <1>1. PICK b \in 0 .. Len(s.variables) :
           /\ DeclaredBefore(s, i) = 1 .. b
           /\ DeclaredBy(s, i) = b + 1 .. b + n
    BY DEF StringsInOrder
  <1>2. IsSeq(s.variables)
    BY DEF ScannerOK
  <1>3. Len(s.variables) \in Nat
    BY <1>2 DEF IsSeq
  <1>4. b \in Nat
    BY <1>3
  <1>5. 1 .. a = 1 .. b
    BY <1>1
  <1> HIDE DEF n
  <1>6. a = b
    <2>1. a > 0 => a \in 1 .. b
      BY <1>5
    <2>2. b > 0 => b \in 1 .. a
      BY <1>4, <1>5
    <2> QED
      BY <1>4, <2>1, <2>2
  <1>7. 1 .. (i + 1) - 1 = (1 .. i - 1) \cup {i}
    BY <1>0
  <1>8. DeclaredBefore(s, i + 1) = DeclaredBefore(s, i) \cup DeclaredBy(s, i)
    BY <1>7 DEF DeclaredBefore
  <1>9. (1 .. a) \cup (a + 1 .. a + n) = 1 .. a + n
    BY <1>0
  <1> QED
    BY <1>1, <1>6, <1>8, <1>9 DEF n

-----------------------------------------------------------------------------
(* The invariant of the matches. *)

\* What has been found where: nothing before the memory is scanned, the matches
\* of the regions before the cursor while it is, all of them after.
FoundOK ==
    /\ ScanOK(scanner, input)
    /\ matches = [v \in DOMAIN scanner.variables |-> matches[v]]
    /\ phase = "memory" => cursor <= Len(input.regions) + 1
    /\ \A v \in DOMAIN scanner.variables :
          LET x == scanner.variables[v] IN
          /\ phase \in {"start", "no_scan_globals", "no_scan_rules"} =>
                matches[v] = <<>>
          /\ phase = "memory" => matches[v] = Prefix(Shares(input, x), cursor - 1)
          /\ phase = "eval" => matches[v] = AllMatchesOf(x)

\* The variables handed out are those of the rules before the cursor.
HandedOutOK ==
    /\ var_index \in Nat
    /\ phase \in {"start", "no_scan_globals", "no_scan_rules", "memory"} =>
          var_index = 0
    /\ phase = "eval" => DeclaredBefore(scanner, cursor) = 1 .. var_index

\* The pass without matches is only for the scans that allow it: the full matches are
\* asked of the full evaluation.
ModeOK ==
    phase \in {"no_scan_globals", "no_scan_rules"} => can_use_no_scan_optimization

MatchesInv == IInv /\ FoundOK /\ HandedOutOK /\ ModeOK /\ MatchesAreOwn

LEMMA VariablesType ==
    ASSUME IInv
    PROVE  /\ scanner.variables \in Seq(Range(scanner.variables))
           /\ Len(scanner.variables) \in Nat
           /\ DOMAIN scanner.variables = 1 .. Len(scanner.variables)
           /\ \A v \in DOMAIN scanner.variables :
                 scanner.variables[v] \in Range(scanner.variables)
  <1>1. IsSeq(scanner.variables)
    BY DEF IInv, ScannerOK
  <1>2. scanner.variables \in Seq(Range(scanner.variables))
    BY <1>1 DEF IsSeq
  <1>3. \A v \in DOMAIN scanner.variables :
           scanner.variables[v] \in Range(scanner.variables)
    BY DEF Range
  <1> QED
    BY <1>2, <1>3

LEMMA StartedMatches == Started /\ ScanOK(scanner, input) => MatchesInv
  <1> SUFFICES ASSUME Started, ScanOK(scanner, input)
               PROVE  MatchesInv
    OBVIOUS
  <1>1. IInv
    BY StartedInv
  <1> USE DEF Started
  <1>2. FoundOK
    BY DEF FoundOK
  <1>3. HandedOutOK /\ ModeOK
    BY DEF HandedOutOK, ModeOK
  <1>4. MatchesAreOwn
    BY DEF MatchesAreOwn
  <1> QED
    BY <1>1, <1>2, <1>3, <1>4 DEF MatchesInv

\* The same of the state a step leads to.
LEMMA StartsMatches == (Started /\ ScanOK(scanner, input))' => MatchesInv'
  BY StartedMatches, PTL

\* A region more: where it is fetched, every variable gets what is found in it.
LEMMA RegionStep ==
    ASSUME IInv, FoundOK, ScanRegion
    PROVE  FoundOK'
  <1> DEFINE region == input.regions[cursor]
  <1>1. /\ UNCHANGED <<scanner, input, phase>>
        /\ phase = "memory" /\ cursor <= Len(input.regions) /\ cursor' = cursor + 1
        /\ matches' = IF region.fetched THEN AddMatches(matches, region) ELSE matches
    BY DEF ScanRegion, config, found
  <1>2. cursor \in Nat \ {0}
    BY DEF IInv, CursorOK
  <1>3. /\ ScanOK(scanner, input)
        /\ matches = [v \in DOMAIN scanner.variables |-> matches[v]]
        /\ DOMAIN matches = DOMAIN scanner.variables
    BY Zenon DEF FoundOK
  <1>4. matches' = [v \in DOMAIN scanner.variables |-> matches'[v]]
    BY <1>1, <1>3, Zenon DEF AddMatches
  <1>5. ASSUME NEW v \in DOMAIN scanner.variables
        PROVE  matches'[v] = Prefix(Shares(input, scanner.variables[v]), cursor)
    <2> DEFINE x == scanner.variables[v]
               shares == Shares(input, x)
    <2>1. x \in Range(scanner.variables)
      BY VariablesType
    <2>2. matches[v] = Prefix(shares, cursor - 1)
      BY <1>1, Zenon DEF FoundOK
    <2>3. CASE region.fetched
      <3>1. matches'[v] = matches[v] \o FoundIn(region, x)
        BY <1>1, <1>3, <2>3, Zenon DEF AddMatches, FoundIn
      <3> HIDE DEF x, region
      <3>2. Prefix(Shares(input, x), cursor) =
               Prefix(Shares(input, x), cursor - 1) \o FoundIn(input.regions[cursor], x)
        <4>1. \A c \in Nat \ {0} :
                 c <= Len(input.regions) =>
                     Prefix(Shares(input, x), c) =
                        Prefix(Shares(input, x), c - 1) \o FoundIn(input.regions[c], x)
          BY <1>3, <2>1, NextShare
        <4>2. cursor <= Len(input.regions)
          BY <1>1
        <4> QED
          BY <1>2, <4>1, <4>2
      <3> QED
        BY <2>2, <3>1, <3>2 DEF region, x
    <2>4. CASE ~region.fetched
      <3>1. matches'[v] = matches[v]
        BY <1>1, <2>4
      <3> HIDE DEF x
      <3>2. Prefix(Shares(input, x), cursor) = Prefix(Shares(input, x), cursor - 1)
        BY <1>1, <1>2, <1>3, <2>1, <2>4, NextShare
      <3> QED
        BY <2>2, <3>1, <3>2 DEF x
    <2> QED
      BY <2>3, <2>4
  <1>6. cursor' - 1 = cursor
    BY <1>1, <1>2
  <1>7. Len(input.regions) \in Nat
    BY <1>3 DEF ScanOK, InputOK, IsSeq
  <1>8. cursor' <= Len(input.regions) + 1
    BY <1>1, <1>2, <1>7
  <1> QED
    BY <1>1, <1>3, <1>4, <1>5, <1>6, <1>8 DEF FoundOK

\* When every region has been seen, the variables have all their matches.
LEMMA ScannedStep ==
    ASSUME IInv, FoundOK, MemoryScanned
    PROVE  FoundOK'
  <1> USE DEF IInv, FoundOK
  <1>1. /\ UNCHANGED <<scanner, input, matches>>
        /\ phase = "memory" /\ phase' = "eval" /\ cursor > Len(input.regions)
    BY DEF MemoryScanned, config, found
  <1>2. Len(input.regions) \in Nat /\ cursor \in Nat
    BY DEF ScanOK, InputOK, IsSeq, CursorOK
  <1>3. cursor - 1 = Len(input.regions)
    BY <1>1, <1>2
  <1>4. ASSUME NEW v \in DOMAIN scanner.variables
        PROVE  matches[v] = AllMatchesOf(scanner.variables[v])
    <2> DEFINE x == scanner.variables[v]
    <2>1. x \in Range(scanner.variables)
      BY VariablesType
    <2>2. matches[v] = Prefix(Shares(input, x), Len(input.regions))
      BY <1>1, <1>3
    <2> HIDE DEF x
    <2>3. FlattenSeq(Shares(input, x)) = Prefix(Shares(input, x), Len(input.regions))
      BY <2>1, NextShare
    <2> QED
      BY <2>2, <2>3, AllMatches DEF x
  <1>5. \A v \in DOMAIN scanner.variables :
           AllMatchesOf(scanner.variables[v])' = AllMatchesOf(scanner.variables[v])
    BY <1>1 DEF AllMatchesOf
  <1> QED
    BY <1>1, <1>4, <1>5

LEMMA FoundSteps ==
    ASSUME IInv, FoundOK, [Moves]_vars
    PROVE  FoundOK'
  <1>1. CASE ScanRegion
    BY <1>1, RegionStep
  <1>2. CASE MemoryScanned
    BY <1>2, ScannedStep
  \* Nothing else changes the matches.
  <1>3. ASSUME UNCHANGED <<scanner, input, matches>>,
               \/ phase' = phase /\ phase # "memory"
               \/ phase' = phase /\ cursor' = cursor
               \/ phase' = "done"
               \/ phase \in {"start", "no_scan_globals", "no_scan_rules"} /\
                  phase' \in {"no_scan_globals", "no_scan_rules"}
        PROVE  FoundOK'
    <2>1. \A v \in DOMAIN scanner.variables :
             AllMatchesOf(scanner.variables[v])' = AllMatchesOf(scanner.variables[v])
      BY <1>3 DEF AllMatchesOf
    <2> QED
      BY <1>3, <2>1 DEF FoundOK
  \* The scan of the memory starts without any match.
  <1>4. ASSUME UNCHANGED <<scanner, input, matches>>,
               phase \in {"start", "no_scan_globals", "no_scan_rules"},
               phase' = "memory", cursor' = 1
        PROVE  FoundOK'
    <2>1. Len(input.regions) \in Nat /\ cursor' - 1 = 0
      BY <1>4 DEF FoundOK, ScanOK, InputOK, IsSeq
    <2>2. \A v \in DOMAIN scanner.variables :
             matches[v] = Prefix(Shares(input, scanner.variables[v]), 0)
      <3> SUFFICES ASSUME NEW v \in DOMAIN scanner.variables
                   PROVE  matches[v] = Prefix(Shares(input, scanner.variables[v]), 0)
        OBVIOUS
      <3>1. scanner.variables[v] \in Range(scanner.variables)
            /\ ScanOK(scanner, input)
        BY VariablesType DEF IInv, FoundOK
      <3>2. matches[v] = <<>>
        BY <1>4 DEF FoundOK
      <3>3. Prefix(Shares(input, scanner.variables[v]), 0) = <<>>
        BY <3>1, NextShare
      <3> QED
        BY <3>2, <3>3
    <2>3. \A v \in DOMAIN scanner'.variables :
             matches'[v] = Prefix(Shares(input', scanner'.variables[v]), cursor' - 1)
      BY <1>4, <2>1, <2>2
    <2>4. (ScanOK(scanner, input) /\ matches = [v \in DOMAIN scanner.variables |-> matches[v]])'
      BY <1>4 DEF FoundOK
    <2>5. cursor' <= Len(input'.regions) + 1
      BY <1>4, <2>1
    <2> QED
      BY <1>4, <2>3, <2>4, <2>5 DEF FoundOK
  <1>5. CASE StartScan
    <2>1. /\ UNCHANGED <<scanner, input, matches, cursor>>
          /\ phase = "start" /\ phase' \in {"no_scan_globals", "memory"}
      BY <1>5 DEF StartScan, config
    <2>2. cursor = 1
      BY <2>1 DEF IInv, CursorOK
    <2> QED
      BY <1>3, <1>4, <2>1, <2>2
  <1>6. CASE GivesUp
    BY <1>4, <1>6 DEF GivesUp, FallBack, config, found
  <1>7. CASE JudgesGlobal \/ JudgesRule \/ Judges \/ NoScanGlobalsKnown
    BY <1>3, <1>7 DEF JudgesGlobal, JudgesRule, Judges, Judged, NoScanGlobalsKnown,
                      config, found
  <1>8. CASE Ends
    BY <1>3, <1>8 DEF Ends, config, found
  <1>9. CASE UNCHANGED vars
    BY <1>3, <1>9 DEF vars
  <1> QED
    BY <1>1, <1>2, <1>5, <1>6, <1>7, <1>8, <1>9 DEF Moves

LEMMA ModeSteps ==
    ASSUME ModeOK, [Moves]_vars
    PROVE  ModeOK'
  BY DEF ModeOK, can_use_no_scan_optimization, Moves, vars, config, StartScan,
         NoScanGlobalsKnown, ScanRegion, MemoryScanned, JudgesGlobal, JudgesRule, Judges,
         Judged, GivesUp, FallBack, Ends

\* The variables handed out.
LEMMA HandedOutSteps ==
    ASSUME IInv, HandedOutOK, StringsInOrder(scanner), [Moves]_vars
    PROVE  HandedOutOK'
  <1> USE DEF IInv, HandedOutOK
  <1>1. CASE Judges
    <2>1. /\ UNCHANGED <<scanner, phase>>
          /\ phase = "eval" /\ cursor <= Len(Chain) /\ cursor' = cursor + 1
          /\ var_index' = var_index + Chain[cursor].nb_variables
      BY <1>1 DEF Judges, Judged, config
    <2>2. Chain = ChainOf(scanner)
      BY DEF Chain, ChainOf
    <2>3. cursor \in DOMAIN ChainOf(scanner)
      <3>1. cursor \in Nat \ {0}
        BY DEF CursorOK
      <3> QED
        BY <2>1, <2>2, <3>1, ChainType
    <2>4. Chain[cursor].nb_variables \in Nat
      BY <2>2, <2>3, ChainType
    <2>5. DeclaredBefore(scanner, cursor + 1) =
             1 .. var_index + Chain[cursor].nb_variables
      BY <2>1, <2>2, <2>3, NextDeclared
    <2> QED
      BY <2>1, <2>4, <2>5
  <1>2. CASE MemoryScanned
    <2>1. /\ UNCHANGED <<scanner, var_index>>
          /\ phase = "memory" /\ phase' = "eval" /\ cursor' = 1
      BY <1>2 DEF MemoryScanned, config
    <2>2. DeclaredBefore(scanner, 1) = {} /\ 1 .. 0 = {}
      <3>1. 1 .. 1 - 1 = {}
        OBVIOUS
      <3> QED
        BY <3>1 DEF DeclaredBefore
    <2> QED
      BY <2>1, <2>2
  <1>3. CASE StartScan
    BY <1>3 DEF StartScan, config
  <1>4. CASE ScanRegion
    BY <1>4 DEF ScanRegion, config
  <1>5. CASE JudgesGlobal \/ JudgesRule \/ NoScanGlobalsKnown
    BY <1>5 DEF JudgesGlobal, JudgesRule, Judged, NoScanGlobalsKnown, config
  <1>6. CASE GivesUp
    BY <1>6 DEF GivesUp, FallBack, config
  <1>7. CASE Ends
    BY <1>7 DEF Ends, config
  <1>8. CASE UNCHANGED vars
    BY <1>8 DEF vars
  <1> QED
    BY <1>1, <1>2, <1>3, <1>4, <1>5, <1>6, <1>7, <1>8 DEF Moves

\* The slices the rule at the cursor is given are its own strings and all their
\* matches.
LEMMA OwnSlices ==
    ASSUME MatchesInv, StringsInOrder(scanner), phase = "eval", cursor <= Len(Chain)
    PROVE  /\ Own(scanner.variables) = OwnVariables(cursor)
           /\ Own(matches) = OwnMatches(cursor)
           /\ var_index + Chain[cursor].nb_variables <= Len(matches)
  <1> DEFINE n == Chain[cursor].nb_variables
             variables == scanner.variables
             T == Range(matches)
  <1>1. phase = "eval" /\ cursor <= Len(Chain)
    OBVIOUS
  <1>2. Chain = ChainOf(scanner)
    BY DEF Chain, ChainOf
  <1>3. ScannerOK(scanner) /\ cursor \in Nat \ {0} /\ var_index \in Nat
        /\ DeclaredBefore(scanner, cursor) = 1 .. var_index
    BY <1>1 DEF MatchesInv, IInv, CursorOK, HandedOutOK
  <1>4. cursor \in DOMAIN ChainOf(scanner) /\ n \in Nat
    BY <1>1, <1>2, <1>3, ChainType
  <1>5. DeclaredBy(scanner, cursor) = var_index + 1 .. var_index + n
    BY <1>2, <1>3, <1>4, NextDeclared
  <1>6. /\ variables \in Seq(Range(variables)) /\ Len(variables) \in Nat
        /\ DOMAIN variables = 1 .. Len(variables)
    BY VariablesType DEF MatchesInv
  <1>7. matches \in Seq(T) /\ Len(matches) = Len(variables)
    <2>1. matches = [v \in DOMAIN variables |-> matches[v]]
      BY DEF MatchesInv, FoundOK
    <2>2. \A v \in DOMAIN matches : matches[v] \in Range(matches)
      BY DEF Range
    <2> HIDE DEF T, variables
    <2>3. matches \in [1 .. Len(variables) -> Range(matches)]
      BY <1>6, <2>1, <2>2
    <2>4. matches \in Seq(Range(matches)) /\ Len(matches) = Len(variables)
      BY <1>6, <2>3
    <2> QED
      BY <2>4 DEF T
  <1>8. var_index + n <= Len(variables)
    <2>1. CASE n = 0
      <3>1. var_index > 0 => var_index \in DOMAIN variables
        <4>1. var_index > 0 => var_index \in DeclaredBefore(scanner, cursor)
          BY <1>3
        <4>2. DeclaredBefore(scanner, cursor) \subseteq DOMAIN variables
          BY DEF DeclaredBefore, DeclaredBy
        <4> QED
          BY <4>1, <4>2
      <3> QED
        BY <1>3, <1>6, <2>1, <3>1
    <2>2. CASE n # 0
      <3>1. var_index + n \in DeclaredBy(scanner, cursor)
        BY <1>3, <1>4, <1>5, <2>2
      <3>2. var_index + n \in DOMAIN variables
        BY <3>1 DEF DeclaredBy
      <3> QED
        BY <1>6, <3>2
    <2> QED
      BY <2>1, <2>2
  <1>9. OwnVariables(cursor) = Only(variables, var_index + 1 .. var_index + n)
    BY <1>2, <1>5 DEF OwnVariables, DeclaredBy
  <1>10. Own(variables) = SubSeq(variables, var_index + 1, var_index + n)
         /\ Own(matches) = SubSeq(matches, var_index + 1, var_index + n)
    BY DEF Own
  <1>11. \A v \in DOMAIN variables : matches[v] = AllMatchesOf(variables[v])
    BY <1>1 DEF MatchesInv, FoundOK
  <1> HIDE DEF n, variables, T
  <1>12. OwnVariables(cursor) = [i \in 1 .. n |-> variables[var_index + i]]
    BY <1>3, <1>4, <1>6, <1>8, <1>9, OnlySlice
  <1>13. Own(variables) = [i \in 1 .. n |-> variables[var_index + i]]
    BY <1>3, <1>4, <1>6, <1>8, <1>10, Slice
  <1>14. Own(matches) = [i \in 1 .. n |-> matches[var_index + i]]
    BY <1>3, <1>4, <1>7, <1>8, <1>10, Slice
  <1>15. \A i \in 1 .. n : var_index + i \in DOMAIN variables
    BY <1>3, <1>4, <1>6, <1>8
  <1>16. OwnMatches(cursor) = [i \in 1 .. n |-> AllMatchesOf(variables[var_index + i])]
    BY <1>12 DEF OwnMatches
  <1>17. OwnMatches(cursor) = [i \in 1 .. n |-> matches[var_index + i]]
    BY <1>11, <1>15, <1>16
  <1> QED
    BY <1>7, <1>8, <1>12, <1>13, <1>14, <1>17 DEF variables, n

\* What a reported rule should list.
Listed(i) == build_matched_rule(i, OwnVariables(i), OwnMatches(i)).matches

\* A report is right when it lists this, or nothing in the mode that allows it.
ListsOwn(reported) ==
    reported.matches \in (IF params.compute_full_matches
                          THEN {Listed(reported.rule)}
                          ELSE {Listed(reported.rule), <<>>})

AllListOwn ==
    \A k, reported :
        k \in DOMAIN matched_rules /\ reported = matched_rules[k] => ListsOwn(reported)

LEMMA OwnIsListed == MatchesAreOwn <=> AllListOwn
  BY DEF MatchesAreOwn, AllListOwn, ListsOwn, Listed

\* This depends on the scanner, the input and the parameters only.
LEMMA SameListed ==
    ASSUME UNCHANGED <<scanner, input, params>>
    PROVE  \A i : Listed(i)' = Listed(i)
  BY DEF Listed, build_matched_rule, OwnVariables, OwnMatches, AllMatchesOf, Chain,
         Only

LEMMA SameOwn ==
    ASSUME UNCHANGED <<scanner, input, params>>
    PROVE  MatchesAreOwn' <=> \A k \in DOMAIN matched_rules' : ListsOwn(matched_rules'[k])
  <1>1. MatchesAreOwn' <=> AllListOwn'
    BY OwnIsListed, PTL
  <1>2. \A x : ListsOwn(x)' <=> ListsOwn(x)
    BY SameListed DEF ListsOwn
  <1> QED
    BY <1>1, <1>2 DEF AllListOwn

\* The report of a rule that is given no matches lists none.
LEMMA NothingShown ==
    \A i : build_matched_rule(i, <<>>, <<>>).rule = i
           /\ build_matched_rule(i, <<>>, <<>>).matches = <<>>
  <1> TAKE i
  <1> DEFINE nothing == [v \in DOMAIN <<>> |-> v]
             public == {v \in DOMAIN <<>> : ~<<>>[v].is_private /\ <<>>[v] # <<>>}
  <1>1. DOMAIN <<>> = {}
    OBVIOUS
  <1>2. nothing = <<>>
    BY <1>1
  <1>3. <<>> \in Seq({}) /\ Len(<<>>) = 0
    OBVIOUS
  <1>4. Pieces(<<>>, public) = <<>>
    BY <1>1 DEF Pieces
  <1>5. FlattenSeq(<<>>) = <<>>
    <2>1. <<>> \in Seq(Seq({}))
      OBVIOUS
    <2>2. Prefix(<<>>, 0) = <<>> /\ FlattenSeq(<<>>) = Prefix(<<>>, Len(<<>>))
      BY <2>1, PrefixSteps
    <2> QED
      BY <1>3, <2>2
  <1>6. Only(<<>>, public) = <<>>
    BY <1>4, <1>5 DEF Only, Pieces
  <1>7. Only(nothing, public) = <<>>
    BY <1>2, <1>6
  <1> QED
    BY <1>1, <1>7 DEF build_matched_rule

\* A report that grows by a rule listing what it should, or nothing in the mode
\* that allows it.
LEMMA OwnGrows ==
    ASSUME IInv, MatchesAreOwn, UNCHANGED <<scanner, input, params>>,
           NEW matched, NEW variables, NEW var_matches,
           matched_rules' = Report(cursor, matched, variables, var_matches),
           \/ variables = OwnVariables(cursor) /\ var_matches = OwnMatches(cursor)
           \/ variables = <<>> /\ var_matches = <<>> /\ ~params.compute_full_matches
    PROVE  MatchesAreOwn'
  <1> DEFINE m == matched_rules
             x == build_matched_rule(cursor, variables, var_matches)
  <1>1. \A k \in DOMAIN m : ListsOwn(m[k])
    BY OwnIsListed DEF AllListOwn
  <1>2. SUFFICES \A k \in DOMAIN m' : ListsOwn(m'[k])
    BY SameOwn
  <1>3. ListsOwn(x)
    <2>1. x.rule = cursor
      BY DEF build_matched_rule
    <2>2. CASE variables = <<>> /\ var_matches = <<>> /\ ~params.compute_full_matches
      BY <2>2, NothingShown DEF ListsOwn
    <2>3. CASE variables = OwnVariables(cursor) /\ var_matches = OwnMatches(cursor)
      <3>1. x.matches = Listed(cursor)
        BY <2>3 DEF Listed
      <3> HIDE DEF x
      <3> QED
        BY <2>1, <3>1 DEF ListsOwn
    <2> QED
      BY <2>2, <2>3
  <1>4. m' = m \/ m' = Append(m, x)
    BY DEF Report
  <1> HIDE DEF x
  <1>5. CASE m' = Append(m, x)
    <2>1. /\ DOMAIN m = 1 .. Len(m) /\ Len(m) \in Nat
          /\ DOMAIN Append(m, x) = 1 .. Len(m) + 1
          /\ \A k \in 1 .. Len(m) : Append(m, x)[k] = m[k]
          /\ Append(m, x)[Len(m) + 1] = x
      BY AppendSeq DEF IInv, ReportOK
    <2>2. \A k \in 1 .. Len(m) + 1 : k \in 1 .. Len(m) \/ k = Len(m) + 1
      BY <2>1
    <2> QED
      BY <1>1, <1>3, <1>5, <2>1, <2>2
  <1> QED
    BY <1>1, <1>4, <1>5

LEMMA KeptOwn ==
    ASSUME MatchesAreOwn, UNCHANGED <<scanner, input, params, matched_rules>>
    PROVE  MatchesAreOwn'
  BY SameOwn, OwnIsListed DEF AllListOwn

LEMMA StepMatches ==
    ASSUME MatchesInv, StringsInOrder(scanner), [Moves]_vars
    PROVE  MatchesInv'
  <1> USE DEF MatchesInv
  <1>1. IInv'
    BY StepInv
  <1>2. FoundOK'
    BY FoundSteps
  <1>3. HandedOutOK' /\ ModeOK'
    BY HandedOutSteps, ModeSteps
  <1>4. MatchesAreOwn'
    <2>1. UNCHANGED <<scanner, input, params>>
      BY DEF Moves, vars, config, StartScan, NoScanGlobalsKnown, ScanRegion,
             MemoryScanned, JudgesGlobal, JudgesRule, Judges, Judged, GivesUp,
             FallBack, Ends
    <2>2. CASE JudgesGlobal
      BY <2>1, <2>2, OwnGrows
           DEF JudgesGlobal, Judged, ModeOK, can_use_no_scan_optimization
    <2>3. CASE JudgesRule
      BY <2>1, <2>3, OwnGrows
           DEF JudgesRule, Judged, ModeOK, can_use_no_scan_optimization
    <2>4. CASE Judges
      <3>1. phase = "eval" /\ cursor <= Len(Chain)
        BY <2>4 DEF Judges
      <3>2. Own(scanner.variables) = OwnVariables(cursor)
            /\ Own(matches) = OwnMatches(cursor)
        BY <3>1, OwnSlices
      <3> QED
        BY <2>1, <2>4, <3>2, OwnGrows DEF Judges, Judged
    <2>5. ASSUME matched_rules' \in {matched_rules, <<>>}
          PROVE  MatchesAreOwn'
      <3>1. CASE matched_rules' = <<>>
        BY <3>1 DEF MatchesAreOwn
      <3>2. CASE matched_rules' = matched_rules
        BY <2>1, <3>2, KeptOwn
      <3> QED
        BY <2>5, <3>1, <3>2
    <2>6. ASSUME ~JudgesGlobal, ~JudgesRule, ~Judges
          PROVE  matched_rules' \in {matched_rules, <<>>}
      BY <2>6 DEF Moves, vars, StartScan, NoScanGlobalsKnown, ScanRegion,
             MemoryScanned, GivesUp, FallBack, Ends
    <2> QED
      BY <2>2, <2>3, <2>4, <2>5, <2>6
  <1> QED
    BY <1>1, <1>2, <1>3, <1>4

-----------------------------------------------------------------------------
(* What a scan keeps of the regions: the entrypoint and the values of the     *)
(* modules are those of the first region that has them.                       *)

\* The regions that the scan has read.
Seen(k) ==
    \/ phase = "eval"
    \/ phase = "memory" /\ k < cursor
    \/ input.direct /\ phase # "start"
SeenRegions == {k \in FetchedRegions : Seen(k)}

ReadOK ==
    phase # "done" =>
        /\ entrypoint = IF input.direct THEN Undefined ELSE EntrypointIn(SeenRegions)
        /\ module_values = IF input.direct \/ params.modules_dynamic_values
                           THEN ModulesIn(SeenRegions) ELSE NoModuleValues(input)

LEMMA NoneDefined ==
    ASSUME NEW f, DOMAIN f = {}
    PROVE  FirstDefined(f) = Undefined
  BY DEF FirstDefined

\* A position after the others gives its value where they have none.
LEMMA NextDefined ==
    ASSUME NEW f, NEW g, NEW S \in SUBSET Nat, NEW c \in Nat, \A k \in S : k < c,
           DOMAIN f = S, DOMAIN g = S \cup {c}, \A k \in S : g[k] = f[k]
    PROVE  FirstDefined(g) =
               IF FirstDefined(f) = Undefined THEN g[c] ELSE FirstDefined(f)
  <1> DEFINE D == {k \in S : f[k] # Undefined}
             N == {k \in S \cup {c} : g[k] # Undefined}
  <1>1. FirstDefined(f) = IF D = {} THEN Undefined ELSE f[Min(D)]
    BY DEF FirstDefined
  <1>2. FirstDefined(g) = IF N = {} THEN Undefined ELSE g[Min(N)]
    BY DEF FirstDefined
  <1>3. D \in SUBSET Nat /\ N \in SUBSET Nat /\ D \subseteq S /\ D \subseteq N
        /\ N \subseteq D \cup {c}
    OBVIOUS
  <1>4. c \in N <=> g[c] # Undefined
    OBVIOUS
  <1>5. \A k \in D : f[k] # Undefined /\ k < c
    OBVIOUS
  <1> HIDE DEF D, N
  <1>6. CASE D = {}
    <2>1. CASE N = {}
      BY <1>1, <1>2, <1>4, <1>6, <2>1
    <2>2. CASE N # {}
      <3>1. Min(N) \in N
        BY <1>3, <2>2, MinIsLeast
      <3>2. Min(N) = c
        BY <1>3, <1>6, <3>1
      <3> QED
        BY <1>1, <1>2, <1>6, <2>2, <3>2
    <2> QED
      BY <2>1, <2>2
  <1>7. CASE D # {}
    <2>1. N # {} /\ Min(D) \in D /\ Min(N) \in N
          /\ (\A k \in D : Min(D) <= k) /\ (\A k \in N : Min(N) <= k)
      BY <1>3, <1>7, MinIsLeast
    <2>2. Min(N) <= Min(D) /\ Min(D) < c /\ Min(D) \in Nat /\ Min(N) \in Nat
      BY <1>3, <1>5, <2>1
    <2>3. Min(N) \in D
      BY <1>3, <2>1, <2>2
    <2>4. Min(N) = Min(D)
      BY <2>1, <2>2, <2>3
    <2> QED
      BY <1>1, <1>2, <1>3, <1>5, <1>7, <2>1, <2>4
  <1> QED
    BY <1>6, <1>7

\* No region has been read, or one more.
LEMMA FirstOfRegions ==
    /\ EntrypointIn({}) = Undefined
    /\ ModulesIn({}) = NoModuleValues(input)
    /\ \A S \in SUBSET Nat : \A c \in Nat : (\A k \in S : k < c) =>
          /\ EntrypointIn(S \cup {c}) =
                IF EntrypointIn(S) = Undefined THEN input.regions[c].entrypoint
                ELSE EntrypointIn(S)
          /\ ModulesIn(S \cup {c}) = ScanModules(ModulesIn(S), input.regions[c])
  <1>1. EntrypointIn({}) = Undefined
    BY NoneDefined DEF EntrypointIn
  <1>2. ModulesIn({}) = NoModuleValues(input)
    <2>1. \A m : FirstDefined([k \in {} |-> input.regions[k].modules[m]]) = Undefined
      BY NoneDefined
    <2>2. DOMAIN NoModuleValues(input) = DOMAIN input.regions[1].modules
      BY DEF NoModuleValues
    <2> QED
      BY <2>1, <2>2 DEF ModulesIn, NoModuleValues
  <1>3. ASSUME NEW S \in SUBSET Nat, NEW c \in Nat, \A k \in S : k < c
        PROVE  /\ EntrypointIn(S \cup {c}) =
                      IF EntrypointIn(S) = Undefined THEN input.regions[c].entrypoint
                      ELSE EntrypointIn(S)
               /\ ModulesIn(S \cup {c}) = ScanModules(ModulesIn(S), input.regions[c])
    <2>1. ASSUME NEW f, NEW g, DOMAIN f = S, DOMAIN g = S \cup {c},
                 \A k \in S : g[k] = f[k]
          PROVE  FirstDefined(g) =
                    IF FirstDefined(f) = Undefined THEN g[c] ELSE FirstDefined(f)
      BY <1>3, <2>1, NextDefined
    <2>2. EntrypointIn(S \cup {c}) =
             IF EntrypointIn(S) = Undefined THEN input.regions[c].entrypoint
             ELSE EntrypointIn(S)
      <3> DEFINE f == [k \in S |-> input.regions[k].entrypoint]
                 g == [k \in S \cup {c} |-> input.regions[k].entrypoint]
      <3>1. /\ DOMAIN f = S /\ DOMAIN g = S \cup {c}
            /\ \A k \in S : g[k] = f[k]
            /\ g[c] = input.regions[c].entrypoint
        OBVIOUS
      <3>2. EntrypointIn(S) = FirstDefined(f) /\ EntrypointIn(S \cup {c}) = FirstDefined(g)
        BY DEF EntrypointIn
      <3> HIDE DEF f, g
      <3> QED
        BY <2>1, <3>1, <3>2
    <2>3. \A m : FirstDefined([k \in S \cup {c} |-> input.regions[k].modules[m]]) =
             IF FirstDefined([k \in S |-> input.regions[k].modules[m]]) = Undefined
             THEN input.regions[c].modules[m]
             ELSE FirstDefined([k \in S |-> input.regions[k].modules[m]])
      <3> TAKE m
      <3> DEFINE f == [k \in S |-> input.regions[k].modules[m]]
                 g == [k \in S \cup {c} |-> input.regions[k].modules[m]]
      <3>1. /\ DOMAIN f = S /\ DOMAIN g = S \cup {c}
            /\ \A k \in S : g[k] = f[k]
            /\ g[c] = input.regions[c].modules[m]
        OBVIOUS
      <3> HIDE DEF f, g
      <3>2. FirstDefined(g) =
               IF FirstDefined(f) = Undefined THEN g[c] ELSE FirstDefined(f)
        BY <2>1, <3>1
      <3> QED
        BY <3>1, <3>2 DEF f, g
    <2> QED
      BY <2>2, <2>3 DEF ModulesIn, ScanModules
  <1> QED
    BY <1>1, <1>2, <1>3

LEMMA StartedRead == Started => ReadOK
  <1> SUFFICES ASSUME Started
               PROVE  ReadOK
    OBVIOUS
  <1>1. /\ phase = "start" /\ entrypoint = Undefined
        /\ module_values = NoModuleValues(input)
    BY DEF Started
  <1>2. SeenRegions = {}
    BY <1>1 DEF SeenRegions, Seen
  <1> QED
    BY <1>1, <1>2, FirstOfRegions DEF ReadOK

LEMMA ReadSteps ==
    ASSUME IInv, InputOK(input), ReadOK, [Moves]_vars
    PROVE  ReadOK'
  <1>0. /\ FetchedRegions \in SUBSET (Nat \ {0})
        /\ cursor \in Nat \ {0}
        /\ input.direct => FetchedRegions = {1}
    <2>1. IsSeq(input.regions)
      BY DEF InputOK
    <2>2. DOMAIN input.regions = 1 .. Len(input.regions) /\ Len(input.regions) \in Nat
      BY <2>1 DEF IsSeq
    <2> QED
      BY <2>2 DEF FetchedRegions, InputOK, IInv, CursorOK
  \* The regions read stay the same, and nothing is read.
  <1>1. ASSUME UNCHANGED <<input, params, entrypoint, module_values>>,
               phase # "done", SeenRegions' = SeenRegions
        PROVE  ReadOK'
    <2>1. /\ EntrypointIn(SeenRegions)' = EntrypointIn(SeenRegions)
          /\ ModulesIn(SeenRegions)' = ModulesIn(SeenRegions)
          /\ NoModuleValues(input)' = NoModuleValues(input)
      BY <1>1 DEF EntrypointIn, ModulesIn, NoModuleValues
    <2> QED
      BY <1>1, <2>1 DEF ReadOK
  <1>2. UNCHANGED input => FetchedRegions' = FetchedRegions
    BY DEF FetchedRegions
  <1>9. ASSUME UNCHANGED input, \A k \in FetchedRegions : Seen(k)' <=> Seen(k)
        PROVE  SeenRegions' = SeenRegions
    <2>1. SeenRegions' = {k \in FetchedRegions : Seen(k)'}
      BY <1>2, <1>9 DEF SeenRegions
    <2> QED
      BY <1>9, <2>1 DEF SeenRegions
  <1>3. CASE StartScan
    <2>1. /\ UNCHANGED <<input, params, entrypoint, cursor>>
          /\ phase = "start" /\ phase' \in {"no_scan_globals", "memory"} /\ cursor = 1
          /\ module_values' = IF input.direct
                              THEN ScanModules(module_values, input.regions[1])
                              ELSE module_values
      BY <1>3 DEF StartScan, config, IInv, CursorOK
    <2>2. SeenRegions = {}
      BY <2>1 DEF SeenRegions, Seen
    <2>3. CASE ~input.direct
      <3>1. \A k \in FetchedRegions : ~Seen(k) /\ ~Seen(k)'
        BY <1>0, <2>1, <2>3 DEF Seen
      <3>2. SeenRegions' = SeenRegions
        BY <1>9, <2>1, <3>1
      <3> QED
        BY <1>1, <2>1, <2>3, <3>2
    <2>4. CASE input.direct
      <3>1. SeenRegions' = {1}
        BY <1>0, <1>2, <2>1, <2>4 DEF SeenRegions, Seen
      <3>2. module_values' = ScanModules(ModulesIn({}), input.regions[1])
        BY <2>1, <2>2, <2>4 DEF ReadOK
      <3>3. module_values' = ModulesIn({1})
        <4>1. {} \in SUBSET Nat /\ 1 \in Nat /\ {} \cup {1} = {1}
          OBVIOUS
        <4> QED
          BY <3>2, <4>1, FirstOfRegions
      <3>4. module_values' = ModulesIn(SeenRegions)'
        BY <2>1, <3>1, <3>3 DEF ModulesIn, NoModuleValues
      <3> QED
        BY <2>1, <2>4, <3>4 DEF ReadOK
    <2> QED
      BY <2>3, <2>4
  <1>4. CASE ScanRegion
    <2> DEFINE region == input.regions[cursor]
    <2>1. /\ UNCHANGED <<input, params, phase>> /\ phase = "memory"
          /\ cursor <= Len(input.regions) /\ cursor' = cursor + 1
          /\ IF region.fetched
             THEN /\ entrypoint' = IF ~input.direct /\ entrypoint = Undefined
                                   THEN region.entrypoint ELSE entrypoint
                  /\ module_values' = IF ~input.direct /\ params.modules_dynamic_values
                                      THEN ScanModules(module_values, region)
                                      ELSE module_values
             ELSE UNCHANGED <<entrypoint, module_values>>
      BY <1>4 DEF ScanRegion, config, found
    <2>2. CASE input.direct
      <3>1. SeenRegions' = SeenRegions
        BY <1>2, <2>1, <2>2 DEF SeenRegions, Seen
      <3>2. UNCHANGED <<entrypoint, module_values>>
        BY <2>1, <2>2
      <3> QED
        BY <1>1, <2>1, <3>1, <3>2
    <2>3. CASE ~input.direct /\ ~region.fetched
      <3>1. cursor \notin FetchedRegions
        BY <2>3 DEF FetchedRegions
      <3>2. \A k \in FetchedRegions : Seen(k)' <=> Seen(k)
        BY <1>0, <2>1, <2>3, <3>1 DEF Seen
      <3>3. SeenRegions' = SeenRegions
        BY <1>9, <2>1, <3>2
      <3> QED
        BY <1>1, <2>1, <2>3, <3>3
    <2>4. CASE ~input.direct /\ region.fetched
      <3>1. cursor \in FetchedRegions
        <4>1. IsSeq(input.regions)
          BY DEF InputOK
        <4>2. cursor \in DOMAIN input.regions
          BY <1>0, <2>1, <4>1 DEF IsSeq
        <4> QED
          BY <2>4, <4>2 DEF FetchedRegions
      <3>2. SeenRegions' = SeenRegions \cup {cursor}
        <4>1. \A k \in FetchedRegions : Seen(k)' <=> Seen(k) \/ k = cursor
          <5>1. \A k \in FetchedRegions :
                   (Seen(k)' <=> k < cursor + 1) /\ (Seen(k) <=> k < cursor)
            <6>1. ~input'.direct /\ phase' = "memory" /\ cursor' = cursor + 1
              BY <2>1, <2>4
            <6> QED
              BY <2>1, <2>4, <6>1 DEF Seen
          <5>2. cursor \in Nat /\ \A k \in FetchedRegions : k \in Nat
            BY <1>0
          <5>3. \A k \in FetchedRegions : k < cursor + 1 <=> k < cursor \/ k = cursor
            BY <5>2
          <5> QED
            BY <5>1, <5>3
        <4>2. SeenRegions' = {k \in FetchedRegions : Seen(k)'}
          BY <1>2, <2>1 DEF SeenRegions
        <4> QED
          BY <3>1, <4>1, <4>2 DEF SeenRegions
      <3>3. SeenRegions \in SUBSET Nat /\ \A k \in SeenRegions : k < cursor
        BY <1>0, <2>1, <2>4 DEF SeenRegions, Seen
      <3>4. /\ EntrypointIn(SeenRegions \cup {cursor}) =
                  IF EntrypointIn(SeenRegions) = Undefined THEN region.entrypoint
                  ELSE EntrypointIn(SeenRegions)
            /\ ModulesIn(SeenRegions \cup {cursor}) =
                  ScanModules(ModulesIn(SeenRegions), region)
        <4> HIDE DEF region
        <4>1. region = input.regions[cursor] /\ cursor \in Nat
          BY <1>0 DEF region
        <4> QED
          BY <3>3, <4>1, FirstOfRegions
      <3>5. entrypoint = EntrypointIn(SeenRegions)
            /\ module_values = IF params.modules_dynamic_values
                               THEN ModulesIn(SeenRegions) ELSE NoModuleValues(input)
        BY <2>1, <2>4 DEF ReadOK
      <3> HIDE DEF region
      <3>6. entrypoint' = EntrypointIn(SeenRegions \cup {cursor})
            /\ module_values' = IF params.modules_dynamic_values
                                THEN ModulesIn(SeenRegions \cup {cursor})
                                ELSE NoModuleValues(input)
        BY <2>1, <2>4, <3>4, <3>5
      <3>7. /\ EntrypointIn(SeenRegions)' = EntrypointIn(SeenRegions \cup {cursor})
            /\ ModulesIn(SeenRegions)' = ModulesIn(SeenRegions \cup {cursor})
            /\ NoModuleValues(input)' = NoModuleValues(input)
        BY <2>1, <3>2 DEF EntrypointIn, ModulesIn, NoModuleValues
      <3> QED
        BY <2>1, <2>4, <3>6, <3>7 DEF ReadOK
    <2> QED
      BY <2>2, <2>3, <2>4
  <1>5. CASE MemoryScanned
    <2>1. /\ UNCHANGED <<input, params, entrypoint, module_values>>
          /\ phase = "memory" /\ phase' = "eval" /\ cursor > Len(input.regions)
      BY <1>5 DEF MemoryScanned, config, found
    <2>2. \A k \in FetchedRegions : k < cursor
      <3>1. IsSeq(input.regions)
        BY DEF InputOK
      <3> QED
        BY <1>0, <2>1, <3>1 DEF FetchedRegions, IsSeq
    <2>3. SeenRegions' = SeenRegions
      BY <1>2, <2>1, <2>2 DEF SeenRegions, Seen
    <2> QED
      BY <1>1, <2>1, <2>3
  <1>6. CASE JudgesGlobal \/ JudgesRule \/ Judges \/ NoScanGlobalsKnown
             \/ UNCHANGED vars
    <2>1. /\ UNCHANGED <<input, params, entrypoint, module_values>>
          /\ \/ phase' = phase /\ phase # "memory"
             \/ phase' = phase /\ cursor' = cursor
             \/ {phase, phase'} \subseteq {"no_scan_globals", "no_scan_rules"}
      BY <1>6 DEF JudgesGlobal, JudgesRule, Judges, Judged, NoScanGlobalsKnown,
             config, found, vars
    <2>2. SeenRegions' = SeenRegions
      BY <1>2, <2>1 DEF SeenRegions, Seen
    <2>3. CASE phase # "done"
      BY <1>1, <2>1, <2>2, <2>3
    <2>4. CASE phase = "done"
      BY <2>1, <2>4 DEF ReadOK
    <2> QED
      BY <2>3, <2>4
  <1>7. CASE GivesUp
    <2>1. /\ UNCHANGED <<input, params, entrypoint, module_values>>
          /\ phase \in {"no_scan_globals", "no_scan_rules"}
          /\ phase' = "memory" /\ cursor' = 1
      BY <1>7 DEF GivesUp, FallBack, config, found
    <2>2. \A k \in FetchedRegions : Seen(k)' <=> Seen(k)
      BY <1>0, <2>1 DEF Seen
    <2>3. SeenRegions' = SeenRegions
      BY <1>9, <2>1, <2>2
    <2> QED
      BY <1>1, <2>1, <2>3
  <1>8. CASE Ends
    BY <1>8 DEF Ends, ReadOK
  <1> QED
    BY <1>3, <1>4, <1>5, <1>6, <1>7, <1>8 DEF Moves

-----------------------------------------------------------------------------
(* The outcomes of the rules. *)

RuleOutcomes == {"true", "false", "Undecidable", "Timeout", "Panic"}

\* The results that rule i reads by index.
ResultsBefore(u, i) == [k \in 1 .. i - 1 - NbGlobals |-> u[NbGlobals + k] = "true"]

\* The outcome of rule i, from those results.
OutcomeOf(u, i) ==
    evaluate_rule(ReferenceContext(i, ResultsBefore(u, i)), Chain[i].condition)

\* Outcomes up to a rule, each from those before it.
IsUpto(f, m) ==
    f = [i \in 0 .. m |-> IF i = 0 THEN <<>>
                          ELSE Append(f[i - 1], OutcomeAfter(f[i - 1], i))]

LEMMA UptoExists == \A m \in Nat : \E f : IsUpto(f, m)
  <1> DEFINE S == {m \in Nat : \E f : IsUpto(f, m)}
             After(h, i) == Append(h, OutcomeAfter(h, i))
             Next_(f, i) == IF i = 0 THEN <<>> ELSE After(f[i - 1], i)
  <1>0. \A f, m : IsUpto(f, m) <=> f = [i \in 0 .. m |-> Next_(f, i)]
    BY DEF IsUpto
  <1> HIDE DEF After
  <1>1. 0 \in S
    <2> DEFINE f == [i \in 0 .. 0 |-> <<>>]
    <2>1. f = [i \in 0 .. 0 |-> Next_(f, i)]
      OBVIOUS
    <2> HIDE DEF f, Next_
    <2> QED
      BY <1>0, <2>1
  <1>2. ASSUME NEW m \in Nat, m \in S
        PROVE  m + 1 \in S
    <2>1. PICK f : IsUpto(f, m)
      BY <1>2
    <2> DEFINE g == [i \in 0 .. m + 1 |-> IF i = m + 1 THEN After(f[m], i) ELSE f[i]]
    <2>2. \A i \in 0 .. m : f[i] = Next_(f, i)
      <3>1. f = [i \in 0 .. m |-> Next_(f, i)]
        BY <1>0, <2>1
      <3> HIDE DEF Next_
      <3> QED
        BY <3>1
    <2>3. ASSUME NEW i \in 0 .. m + 1
          PROVE  g[i] = Next_(g, i)
      <3>1. CASE i = m + 1
        <4>1. g[i - 1] = f[m] /\ i # 0
          BY <3>1
        <4>2. g[i] = After(f[m], i)
          BY <3>1
        <4> HIDE DEF g
        <4> QED
          BY <4>1, <4>2
      <3>2. CASE i # m + 1
        <4>1. i \in 0 .. m /\ (i # 0 => i - 1 \in 0 .. m)
          BY <3>2
        <4>2. g[i] = f[i] /\ (i # 0 => g[i - 1] = f[i - 1])
          BY <3>2, <4>1
        <4> HIDE DEF g
        <4> QED
          BY <2>2, <4>1, <4>2
      <3> QED
        BY <3>1, <3>2
    <2>4. g = [i \in 0 .. m + 1 |-> g[i]]
      OBVIOUS
    <2> HIDE DEF g, Next_
    <2>5. g = [i \in 0 .. m + 1 |-> Next_(g, i)]
      BY <2>3, <2>4
    <2> QED
      BY <1>0, <2>5
  <1> HIDE DEF S
  <1>3. Nat \subseteq S
    BY <1>1, <1>2, SetInduction
  <1> QED
    BY <1>3 DEF S

LEMMA SameBefore ==
    ASSUME NEW u, NEW w, NEW i,
           \A k \in 1 .. i - 1 - NbGlobals : u[NbGlobals + k] = w[NbGlobals + k]
    PROVE  ResultsBefore(u, i) = ResultsBefore(w, i)
  BY DEF ResultsBefore

LEMMA OutcomeKinds == \A ctx, e : evaluate_rule(ctx, e) \in RuleOutcomes
  BY RuleResults DEF RuleResult, RuleOutcomes

\* A list of outcomes, each of which is that of its rule after those before it.
AreOutcomes(u) ==
    /\ u \in Seq(RuleOutcomes) /\ Len(u) = Len(Chain)
    /\ \A i \in 1 .. Len(Chain) : u[i] = OutcomeOf(u, i)

LEMMA OutcomesAre ==
    ASSUME ScannerOK(scanner)
    PROVE  AreOutcomes(Outcomes)
  <1> DEFINE n == Len(Chain)
             F == CHOOSE f : IsUpto(f, n)
  <1>0. n \in Nat /\ NbGlobals \in Nat
    BY Counts
  <1>1. IsUpto(F, n)
    <2>1. \E f : IsUpto(f, n)
      BY <1>0, UptoExists
    <2> HIDE DEF n
    <2> QED
      BY <2>1
  <1>2. Outcomes = F[n]
    BY DEF Outcomes, IsUpto
  <1> HIDE DEF F
  <1>3. /\ F[0] = <<>>
        /\ \A i \in 0 .. n - 1 :
              F[i + 1] = Append(F[i], OutcomeAfter(F[i], i + 1))
    <2>1. \A i \in 0 .. n : F[i] = IF i = 0 THEN <<>>
                                   ELSE Append(F[i - 1], OutcomeAfter(F[i - 1], i))
      BY <1>1 DEF IsUpto
    <2>2. F[0] = <<>>
      BY <1>0, <2>1
    <2>3. ASSUME NEW i \in 0 .. n - 1
          PROVE  F[i + 1] = Append(F[i], OutcomeAfter(F[i], i + 1))
      <3>1. i + 1 \in 0 .. n /\ i + 1 # 0 /\ (i + 1) - 1 = i
        BY <1>0
      <3> QED
        BY <2>1, <3>1
    <2> QED
      BY <2>2, <2>3
  <1> HIDE DEF n
  \* Each of these lists continues the one before it.
  <1> DEFINE UpTo(i) ==
                 /\ F[i] \in Seq(RuleOutcomes) /\ Len(F[i]) = i
                 /\ \A j \in 1 .. i : F[i][j] = OutcomeOf(F[i], j)
             S == {i \in Nat : i <= n => UpTo(i)}
  <1>4. 0 \in S
    <2>1. F[0] \in Seq(RuleOutcomes) /\ Len(F[0]) = 0
      BY <1>3
    <2>2. \A j \in 1 .. 0 : F[0][j] = OutcomeOf(F[0], j)
      OBVIOUS
    <2> QED
      BY <2>1, <2>2
  <1>5. ASSUME NEW i \in Nat, i \in S
        PROVE  i + 1 \in S
    <2> SUFFICES ASSUME i + 1 <= n
                 PROVE  UpTo(i + 1)
      OBVIOUS
    <2> DEFINE u == F[i]
               x == OutcomeAfter(u, i + 1)
               w == F[i + 1]
    <2>0. UpTo(i) /\ i \in 0 .. n - 1
      BY <1>0, <1>5
    <2>1. u \in Seq(RuleOutcomes) /\ Len(u) = i /\ w = Append(u, x)
          /\ \A j \in 1 .. i : u[j] = OutcomeOf(u, j)
      BY <1>3, <2>0
    <2>2. x = OutcomeOf(u, i + 1)
      BY DEF OutcomeAfter, OutcomeOf, ResultsBefore
    <2>3. x \in RuleOutcomes
      BY OutcomeKinds DEF OutcomeAfter
    <2> HIDE DEF u, x, w, UpTo
    <2>4. /\ w \in Seq(RuleOutcomes) /\ Len(w) = i + 1
          /\ \A j \in 1 .. i : w[j] = u[j]
          /\ w[i + 1] = x
      BY <2>1, <2>3
    <2>5. ASSUME NEW j \in 1 .. i + 1
          PROVE  OutcomeOf(w, j) = OutcomeOf(u, j)
      <3>1. \A k \in 1 .. j - 1 - NbGlobals : w[NbGlobals + k] = u[NbGlobals + k]
        BY <1>0, <2>4
      <3>2. ResultsBefore(w, j) = ResultsBefore(u, j)
        BY <3>1, SameBefore
      <3> QED
        BY <3>2 DEF OutcomeOf
    <2>6. ASSUME NEW j \in 1 .. i + 1
          PROVE  w[j] = OutcomeOf(w, j)
      <3>1. CASE j = i + 1
        BY <2>2, <2>4, <2>5, <3>1
      <3>2. CASE j # i + 1
        BY <2>1, <2>4, <2>5, <3>2
      <3> QED
        BY <3>1, <3>2
    <2> QED
      BY <2>4, <2>6 DEF UpTo, w
  <1> HIDE DEF UpTo
  <1>6. Nat \subseteq S
    <2> HIDE DEF S
    <2> QED
      BY <1>4, <1>5, SetInduction
  <1>7. UpTo(n)
    BY <1>0, <1>6
  <1> QED
    BY <1>2, <1>7 DEF UpTo, AreOutcomes, n

\* There is one such list.
LEMMA OneOutcomes ==
    ASSUME ScannerOK(scanner), NEW u, AreOutcomes(u), NEW w, AreOutcomes(w)
    PROVE  u = w
  <1> DEFINE n == Len(Chain)
             S == {i \in Nat : i <= n => \A j \in 1 .. i : u[j] = w[j]}
  <1>0. n \in Nat /\ NbGlobals \in Nat
    BY Counts
  <1> HIDE DEF n
  <1>1. 0 \in S
    OBVIOUS
  <1>2. ASSUME NEW i \in Nat, i \in S
        PROVE  i + 1 \in S
    <2> SUFFICES ASSUME i + 1 <= n
                 PROVE  \A j \in 1 .. i + 1 : u[j] = w[j]
      OBVIOUS
    <2>0. i <= n
      BY <1>0
    <2>1. \A j \in 1 .. i : u[j] = w[j]
      BY <1>2, <2>0
    <2>2. \A k \in 1 .. (i + 1) - 1 - NbGlobals : u[NbGlobals + k] = w[NbGlobals + k]
      BY <1>0, <2>1
    <2>3. ResultsBefore(u, i + 1) = ResultsBefore(w, i + 1)
      BY <2>2, SameBefore
    <2>4. u[i + 1] = OutcomeOf(u, i + 1) /\ w[i + 1] = OutcomeOf(w, i + 1)
      BY DEF AreOutcomes, n
    <2>5. u[i + 1] = w[i + 1]
      BY <2>3, <2>4 DEF OutcomeOf
    <2> QED
      BY <2>1, <2>5
  <1> HIDE DEF S
  <1>3. Nat \subseteq S
    BY <1>1, <1>2, SetInduction
  <1>4. \A j \in 1 .. n : u[j] = w[j]
    BY <1>0, <1>3 DEF S
  <1>5. /\ u \in Seq(RuleOutcomes) /\ w \in Seq(RuleOutcomes)
        /\ Len(u) = n /\ Len(w) = n
    BY DEF AreOutcomes, n
  <1> QED
    BY <1>4, <1>5

\* They depend on the scanner, the input and the parameters only.
LEMMA SameReference ==
    ASSUME UNCHANGED config
    PROVE  /\ Chain' = Chain /\ NbGlobals' = NbGlobals
           /\ \A i, previous :
                 ReferenceContext(i, previous)' = ReferenceContext(i, previous)
  <1>1. scanner' = scanner /\ input' = input /\ params' = params
    BY DEF config
  <1>2. Chain' = Chain /\ NbGlobals' = NbGlobals
    BY <1>1, SameRules
  <1>3. \A i : OwnMatches(i)' = OwnMatches(i)
    BY <1>1, <1>2 DEF OwnMatches, OwnVariables, AllMatchesOf, Only
  <1>4. FetchedRegions' = FetchedRegions
    BY <1>1 DEF FetchedRegions
  <1>5. EntrypointIn(FetchedRegions)' = EntrypointIn(FetchedRegions)
    BY <1>1, <1>4 DEF EntrypointIn
  <1>6. ModulesIn(FetchedRegions)' = ModulesIn(FetchedRegions)
    BY <1>1, <1>4 DEF ModulesIn, NoModuleValues
  <1>7. \A i, previous : ReferenceContext(i, previous)' = ReferenceContext(i, previous)
    BY <1>1, <1>3, <1>5, <1>6 DEF ReferenceContext, ScanContext, NoModuleValues
  <1> QED
    BY <1>2, <1>7

LEMMA OutcomesAreNow == ScannerOK(scanner) => AreOutcomes(Outcomes)
  BY OutcomesAre

LEMMA OutcomesAreNext == ScannerOK(scanner)' => AreOutcomes(Outcomes)'
  BY OutcomesAreNow, PTL

LEMMA SameOutcomes ==
    ASSUME ScannerOK(scanner), UNCHANGED config
    PROVE  Outcomes' = Outcomes
  <1>1. ScannerOK(scanner)'
    BY DEF config, ScannerOK
  <1>2. AreOutcomes(Outcomes)'
    BY <1>1, OutcomesAreNext
  <1>3. AreOutcomes(Outcomes')
    BY <1>2, SameReference DEF AreOutcomes, OutcomeOf, ResultsBefore
  <1> QED
    BY <1>3, OutcomesAre, OneOutcomes

-----------------------------------------------------------------------------
(* The contexts of the evaluations. *)

Offsets == [offset : Nat, length : Nat]

LEMMA FirstDefinedType ==
    ASSUME NEW T, NEW f, DOMAIN f \in SUBSET Nat,
           \A k \in DOMAIN f : f[k] \in T \cup {Undefined}
    PROVE  FirstDefined(f) \in T \cup {Undefined}
  <1> DEFINE D == {k \in DOMAIN f : f[k] # Undefined}
  <1>1. FirstDefined(f) = IF D = {} THEN Undefined ELSE f[Min(D)]
    BY DEF FirstDefined
  <1>2. D # {} => Min(D) \in D
    BY MinIsLeast
  <1> QED
    BY <1>1, <1>2

\* A scan of what the program is given.
Given == ScanOK(scanner, input) /\ ConditionsOK(scanner) /\ ValuesOK(input)

\* What it is given is what it may be given.
Chosen == scanner \in Scanners /\ input \in Inputs /\ params \in Params

LEMMA RegionPositions ==
    ASSUME Given
    PROVE  /\ DOMAIN input.regions = 1 .. Len(input.regions)
           /\ Len(input.regions) \in Nat
           /\ \A k \in DOMAIN input.regions : input.regions[k] \in Range(input.regions)
           /\ FetchedRegions \in SUBSET (Nat \ {0})
           /\ FetchedRegions \subseteq DOMAIN input.regions
           /\ input.direct => FetchedRegions = {1} /\ 1 \in DOMAIN input.regions
  <1>1. IsSeq(input.regions)
    BY DEF Given, ScanOK, InputOK
  <1>2. DOMAIN input.regions = 1 .. Len(input.regions) /\ Len(input.regions) \in Nat
    BY <1>1 DEF IsSeq
  <1>3. \A k \in DOMAIN input.regions : input.regions[k] \in Range(input.regions)
    BY DEF Range
  <1> QED
    BY <1>2, <1>3 DEF FetchedRegions, Given, ScanOK, InputOK

\* The values read in the regions are those of a context.
ModulesOK(values) ==
    \A i \in DOMAIN values : values[i] \in ModuleValues \cup {Undefined}

LEMMA RegionsValues ==
    ASSUME Given
    PROVE  /\ \A S \in SUBSET FetchedRegions :
                 /\ EntrypointIn(S) \in [int : Nat] \cup {Undefined}
                 /\ ModulesOK(ModulesIn(S))
           /\ ModulesOK(NoModuleValues(input))
  <1>1. ValuesOK(input)
    BY DEF Given
  <1>2. ASSUME NEW S \in SUBSET FetchedRegions
        PROVE  /\ EntrypointIn(S) \in [int : Nat] \cup {Undefined}
               /\ ModulesOK(ModulesIn(S))
    <2>1. S \in SUBSET Nat /\ \A k \in S : input.regions[k] \in Range(input.regions)
      BY RegionPositions
    <2>2. EntrypointIn(S) \in [int : Nat] \cup {Undefined}
      <3> DEFINE f == [k \in S |-> input.regions[k].entrypoint]
      <3>1. \A k \in S : f[k] \in [int : Nat] \cup {Undefined}
        BY <1>1, <2>1 DEF ValuesOK
      <3>2. DOMAIN f = S
        OBVIOUS
      <3> HIDE DEF f
      <3>3. FirstDefined(f) \in [int : Nat] \cup {Undefined}
        BY <2>1, <3>1, <3>2, FirstDefinedType
      <3> QED
        BY <3>3 DEF f, EntrypointIn
    <2>3. ASSUME NEW i \in DOMAIN ModulesIn(S)
          PROVE  ModulesIn(S)[i] \in ModuleValues \cup {Undefined}
      <3> DEFINE f == [k \in S |-> input.regions[k].modules[i]]
      <3>1. i \in DOMAIN NoModuleValues(input)
        BY DEF ModulesIn
      <3>2. DOMAIN f = S
        OBVIOUS
      <3>3. \A k \in S : f[k] \in ModuleValues \cup {Undefined}
        BY <1>1, <2>1, <3>1 DEF ValuesOK
      <3>4. ModulesIn(S)[i] = FirstDefined(f)
        BY <3>1 DEF ModulesIn
      <3> HIDE DEF f
      <3> QED
        BY <2>1, <3>2, <3>3, <3>4, FirstDefinedType
    <2> QED
      BY <2>2, <2>3 DEF ModulesOK
  <1>3. ModulesOK(NoModuleValues(input))
    <2>1. \A m \in DOMAIN NoModuleValues(input) : NoModuleValues(input)[m] = Undefined
      BY DEF NoModuleValues
    <2> QED
      BY <1>1, <2>1 DEF ModulesOK, ValuesOK
  <1> QED
    BY <1>2, <1>3

LEMMA ReadableType ==
    ASSUME Given
    PROVE  \A a \in DOMAIN Readable(input, params) : Readable(input, params)[a] \in Int
  <1> DEFINE read == Readable(input, params)
  <1>0. \A k \in DOMAIN input.regions : \A a \in DOMAIN input.regions[k].memory :
           input.regions[k].memory[a] \in Int
    BY RegionPositions DEF Given, ValuesOK
  <1>1. CASE input.direct
    <2>1. 1 \in DOMAIN input.regions /\ read = input.regions[1].memory
      BY <1>1, RegionPositions DEF Readable
    <2> QED
      BY <1>0, <2>1
  <1>2. CASE ~input.direct /\ ~params.can_refetch_regions
    <2>1. read = <<>>
      BY <1>2 DEF Readable
    <2> QED
      BY <2>1
  <1>3. CASE ~input.direct /\ params.can_refetch_regions
    <2> DEFINE fetched == {k \in DOMAIN input.regions : input.regions[k].fetched}
               Of(n) == {k \in fetched : n \in DOMAIN input.regions[k].memory}
               all == UNION {DOMAIN input.regions[k].memory : k \in fetched}
    <2>1. read = [n \in all |-> input.regions[Min(Of(n))].memory[n]]
      BY <1>3 DEF Readable
    <2>2. ASSUME NEW n \in all
          PROVE  input.regions[Min(Of(n))].memory[n] \in Int
      <3>1. Of(n) # {} /\ Of(n) \in SUBSET Nat
        BY RegionPositions
      <3>2. Min(Of(n)) \in Of(n)
        <4> HIDE DEF Of
        <4> QED
          BY <3>1, MinIsLeast
      <3>3. Min(Of(n)) \in DOMAIN input.regions
            /\ n \in DOMAIN input.regions[Min(Of(n))].memory
        BY <3>2
      <3> QED
        BY <1>0, <3>3
    <2> HIDE DEF all, Of
    <2> QED
      BY <2>1, <2>2
  <1> QED
    BY <1>1, <1>2, <1>3

LEMMA ScanContextOK ==
    ASSUME Given, NEW known \in BOOLEAN, NEW of \in Seq(Seq(Offsets)),
           NEW previous \in Seq(BOOLEAN),
           NEW first \in [int : Nat] \cup {Undefined},
           NEW values, ModulesOK(values)
    PROVE  ContextOK(ScanContext([known |-> known, of |-> of], previous, first, values))
  <1> DEFINE m == [known |-> known, of |-> of]
             c == ScanContext(m, previous, first, values)
  <1>1. /\ DOMAIN c = {"var_matches", "previous", "filesize", "entrypoint", "memory",
                       "modules", "externals", "expired", "overflow_checks"}
        /\ c.var_matches = m /\ c.previous = previous /\ c.entrypoint = first
        /\ c.memory = Readable(input, params) /\ c.modules = values
        /\ c.externals = input.externals
        /\ c.filesize = IF input.direct THEN Integer(input.size) ELSE Undefined
    BY DEF ScanContext
  <1>2. m \in [known : BOOLEAN, of : Seq(Seq(Offsets))]
    OBVIOUS
  <1>3. c.filesize \in [int : Nat] \cup {Undefined}
    BY <1>1 DEF Given, ValuesOK, Integer
  <1>4. \A i \in DOMAIN c.externals : c.externals[i] \in BoundValue
    BY <1>1 DEF Given, ValuesOK
  <1>5. \A a \in DOMAIN c.memory : c.memory[a] \in Int
    BY <1>1, ReadableType
  <1> HIDE DEF c, m
  <1>6. ContextOK(c)
    BY <1>1, <1>2, <1>3, <1>4, <1>5 DEF ContextOK, ModulesOK, Offsets
  <1> QED
    BY <1>6 DEF c, m

\* The matches of a rule, where its strings follow those of the rules before it.
LEMMA AllMatchesType ==
    ASSUME Given, NEW x \in Range(scanner.variables)
    PROVE  AllMatchesOf(x) \in Seq(Offsets)
  <1>1. ASSUME NEW k \in DOMAIN input.regions
        PROVE  FoundIn(input.regions[k], x) \in Seq(Offsets)
    <2> DEFINE region == input.regions[k]
               seen == region.found[x]
               e(m) == [seen[m] EXCEPT !.offset = @ + region.start]
    <2>1. region \in Range(input.regions)
      BY RegionPositions
    <2>2. seen \in Seq(Offsets) /\ region.start \in Nat
      BY <2>1 DEF Given, ScanOK, MatchesOK, ValuesOK, Offsets
    <2>3. FoundIn(region, x) = IF ~region.fetched THEN <<>>
                               ELSE [m \in DOMAIN seen |-> e(m)]
      BY DEF FoundIn
    <2>4. ASSUME NEW m \in DOMAIN seen
          PROVE  e(m) \in Offsets
      <3>1. seen[m] \in Offsets
        BY <2>2, ElementOfSeq
      <3>2. \A o \in Offsets, s \in Nat : [o EXCEPT !.offset = @ + s] \in Offsets
        BY DEF Offsets
      <3> HIDE DEF seen, region
      <3> QED
        BY <2>2, <3>1, <3>2
    <2>5. DOMAIN seen = 1 .. Len(seen) /\ Len(seen) \in Nat
      BY <2>2
    <2> HIDE DEF region, seen, e
    <2>6. [m \in DOMAIN seen |-> e(m)] \in Seq(Offsets)
      <3>1. [m \in DOMAIN seen |-> e(m)] \in [1 .. Len(seen) -> Offsets]
        BY <2>4, <2>5
      <3> QED
        BY <2>5, <3>1
    <2>7. FoundIn(region, x) \in Seq(Offsets)
      BY <2>3, <2>6
    <2> QED
      BY <2>7 DEF region
  <1>2. Shares(input, x) \in [1 .. Len(input.regions) -> Seq(Offsets)]
    BY <1>1, RegionPositions DEF Shares
  <1>3. Shares(input, x) \in Seq(Seq(Offsets))
    BY <1>2, RegionPositions
  <1> QED
    BY <1>3, AllMatches, FlattenSeqType

LEMMA OwnMatchesType ==
    ASSUME Given, StringsInOrder(scanner), NEW i \in DOMAIN Chain
    PROVE  /\ OwnMatches(i) \in Seq(Seq(Offsets))
           /\ Len(OwnMatches(i)) = Chain[i].nb_variables
  <1> DEFINE variables == scanner.variables
             n == Chain[i].nb_variables
  <1>1. Chain = ChainOf(scanner) /\ ScannerOK(scanner)
    BY DEF Chain, ChainOf, Given, ScanOK
  <1>2. PICK a \in 0 .. Len(variables) : DeclaredBy(scanner, i) = a + 1 .. a + n
    BY <1>1 DEF StringsInOrder
  <1>3. n \in Nat
    BY <1>1, ChainType
  <1>4. IsSeq(variables)
    BY <1>1 DEF ScannerOK
  <1>5. /\ variables \in Seq(Range(variables)) /\ Len(variables) \in Nat
        /\ DOMAIN variables = 1 .. Len(variables)
    BY <1>4 DEF IsSeq
  <1>6. a + n <= Len(variables)
    <2>1. n # 0 => a + n \in DeclaredBy(scanner, i)
      BY <1>2, <1>3
    <2>2. DeclaredBy(scanner, i) \subseteq DOMAIN variables
      BY DEF DeclaredBy
    <2> QED
      BY <1>2, <1>3, <1>5, <2>1, <2>2
  <1>7. OwnVariables(i) = Only(variables, a + 1 .. a + n)
    BY <1>1, <1>2 DEF OwnVariables, DeclaredBy
  <1> HIDE DEF n, variables
  <1>8. OwnVariables(i) = [k \in 1 .. n |-> variables[a + k]]
    BY <1>2, <1>3, <1>5, <1>6, <1>7, OnlySlice
  <1>9. \A k \in 1 .. n : variables[a + k] \in Range(variables)
    <2>1. \A k \in 1 .. n : a + k \in DOMAIN variables
      BY <1>2, <1>3, <1>5, <1>6
    <2> QED
      BY <2>1 DEF Range
  <1>10. OwnMatches(i) = [k \in 1 .. n |-> AllMatchesOf(variables[a + k])]
    BY <1>8 DEF OwnMatches
  <1>11. \A k \in 1 .. n : AllMatchesOf(variables[a + k]) \in Seq(Offsets)
    BY <1>9, AllMatchesType DEF variables
  <1>12. OwnMatches(i) \in [1 .. n -> Seq(Offsets)]
    BY <1>10, <1>11
  <1>13. OwnMatches(i) \in Seq(Seq(Offsets))
    BY <1>3, <1>12
  <1>14. Len(OwnMatches(i)) = n
    BY <1>3, <1>10
  <1> QED
    BY <1>13, <1>14 DEF n

LEMMA ChainConditions ==
    ASSUME Given
    PROVE  /\ DOMAIN Chain = 1 .. Len(Chain) /\ Len(Chain) \in Nat
           /\ \A i \in DOMAIN Chain : Chain[i].condition \in Expression
  <1> DEFINE g == scanner.global_rules
             r == scanner.rules
             U == Range(g) \cup Range(r)
  <1>1. IsSeq(g) /\ IsSeq(r)
    BY DEF Given, ScanOK, ScannerOK
  <1>2. \A x \in U : x.condition \in Expression
    BY DEF Given, ConditionsOK
  <1>3. g \in Seq(U) /\ r \in Seq(U)
    BY <1>1 DEF IsSeq
  <1> HIDE DEF U, g, r
  <1>4. g \o r \in Seq(U)
    BY <1>3
  <1>5. /\ Len(g \o r) \in Nat /\ DOMAIN (g \o r) = 1 .. Len(g \o r)
        /\ \A i \in DOMAIN (g \o r) : (g \o r)[i] \in U
    BY <1>4
  <1>6. Chain = g \o r
    BY DEF Chain, g, r
  <1> QED
    BY <1>2, <1>5, <1>6

\* The evaluation with the matches decides, or panics.
Decisions == {"true", "false", "Panic"}

LEMMA KnownDecides ==
    ASSUME NEW ctx, ContextOK(ctx), ctx.var_matches.known, ctx.expired = {},
           NEW e \in Expression
    PROVE  evaluate_rule(ctx, e) \in Decisions
  <1> DEFINE v == Eval(ctx, e)
  <1>1. v # VarNeeded /\ v # Timeout
    BY EvaluationsAreTyped DEF Typed
  <1> HIDE DEF v
  <1>2. RuleResult(v) \in Decisions
    BY <1>1 DEF RuleResult, Decisions
  <1> QED
    BY <1>2, RuleResults DEF v

LEMMA ReferenceDecides ==
    ASSUME Given, StringsInOrder(scanner), NEW i \in DOMAIN Chain,
           NEW previous \in Seq(BOOLEAN)
    PROVE  LET c == ReferenceContext(i, previous) IN
           /\ ContextOK(c) /\ c.var_matches.known /\ c.expired = {}
           /\ c.var_matches = [known |-> TRUE, of |-> OwnMatches(i)]
           /\ evaluate_rule(c, Chain[i].condition) \in Decisions
  <1> DEFINE c == ReferenceContext(i, previous)
             values == IF input.direct \/ params.modules_dynamic_values
                       THEN ModulesIn(FetchedRegions) ELSE NoModuleValues(input)
  <1>1. ModulesOK(values)
    <2>1. FetchedRegions \in SUBSET FetchedRegions
      OBVIOUS
    <2> QED
      BY <2>1, RegionsValues
  <1>2. EntrypointIn(FetchedRegions) \in [int : Nat] \cup {Undefined}
    BY RegionsValues
  <1>3. c = ScanContext([known |-> TRUE, of |-> OwnMatches(i)], previous,
                        EntrypointIn(FetchedRegions), values)
    BY DEF ReferenceContext
  <1> HIDE DEF values, c
  <1>4. ContextOK(c)
    BY <1>1, <1>2, <1>3, OwnMatchesType, ScanContextOK
  <1>5. c.var_matches = [known |-> TRUE, of |-> OwnMatches(i)] /\ c.expired = {}
    BY <1>3 DEF ScanContext
  <1>6. evaluate_rule(c, Chain[i].condition) \in Decisions
    BY <1>4, <1>5, ChainConditions, KnownDecides
  <1> QED
    BY <1>4, <1>5, <1>6 DEF c

\* The entrypoint of direct memory is that of its one region.
LEMMA DirectEntrypoint ==
    ASSUME Given, input.direct
    PROVE  EntrypointIn(FetchedRegions) = input.regions[1].entrypoint
  <1>1. FetchedRegions = {} \cup {1} /\ {} \in SUBSET Nat /\ 1 \in Nat
    BY RegionPositions
  <1>2. EntrypointIn({} \cup {1}) = input.regions[1].entrypoint
    BY <1>1, FirstOfRegions
  <1> QED
    BY <1>1, <1>2

\* The results that the rule at the cursor reads are the outcomes before it.
EarlierOK ==
    phase \in {"no_scan_globals", "no_scan_rules", "eval"} =>
        previous_results = ResultsBefore(Outcomes, cursor)

\* The rule at the cursor is evaluated in the context of the reference, when the memory
\* has been scanned.
LEMMA EvalContext ==
    ASSUME Given, MatchesInv, ReadOK, StringsInOrder(scanner),
           phase = "eval", cursor <= Len(Chain)
    PROVE  EvalResult = evaluate_rule(ReferenceContext(cursor, previous_results),
                                      Chain[cursor].condition)
  <1>1. cursor \in DOMAIN Chain /\ ScannerOK(scanner)
        /\ previous_results \in Seq(BOOLEAN)
    BY ChainConditions DEF MatchesInv, IInv, CursorOK, ResultsOK
  <1>2. SeenRegions = FetchedRegions
    BY DEF SeenRegions, Seen
  <1>3. EntrypointIn(FetchedRegions) =
           IF input.direct THEN input.regions[1].entrypoint ELSE entrypoint
    BY <1>2, DirectEntrypoint DEF ReadOK
  <1>4. module_values = IF input.direct \/ params.modules_dynamic_values
                        THEN ModulesIn(FetchedRegions) ELSE NoModuleValues(input)
    BY <1>2 DEF ReadOK
  <1>5. Own(matches) = OwnMatches(cursor)
        /\ var_index + Chain[cursor].nb_variables <= Len(matches)
    BY OwnSlices
  <1>6. Context(TRUE, Own(matches)) = ReferenceContext(cursor, previous_results)
    BY <1>3, <1>4, <1>5 DEF Context, ReferenceContext
  <1>7. ~(var_index + Chain[cursor].nb_variables > Len(matches))
    <2>1. Chain = ChainOf(scanner)
      BY DEF Chain, ChainOf
    <2>2. Chain[cursor].nb_variables \in Nat
      BY <1>1, <2>1, ChainType
    <2>3. matches = [v \in DOMAIN scanner.variables |-> matches[v]]
      BY DEF MatchesInv, FoundOK
    <2>4. DOMAIN matches = 1 .. Len(scanner.variables) /\ Len(scanner.variables) \in Nat
      BY <2>3, VariablesType DEF MatchesInv
    <2>5. Len(matches) = Len(scanner.variables)
      BY <2>4
    <2>6. var_index \in Nat
      BY DEF MatchesInv, HandedOutOK
    <2> QED
      BY <1>5, <2>2, <2>4, <2>5, <2>6
  <1>8. EvalResult = evaluate_rule(ReferenceContext(cursor, previous_results),
                                   Chain[cursor].condition)
    BY <1>6, <1>7, Zenon DEF EvalResult
  <1> QED
    BY <1>8

\* It gives the outcome of the rule.
LEMMA EvalOutcome ==
    ASSUME Given, MatchesInv, ReadOK, EarlierOK, StringsInOrder(scanner),
           phase = "eval", cursor <= Len(Chain)
    PROVE  EvalResult = Outcomes[cursor] /\ Outcomes[cursor] \in Decisions
  <1>1. cursor \in DOMAIN Chain /\ ScannerOK(scanner)
        /\ previous_results \in Seq(BOOLEAN)
    BY ChainConditions DEF MatchesInv, IInv, CursorOK, ResultsOK
  <1>2. EvalResult = evaluate_rule(ReferenceContext(cursor, previous_results),
                                   Chain[cursor].condition)
    BY EvalContext
  <1>3. Outcomes[cursor] = OutcomeOf(Outcomes, cursor)
    BY <1>1, ChainConditions, OutcomesAre DEF AreOutcomes
  <1>4. OutcomeOf(Outcomes, cursor) =
            evaluate_rule(ReferenceContext(cursor, previous_results),
                          Chain[cursor].condition)
    BY DEF OutcomeOf, EarlierOK
  <1> QED
    BY <1>1, <1>2, <1>3, <1>4, ReferenceDecides

\* A scan of this memory with these parameters starts with the pass without matches.
HasFirstPass(in, p) ==
    /\ ~p.compute_full_matches
    /\ in.direct \/ (~p.modules_dynamic_values /\ ~p.can_refetch_regions)

\* What a condition may read in that pass: lists whose items are defined, and the entrypoint
\* only in direct memory, where it is known before the first region is scanned.
ReadsWhatIsKnown(in, p) ==
    HasFirstPass(in, p) => ListsAreDefined /\ (in.direct \/ EntrypointIsUnread)
FirstPassesReadWhatIsKnown == \A in \in Inputs, p \in Params : ReadsWhatIsKnown(in, p)

\* A rule that the pass without matches decides panics there, or in neither pass.
PanicsAlike ==
    phase \in {"no_scan_globals", "no_scan_rules"} /\ cursor \in DOMAIN Chain
      /\ NoScanResult \in Decisions =>
          (NoScanResult = "Panic" <=> Outcomes[cursor] = "Panic")

\* The rule at the cursor is evaluated without the matches in a context that differs from
\* the reference in the matches, and in an entrypoint not read yet.
FirstRead == IF input.direct THEN input.regions[1].entrypoint ELSE entrypoint

LEMMA NoScanContext ==
    ASSUME Given, IInv, ModeOK, ReadOK, phase \in {"no_scan_globals", "no_scan_rules"}
    PROVE  LET c == Context(FALSE, <<>>) IN
           /\ FirstRead = IF input.direct THEN EntrypointIn(FetchedRegions)
                          ELSE Undefined
           /\ module_values = IF input.direct \/ params.modules_dynamic_values
                              THEN ModulesIn(FetchedRegions) ELSE NoModuleValues(input)
           /\ c = ScanContext([known |-> FALSE, of |-> <<>>], previous_results, FirstRead,
                              module_values)
           /\ ContextOK(c)
           /\ c.previous = previous_results /\ ~c.var_matches.known
           /\ ~c.overflow_checks
  <1> DEFINE c == Context(FALSE, <<>>)
  <1>1. previous_results \in Seq(BOOLEAN)
    BY DEF IInv, ResultsOK
  <1>2. ~input.direct => ~params.modules_dynamic_values
    BY DEF ModeOK, can_use_no_scan_optimization
  <1>3. SeenRegions = IF input.direct THEN FetchedRegions ELSE {}
    BY DEF SeenRegions, Seen
  <1>4. module_values = IF input.direct \/ params.modules_dynamic_values
                        THEN ModulesIn(FetchedRegions) ELSE NoModuleValues(input)
    BY <1>2, <1>3 DEF ReadOK
  <1>5. FirstRead = IF input.direct THEN EntrypointIn(FetchedRegions) ELSE Undefined
    BY <1>3, DirectEntrypoint, FirstOfRegions DEF FirstRead, ReadOK
  <1>6. FirstRead \in [int : Nat] \cup {Undefined}
    BY <1>5, RegionsValues
  <1>7. ModulesOK(module_values)
    <2>1. FetchedRegions \in SUBSET FetchedRegions
      OBVIOUS
    <2> QED
      BY <1>4, <2>1, RegionsValues
  <1>8. c = ScanContext([known |-> FALSE, of |-> <<>>], previous_results, FirstRead,
                        module_values)
    BY DEF Context, FirstRead
  <1> HIDE DEF c
  <1>9. ContextOK(c)
    <2>1. <<>> \in Seq(Seq(Offsets)) /\ FALSE \in BOOLEAN
      OBVIOUS
    <2> QED
      BY <1>1, <1>6, <1>7, <1>8, <2>1, ScanContextOK
  <1>10. c.previous = previous_results /\ ~c.var_matches.known /\ ~c.overflow_checks
    BY <1>8 DEF ScanContext
  <1> QED
    BY <1>4, <1>5, <1>8, <1>9, <1>10 DEF c

\* The rule at the cursor, when it is decided without the matches.
LEMMA NoScanOutcome ==
    ASSUME Given, MatchesInv, ReadOK, EarlierOK, PanicsAlike, StringsInOrder(scanner),
           ReadsWhatIsKnown(input, params),
           phase \in {"no_scan_globals", "no_scan_rules"}, cursor \in DOMAIN Chain
    PROVE  /\ NoScanResult \in Decisions => Outcomes[cursor] = NoScanResult
           /\ NoScanResult \in Decisions \cup {"Undecidable"}
  <1> DEFINE E == Fatal \cup {VarNeeded}
             F == Fatal
             c == Context(FALSE, <<>>)
             d == ReferenceContext(cursor, previous_results)
             e == Chain[cursor].condition
             v == Eval(c, e)
             w == Eval(d, e)
  <1>1. Modes(E, F) /\ VarNeeded \in E
    BY DEF Modes
  <1>2. e \in Expression /\ ScannerOK(scanner) /\ previous_results \in Seq(BOOLEAN)
    BY ChainConditions DEF MatchesInv, IInv, ResultsOK
  <1>3. /\ ContextOK(c)
        /\ c = ScanContext([known |-> FALSE, of |-> <<>>], previous_results, FirstRead,
                           module_values)
        /\ FirstRead = IF input.direct THEN EntrypointIn(FetchedRegions) ELSE Undefined
        /\ module_values = IF input.direct \/ params.modules_dynamic_values
                           THEN ModulesIn(FetchedRegions) ELSE NoModuleValues(input)
    BY NoScanContext DEF MatchesInv
  <1>4. /\ ListsAreDefined
        /\ FirstRead = EntrypointIn(FetchedRegions) \/ EntrypointIsUnread
    <2>1. HasFirstPass(input, params)
      BY DEF MatchesInv, ModeOK, can_use_no_scan_optimization, HasFirstPass
    <2>2. ListsAreDefined /\ (~input.direct => EntrypointIsUnread)
      BY <2>1 DEF ReadsWhatIsKnown
    <2>3. input.direct => FirstRead = EntrypointIn(FetchedRegions)
      BY <1>3
    <2> HIDE DEF c
    <2> QED
      BY <2>2, <2>3
  <1>5. d = ScanContext([known |-> TRUE, of |-> OwnMatches(cursor)], previous_results,
                        EntrypointIn(FetchedRegions), module_values)
    BY <1>3 DEF ReferenceContext
  <1> HIDE DEF c, d, e
  <1>6. ContextOK(d) /\ d.var_matches.known
    BY <1>2, ReferenceDecides DEF d
  <1>7. /\ c.previous = d.previous /\ c.filesize = d.filesize
         /\ c.entrypoint = FirstRead /\ d.entrypoint = EntrypointIn(FetchedRegions)
         /\ c.memory = d.memory /\ c.modules = d.modules /\ c.externals = d.externals
         /\ c.overflow_checks = d.overflow_checks
         /\ ~c.var_matches.known /\ c.expired = {} /\ d.expired = {}
    BY <1>3, <1>5 DEF ScanContext
  <1>8. SameScan(E, F, c, d)
    <2> HIDE DEF E, F
    <2> QED
      BY <1>1, <1>4, <1>7 DEF SameScan
  <1>9. Agree(E, F, v, w)
    <2> HIDE DEF E, F
    <2> QED
      BY <1>1, <1>2, <1>3, <1>4, <1>6, <1>8, EvaluationsAgree
  <1>10. v # Timeout /\ w # Timeout /\ w # VarNeeded
    BY <1>2, <1>3, <1>6, <1>7, EvaluationsAreTyped DEF Typed
  <1>11. NoScanResult = RuleResult(v) /\ Outcomes[cursor] = RuleResult(w)
    <2>1. NoScanResult = evaluate_rule(c, e)
      BY DEF NoScanResult, c, e
    <2>2. Outcomes[cursor] = OutcomeOf(Outcomes, cursor)
      BY <1>2, ChainConditions, OutcomesAre DEF AreOutcomes
    <2>3. OutcomeOf(Outcomes, cursor) = evaluate_rule(d, e)
      BY DEF OutcomeOf, EarlierOK, d, e
    <2> QED
      BY <2>1, <2>2, <2>3, RuleResults
  <1> HIDE DEF v, w
  <1>12. NoScanResult \in Decisions \cup {"Undecidable"}
    BY <1>10, <1>11 DEF RuleResult, Decisions
  <1>13. CASE NoScanResult = "Panic"
    BY <1>13 DEF PanicsAlike, Decisions
  <1>14. CASE NoScanResult \in {"true", "false"}
    <2>1. v \notin E
      BY <1>11, <1>14, RuleResults
    <2>2. Outcomes[cursor] # "Panic"
      BY <1>14 DEF PanicsAlike, Decisions
    <2>3. w # Panic
      BY <1>11, <2>2, PoisonFacts DEF RuleResult
    <2>4. w \notin F
      BY <1>10, <2>3 DEF Fatal
    <2>5. v = w
      BY <1>9, <2>1, <2>4 DEF Agree
    <2> QED
      BY <1>11, <1>12, <2>5
  <1> QED
    BY <1>12, <1>13, <1>14 DEF Decisions

-----------------------------------------------------------------------------
(* What the report says of the outcomes. *)

Reports(i) == \E k \in DOMAIN matched_rules : matched_rules[k].rule = i

\* Every rule reported holds, and is public.
Truthful ==
    \A k \in DOMAIN matched_rules :
        matched_rules[k].rule \in PublicRules /\ Outcomes[matched_rules[k].rule] = "true"

\* Nothing has been left undecided: the globals before the cursor hold, and the
\* public rules before it that hold are reported.
Deciding ==
    \/ phase \in {"no_scan_rules", "eval"}
    \/ phase = "no_scan_globals" /\ ~has_unknown_globals

Settled(i) ==
    /\ IsGlobal(i) => Outcomes[i] = "true"
    /\ i \in PublicRules /\ Outcomes[i] = "true" => Reports(i)

DecidedOK == Deciding => \A i \in 1 .. cursor - 1 : Settled(i)

\* The rules are evaluated to the last one and no further.
WithinChain == phase \in {"no_scan_rules", "eval"} => cursor <= Len(Chain) + 1

ContractInv ==
    /\ Given /\ MatchesInv /\ ReadOK
    /\ EarlierOK /\ Truthful /\ DecidedOK /\ WithinChain

LEMMA ResultsGrow ==
    ASSUME NEW u, NEW i \in Nat, NbGlobals \in Nat
    PROVE  /\ i <= NbGlobals + 1 => ResultsBefore(u, i) = <<>>
           /\ i > NbGlobals =>
                ResultsBefore(u, i + 1) = Append(ResultsBefore(u, i), u[i] = "true")
  <1>1. ASSUME i <= NbGlobals + 1
        PROVE  ResultsBefore(u, i) = <<>>
    <2>1. 1 .. i - 1 - NbGlobals = {}
      BY <1>1
    <2> QED
      BY <2>1 DEF ResultsBefore
  <1>2. ASSUME i > NbGlobals
        PROVE  ResultsBefore(u, i + 1) = Append(ResultsBefore(u, i), u[i] = "true")
    <2> DEFINE n == i - 1 - NbGlobals
               r == [k \in 1 .. n |-> u[NbGlobals + k] = "true"]
    <2>1. n \in Nat /\ n + 1 = (i + 1) - 1 - NbGlobals /\ NbGlobals + (n + 1) = i
      BY <1>2
    <2>2. ResultsBefore(u, i) = r
      BY DEF ResultsBefore
    <2>3. ResultsBefore(u, i + 1) = [k \in 1 .. n + 1 |-> u[NbGlobals + k] = "true"]
      BY <2>1 DEF ResultsBefore
    <2> HIDE DEF n
    <2>4. r \in Seq(BOOLEAN) /\ Len(r) = n
      BY <2>1
    <2>5. Append(r, u[i] = "true") = [k \in 1 .. n + 1 |-> u[NbGlobals + k] = "true"]
      BY <2>1, <2>4
    <2> QED
      BY <2>2, <2>3, <2>5
  <1> QED
    BY <1>1, <1>2

\* A report of the rule at the cursor, or none.
LEMMA ReportSettles ==
    ASSUME Given, IInv, Truthful, UNCHANGED config, cursor \in DOMAIN Chain,
           NEW variables, NEW var_matches,
           matched_rules' = Report(cursor, Outcomes[cursor] = "true",
                                   variables, var_matches)
    PROVE  /\ Truthful'
           /\ \A i \in 1 .. cursor - 1 : Reports(i) => Reports(i)'
           /\ \A i \in PublicRules :
                 i = cursor /\ Outcomes[i] = "true" => Reports(i)'
  <1> DEFINE m == matched_rules
             x == build_matched_rule(cursor, variables, var_matches)
             shown == Outcomes[cursor] = "true" /\ ~Chain[cursor].is_private
  <1>0. ScannerOK(scanner)
    BY DEF IInv
  <1>1. Outcomes' = Outcomes /\ Chain' = Chain /\ PublicRules' = PublicRules
    BY <1>0, SameOutcomes, SameReference DEF PublicRules
  <1>2. cursor \in PublicRules <=> ~Chain[cursor].is_private
    BY DEF PublicRules
  <1>3. x.rule = cursor
    BY DEF build_matched_rule
  <1>4. m' = IF shown THEN Append(m, x) ELSE m
    BY DEF Report
  <1> HIDE DEF x
  <1>5. CASE shown
    <2>1. /\ DOMAIN m = 1 .. Len(m) /\ Len(m) \in Nat
          /\ DOMAIN Append(m, x) = 1 .. Len(m) + 1
          /\ \A k \in 1 .. Len(m) : Append(m, x)[k] = m[k]
          /\ Append(m, x)[Len(m) + 1] = x
      BY AppendSeq DEF IInv, ReportOK
    <2>2. \A k \in 1 .. Len(m) + 1 : k \in 1 .. Len(m) \/ k = Len(m) + 1
      BY <2>1
    <2>3. \A k \in DOMAIN m : k \in DOMAIN m' /\ m'[k] = m[k]
      BY <1>4, <1>5, <2>1
    <2>4. Len(m) + 1 \in DOMAIN m' /\ m'[Len(m) + 1] = x
      BY <1>4, <1>5, <2>1
    <2>5. \A k \in DOMAIN m' : m'[k].rule \in PublicRules
                               /\ Outcomes[m'[k].rule] = "true"
      BY <1>2, <1>3, <1>4, <1>5, <2>1, <2>2 DEF Truthful
    <2>6. Truthful'
      BY <1>1, <2>5 DEF Truthful
    <2> QED
      BY <1>3, <2>3, <2>4, <2>6 DEF Reports
  <1>6. CASE ~shown
    <2>1. m' = m
      BY <1>4, <1>6
    <2> QED
      BY <1>1, <1>2, <1>6, <2>1 DEF Truthful, Reports
  <1> QED
    BY <1>5, <1>6

\* The rule at the cursor is decided, as it is with the matches, or left undecided.
DecidesRule ==
    /\ phase \in {"no_scan_globals", "no_scan_rules", "eval"}
    /\ cursor \in DOMAIN Chain /\ cursor' = cursor + 1
    /\ UNCHANGED <<config, phase>>
    /\ Outcomes[cursor] \in {"true", "false"}
    /\ IsGlobal(cursor) => Outcomes[cursor] = "true"
    /\ \E variables, var_matches :
          matched_rules' = Report(cursor, Outcomes[cursor] = "true",
                                  variables, var_matches)
    /\ previous_results' = IF IsGlobal(cursor) THEN previous_results
                           ELSE Append(previous_results, Outcomes[cursor] = "true")
    /\ Deciding' => Deciding

Defers ==
    /\ phase = "no_scan_globals" /\ has_unknown_globals'
    /\ IsGlobal(cursor) /\ cursor' = cursor + 1
    /\ UNCHANGED <<config, phase, matched_rules, previous_results>>

LEMMA DecidesSteps ==
    ASSUME ContractInv, DecidesRule
    PROVE  EarlierOK' /\ Truthful' /\ DecidedOK' /\ WithinChain'
  <1> USE DEF ContractInv
  <1>0. /\ IInv /\ ScannerOK(scanner) /\ cursor \in Nat \ {0}
        /\ NbGlobals \in Nat /\ Len(Chain) \in Nat
        /\ DOMAIN Chain = 1 .. Len(Chain)
    BY Counts, ChainConditions DEF MatchesInv, IInv, CursorOK
  <1>1. /\ phase \in {"no_scan_globals", "no_scan_rules", "eval"} /\ phase' = phase
        /\ cursor \in DOMAIN Chain /\ cursor' = cursor + 1
        /\ UNCHANGED config
        /\ IsGlobal(cursor) => Outcomes[cursor] = "true"
        /\ previous_results' = IF IsGlobal(cursor) THEN previous_results
                               ELSE Append(previous_results, Outcomes[cursor] = "true")
        /\ Deciding' => Deciding
    BY DEF DecidesRule
  <1>2. /\ Outcomes' = Outcomes /\ Chain' = Chain /\ NbGlobals' = NbGlobals
        /\ PublicRules' = PublicRules /\ \A i : IsGlobal(i)' = IsGlobal(i)
    BY <1>0, <1>1, SameOutcomes, SameReference DEF PublicRules, IsGlobal
  <1>3. /\ Truthful'
        /\ \A i \in 1 .. cursor - 1 : Reports(i) => Reports(i)'
        /\ \A i \in PublicRules :
              i = cursor /\ Outcomes[i] = "true" => Reports(i)'
    BY <1>0, <1>1, ReportSettles DEF DecidesRule
  <1>4. EarlierOK'
    <2>1. previous_results = ResultsBefore(Outcomes, cursor)
      BY <1>1 DEF EarlierOK
    <2>2. previous_results' = ResultsBefore(Outcomes, cursor + 1)
      <3>1. CASE IsGlobal(cursor)
        <4>1. cursor <= NbGlobals
          BY <3>1 DEF IsGlobal
        <4>2. cursor <= NbGlobals + 1 /\ cursor + 1 <= NbGlobals + 1
              /\ cursor \in Nat /\ cursor + 1 \in Nat
          BY <1>0, <4>1
        <4> QED
          BY <1>0, <1>1, <2>1, <3>1, <4>2, ResultsGrow
      <3>2. CASE ~IsGlobal(cursor)
        <4>1. cursor > NbGlobals /\ cursor \in Nat
          BY <1>0, <3>2 DEF IsGlobal
        <4> QED
          BY <1>0, <1>1, <2>1, <3>2, <4>1, ResultsGrow
      <3> QED
        BY <3>1, <3>2
    <2>3. ResultsBefore(Outcomes, cursor)' = ResultsBefore(Outcomes, cursor + 1)
      BY <1>1, <1>2 DEF ResultsBefore
    <2> QED
      BY <2>2, <2>3 DEF EarlierOK
  <1>5. DecidedOK'
    <2> SUFFICES ASSUME Deciding'
                 PROVE  \A i \in 1 .. cursor' - 1 : Settled(i)'
      BY DEF DecidedOK
    <2>1. \A i \in 1 .. cursor - 1 : Settled(i)
      BY <1>1 DEF DecidedOK
    <2>2. ASSUME NEW i \in 1 .. cursor' - 1
          PROVE  Settled(i)'
      <3>1. i \in 1 .. cursor - 1 \/ i = cursor
        BY <1>0, <1>1
      <3>2. Settled(i)' <=> /\ IsGlobal(i) => Outcomes[i] = "true"
                            /\ i \in PublicRules /\ Outcomes[i] = "true" => Reports(i)'
        BY <1>2 DEF Settled
      <3>3. CASE i \in 1 .. cursor - 1
        BY <1>3, <2>1, <3>2, <3>3 DEF Settled
      <3>4. CASE i = cursor
        BY <1>1, <1>3, <3>2, <3>4
      <3> QED
        BY <3>1, <3>3, <3>4
    <2> QED
      BY <2>2
  <1>6. WithinChain'
    BY <1>0, <1>1, <1>2 DEF WithinChain
  <1> QED
    BY <1>3, <1>4, <1>5, <1>6

\* The steps that decide no rule.
Elsewhere ==
    \/ StartScan \/ NoScanGlobalsKnown \/ ScanRegion \/ MemoryScanned
    \/ Defers \/ GivesUp \/ Ends

LEMMA OtherSteps ==
    ASSUME ContractInv, [Elsewhere]_vars
    PROVE  EarlierOK' /\ Truthful' /\ DecidedOK' /\ WithinChain'
  <1> USE DEF ContractInv
  <1>0. /\ IInv /\ ScannerOK(scanner) /\ cursor \in Nat \ {0}
        /\ NbGlobals \in Nat /\ Len(Chain) \in Nat /\ NbGlobals <= Len(Chain)
    BY Counts DEF MatchesInv, IInv, CursorOK
  <1>1. UNCHANGED config /\ matched_rules' \in {matched_rules, <<>>}
    BY DEF Elsewhere, vars, config, StartScan, NoScanGlobalsKnown, ScanRegion,
           MemoryScanned, Defers, GivesUp, FallBack, Ends
  <1>2. /\ Outcomes' = Outcomes /\ Chain' = Chain /\ NbGlobals' = NbGlobals
        /\ PublicRules' = PublicRules /\ \A i : IsGlobal(i)' = IsGlobal(i)
    BY <1>0, <1>1, SameOutcomes, SameReference DEF PublicRules, IsGlobal
  <1>3. Truthful'
    <2>1. CASE matched_rules' = <<>>
      BY <2>1 DEF Truthful
    <2>2. CASE matched_rules' = matched_rules
      BY <1>2, <2>2 DEF Truthful
    <2> QED
      BY <1>1, <2>1, <2>2
  <1>4. \A u : ResultsBefore(u, 1) = <<>>
        /\ (IsGlobal(cursor) => /\ ResultsBefore(u, cursor) = <<>>
                                /\ ResultsBefore(u, cursor + 1) = <<>>)
    <2>1. 1 \in Nat /\ 1 <= NbGlobals + 1
      BY <1>0
    <2>2. IsGlobal(cursor) => /\ cursor <= NbGlobals + 1 /\ cursor + 1 <= NbGlobals + 1
                              /\ cursor \in Nat /\ cursor + 1 \in Nat
      BY <1>0 DEF IsGlobal
    <2> QED
      BY <1>0, <2>1, <2>2, ResultsGrow
  <1>5. ResultsBefore(Outcomes, cursor)' = ResultsBefore(Outcomes, cursor')
    BY <1>2 DEF ResultsBefore
  \* Steps at the start of a list of rules, and steps that are at none.
  <1>6. ASSUME phase' \in {"no_scan_globals", "eval"}, cursor' = 1,
               previous_results' = <<>>
        PROVE  EarlierOK' /\ DecidedOK' /\ WithinChain'
    <2>1. EarlierOK'
      BY <1>4, <1>5, <1>6 DEF EarlierOK
    <2>2. 1 .. cursor' - 1 = {}
      BY <1>6
    <2>3. DecidedOK'
      BY <2>2 DEF DecidedOK
    <2> QED
      BY <1>0, <1>2, <1>6, <2>1, <2>3 DEF WithinChain
  <1>7. ASSUME phase' \in {"memory", "done", "start"}
        PROVE  EarlierOK' /\ DecidedOK' /\ WithinChain'
    BY <1>7 DEF EarlierOK, DecidedOK, Deciding, WithinChain
  <1>8. ASSUME UNCHANGED <<cursor, previous_results, matched_rules>>,
               Deciding' => Deciding, phase' # "no_scan_rules" \/ cursor <= Len(Chain) + 1,
               phase \in {"no_scan_globals", "no_scan_rules", "eval"},
               phase' = "eval" => phase = "eval"
        PROVE  EarlierOK' /\ DecidedOK' /\ WithinChain'
    <2>1. EarlierOK'
      BY <1>5, <1>8, <1>2 DEF EarlierOK
    <2>2. \A i : Settled(i)' <=> Settled(i)
      BY <1>2, <1>8 DEF Settled, Reports
    <2>3. DecidedOK'
      BY <1>8, <2>2 DEF DecidedOK
    <2>4. WithinChain'
      BY <1>2, <1>8 DEF WithinChain
    <2> QED
      BY <2>1, <2>3, <2>4
  <1>9. EarlierOK' /\ DecidedOK' /\ WithinChain'
    <2>1. CASE StartScan
      <3>1. /\ phase = "start" /\ phase' \in {"no_scan_globals", "memory"}
            /\ cursor' = 1 /\ previous_results' = <<>>
        BY <1>0, <2>1 DEF StartScan, IInv, CursorOK, ResultsOK
      <3> QED
        BY <1>6, <1>7, <3>1
    <2>2. CASE NoScanGlobalsKnown
      <3>1. /\ UNCHANGED <<cursor, previous_results, matched_rules>>
            /\ phase = "no_scan_globals" /\ ~has_unknown_globals
            /\ phase' = "no_scan_rules"
        BY <2>2 DEF NoScanGlobalsKnown
      <3>2. cursor <= Len(Chain) + 1
        BY <1>0, <3>1 DEF IInv, CursorOK
      <3> QED
        BY <1>8, <3>1, <3>2 DEF Deciding
    <2>3. CASE ScanRegion
      BY <1>7, <2>3 DEF ScanRegion
    <2>4. CASE MemoryScanned
      <3>1. phase' = "eval" /\ cursor' = 1 /\ previous_results' = <<>>
        BY <1>0, <2>4 DEF MemoryScanned, IInv, ResultsOK
      <3> QED
        BY <1>6, <3>1
    <2>5. CASE Defers
      <3>1. /\ phase = "no_scan_globals" /\ phase' = phase /\ has_unknown_globals'
            /\ IsGlobal(cursor) /\ cursor' = cursor + 1
            /\ previous_results' = previous_results
        BY <2>5 DEF Defers
      <3>2. previous_results' = ResultsBefore(Outcomes, cursor')
        BY <1>4, <3>1 DEF EarlierOK
      <3>3. EarlierOK'
        BY <1>5, <3>2 DEF EarlierOK
      <3> QED
        BY <3>1, <3>3 DEF DecidedOK, Deciding, WithinChain
    <2>6. CASE GivesUp
      BY <1>7, <2>6 DEF GivesUp, FallBack
    <2>7. CASE Ends
      BY <1>7, <2>7 DEF Ends
    <2>8. CASE UNCHANGED vars
      <3>1. UNCHANGED <<phase, cursor, previous_results, matched_rules,
                        has_unknown_globals>>
        BY <2>8 DEF vars
      <3>2. CASE phase \in {"no_scan_globals", "no_scan_rules", "eval"}
        BY <1>8, <3>1, <3>2 DEF Deciding, WithinChain
      <3>3. CASE phase \notin {"no_scan_globals", "no_scan_rules", "eval"}
        BY <3>1, <3>3 DEF EarlierOK, DecidedOK, Deciding, WithinChain
      <3> QED
        BY <3>2, <3>3
    <2> QED
      BY <2>1, <2>2, <2>3, <2>4, <2>5, <2>6, <2>7, <2>8 DEF Elsewhere
  <1> QED
    BY <1>3, <1>9

LEMMA StepKinds ==
    ASSUME ContractInv, PanicsAlike, StringsInOrder(scanner),
           ReadsWhatIsKnown(input, params), Next
    PROVE  DecidesRule \/ Elsewhere
  <1> USE DEF ContractInv
  <1>0. /\ IInv /\ cursor \in Nat \ {0}
        /\ NbGlobals \in Nat /\ Len(Chain) \in Nat /\ NbGlobals <= Len(Chain)
        /\ DOMAIN Chain = 1 .. Len(Chain)
    BY Counts, ChainConditions DEF MatchesInv, IInv, CursorOK
  <1>1. CASE NoScanGlobal
    <2>1. /\ phase = "no_scan_globals" /\ cursor <= NbGlobals
          /\ NoScanResult \in {"true", "Undecidable"}
          /\ matched_rules' = Report(cursor, NoScanResult = "true", <<>>, <<>>)
          /\ has_unknown_globals' =
                (has_unknown_globals \/ NoScanResult = "Undecidable")
          /\ cursor' = cursor + 1
          /\ UNCHANGED <<config, phase, previous_results>>
      BY <1>1 DEF NoScanGlobal
    <2>2. cursor \in DOMAIN Chain /\ IsGlobal(cursor)
      BY <1>0, <2>1 DEF IsGlobal
    <2>3. CASE NoScanResult = "true"
      <3>1. Outcomes[cursor] = "true"
        BY <2>1, <2>2, <2>3, NoScanOutcome DEF Decisions
      <3>2. Deciding' => Deciding
        BY <2>1 DEF Deciding
      <3>3. matched_rules' = Report(cursor, Outcomes[cursor] = "true", <<>>, <<>>)
        BY <2>1, <2>3, <3>1
      <3> QED
        BY <2>1, <2>2, <3>1, <3>2, <3>3 DEF DecidesRule
    <2>4. CASE NoScanResult = "Undecidable"
      <3>1. matched_rules' = matched_rules
        BY <2>1, <2>4 DEF Report
      <3> QED
        BY <2>1, <2>2, <2>4, <3>1 DEF Defers, Elsewhere
    <2> QED
      BY <2>1, <2>3, <2>4
  <1>2. CASE NoScanRule
    <2>1. /\ phase = "no_scan_rules" /\ cursor <= Len(Chain)
          /\ NoScanResult \in {"true", "false"}
          /\ matched_rules' = Report(cursor, NoScanResult = "true", <<>>, <<>>)
          /\ previous_results' = Append(previous_results, NoScanResult = "true")
          /\ cursor' = cursor + 1
          /\ UNCHANGED <<config, phase>>
      BY <1>2 DEF NoScanRule
    <2>2. cursor \in DOMAIN Chain /\ ~IsGlobal(cursor)
      BY <1>0, <2>1 DEF IsGlobal, IInv, CursorOK
    <2>3. Outcomes[cursor] = NoScanResult
      BY <2>1, <2>2, NoScanOutcome DEF Decisions
    <2>4. Deciding
      BY <2>1 DEF Deciding
    <2> QED
      BY <2>1, <2>2, <2>3, <2>4 DEF DecidesRule
  <1>3. CASE EvalRule
    <2>1. /\ phase = "eval" /\ cursor <= Len(Chain)
          /\ EvalResult \in (IF IsGlobal(cursor) THEN {"true"} ELSE {"true", "false"})
          /\ matched_rules' = Report(cursor, EvalResult = "true",
                                     Own(scanner.variables), Own(matches))
          /\ previous_results' = IF IsGlobal(cursor) THEN previous_results
                                 ELSE Append(previous_results, EvalResult = "true")
          /\ cursor' = cursor + 1
          /\ UNCHANGED <<config, phase>>
      BY <1>3 DEF EvalRule
    <2>2. cursor \in DOMAIN Chain
      BY <1>0, <2>1
    <2>3. Outcomes[cursor] = EvalResult
      BY <2>1, EvalOutcome
    <2>4. Deciding
      BY <2>1 DEF Deciding
    <2>5. /\ Outcomes[cursor] \in {"true", "false"}
          /\ IsGlobal(cursor) => Outcomes[cursor] = "true"
      BY <2>1, <2>3
    <2> QED
      BY <2>1, <2>2, <2>3, <2>4, <2>5 DEF DecidesRule
  <1>4. CASE StartScan \/ NoScanGlobalsKnown \/ ScanRegion \/ MemoryScanned
    BY <1>4 DEF Elsewhere
  <1>5. CASE NoScanGlobalsUnknown \/ NoScanRuleUndecidable
    BY <1>5 DEF NoScanGlobalsUnknown, NoScanRuleUndecidable, GivesUp, Elsewhere
  <1>6. CASE NoScanFalseGlobal \/ NoScanDecided \/ EvalFalseGlobal
             \/ EvalDone \/ EvaluationPanics \/ TimeoutExpires
    BY <1>6 DEF NoScanFalseGlobal, NoScanDecided, EvalFalseGlobal, EvalDone,
           EvaluationPanics, TimeoutExpires, Finish, Ends, Elsewhere
  <1> QED
    BY <1>1, <1>2, <1>3, <1>4, <1>5, <1>6 DEF Next

\* The invariant is inductive.
LEMMA StartedContract == Started /\ Given => ContractInv
  <1> SUFFICES ASSUME Started, Given
               PROVE  ContractInv
    OBVIOUS
  <1>1. phase = "start" /\ cursor = 1 /\ matched_rules = <<>>
    BY DEF Started
  <1>2. MatchesInv
    BY StartedMatches DEF Given
  <1>3. Truthful
    BY <1>1 DEF Truthful
  <1>4. EarlierOK /\ DecidedOK /\ WithinChain
    BY <1>1 DEF EarlierOK, DecidedOK, Deciding, WithinChain
  <1> QED
    BY <1>2, <1>3, <1>4, StartedRead DEF ContractInv

\* The same of the state a step leads to.
LEMMA StartsContract == (Started /\ Given)' => ContractInv'
  BY StartedContract, PTL

LEMMA InitChosen == Init => Started /\ Given /\ Chosen
  <1> SUFFICES ASSUME Init
               PROVE  Given /\ Chosen
    BY InitStarts
  <1>1. scanner \in Scanners /\ input \in Inputs /\ params \in Params
    BY DEF Init, InitWith
  <1> QED
    BY <1>1, ScannersAssumption, ConditionsAssumption, InputsAssumption,
       MatchesAssumption, ValuesAssumption DEF Given, ScanOK, Chosen

LEMMA ContractInvInit == Init => ContractInv /\ Chosen
  BY InitChosen, StartedContract

LEMMA KeepsConfig == [Next]_vars => UNCHANGED config
  <1> SUFFICES ASSUME [Next]_vars
               PROVE  UNCHANGED config
    OBVIOUS
  <1>1. [Moves]_vars
    BY NextMoves
  <1> QED
    BY <1>1 DEF Moves, vars, config, StartScan, NoScanGlobalsKnown, ScanRegion,
       MemoryScanned, JudgesGlobal, JudgesRule, Judges, Judged, GivesUp, FallBack, Ends

LEMMA GivenStays == Given /\ UNCHANGED config => Given'
  BY DEF config, Given

LEMMA ContractInvStep ==
    ASSUME ContractInv, PanicsAlike, StringsInOrder(scanner),
           ReadsWhatIsKnown(input, params), [Next]_vars
    PROVE  ContractInv'
  <1>1. [Moves]_vars
    BY NextMoves
  <1>2. Given'
    BY KeepsConfig, GivenStays DEF ContractInv
  <1>3. MatchesInv'
    BY <1>1, StepMatches DEF ContractInv
  <1>4. ReadOK'
    BY <1>1, ReadSteps DEF ContractInv, MatchesInv, Given, ScanOK
  <1>5. DecidesRule \/ [Elsewhere]_vars
    BY StepKinds
  <1>6. EarlierOK' /\ Truthful' /\ DecidedOK' /\ WithinChain'
    BY <1>5, DecidesSteps, OtherSteps
  <1> QED
    BY <1>2, <1>3, <1>4, <1>6 DEF ContractInv

-----------------------------------------------------------------------------
(* The steps of the contract. *)

GlobalsHold == \A g \in DOMAIN Chain : IsGlobal(g) => Outcomes[g] = "true"

\* A report that the contract allows, and one that it asks for.
Right(r) ==
    /\ \A j, k \in DOMAIN r : j < k => r[j] < r[k]
    /\ \A k \in DOMAIN r :
          /\ r[k] \in PublicRules /\ Outcomes[r[k]] = "true"
          /\ ~IsGlobal(r[k]) => GlobalsHold
Full(r) ==
    /\ GlobalsHold => \A i \in PublicRules : Outcomes[i] = "true" =>
                         \E k \in DOMAIN r : r[k] = i
    /\ ~GlobalsHold => r = <<>>

LEMMA ContractTerms ==
    ASSUME Given
    PROVE  /\ \A r : Contract!InOrder(r) /\ (\A k \in DOMAIN r :
                        r[k] \in Contract!Rules /\ Contract!Reportable(r[k]))
                     <=> Right(r)
           /\ \A r : Full(r) <=>
                        /\ Contract!AllGlobalsHold =>
                              \A i \in Contract!Rules : Contract!Reportable(i) =>
                                 \E k \in DOMAIN r : r[k] = i
                        /\ ~Contract!AllGlobalsHold => r = <<>>
           /\ Contract!Rules = DOMAIN Chain
           /\ \A i : i \in Contract!Globals <=> i \in DOMAIN Chain /\ IsGlobal(i)
  <1>1. DOMAIN Outcomes = DOMAIN Chain
    <2>1. ScannerOK(scanner)
      BY DEF Given, ScanOK
    <2>2. Outcomes \in Seq(RuleOutcomes) /\ Len(Outcomes) = Len(Chain)
      BY <2>1, OutcomesAre DEF AreOutcomes
    <2> QED
      BY <2>2, ChainConditions
  <1>2. PublicRules \subseteq DOMAIN Chain
    BY DEF PublicRules
  <1>3. Contract!Rules = DOMAIN Chain
    BY <1>1 DEF Contract!Rules
  <1>4. \A i : i \in Contract!Globals <=> i \in DOMAIN Chain /\ IsGlobal(i)
    BY <1>3 DEF Contract!Globals, IsGlobal
  <1>5. Contract!AllGlobalsHold <=> GlobalsHold
    BY <1>4 DEF Contract!AllGlobalsHold, Contract!Holds, GlobalsHold
  <1>6. \A i \in DOMAIN Chain : Contract!Reportable(i) <=>
            /\ i \in PublicRules /\ Outcomes[i] = "true"
            /\ ~IsGlobal(i) => GlobalsHold
    BY <1>4, <1>5 DEF Contract!Reportable, Contract!Holds
  <1>7. \A r : Contract!InOrder(r) <=> \A j, k \in DOMAIN r : j < k => r[j] < r[k]
    BY DEF Contract!InOrder
  <1> QED
    BY <1>2, <1>3, <1>4, <1>5, <1>6, <1>7 DEF Right, Full

\* What has been reported is allowed, whenever a scan can end.
LEMMA ReportIsRight ==
    ASSUME ContractInv, phase \notin {"start", "done"}
    PROVE  /\ Right(Reported) /\ Right(<<>>)
           /\ phase = "no_scan_globals" =>
                 \A k \in DOMAIN Reported : Reported[k] \in 1 .. cursor - 1
  <1> USE DEF ContractInv
  <1>0. /\ IInv /\ cursor \in Nat \ {0} /\ NbGlobals \in Nat
        /\ DOMAIN Chain = 1 .. Len(Chain) /\ Len(Chain) \in Nat
    BY Counts, ChainConditions DEF MatchesInv, IInv, CursorOK
  <1>1. /\ DOMAIN Reported = DOMAIN matched_rules
        /\ \A k \in DOMAIN matched_rules : Reported[k] = matched_rules[k].rule
    BY DEF Reported
  <1>2. \A j, k \in DOMAIN Reported : j < k => Reported[j] < Reported[k]
    BY <1>0, <1>1 DEF IInv, ReportOK, ReportedOnceInOrder
  <1>3. ASSUME NEW k \in DOMAIN Reported
        PROVE  /\ Reported[k] \in PublicRules /\ Outcomes[Reported[k]] = "true"
               /\ ~IsGlobal(Reported[k]) => GlobalsHold
               /\ Reported[k] \in 1 .. cursor - 1
    <2>1. Reported[k] \in PublicRules /\ Outcomes[Reported[k]] = "true"
      BY <1>1, <1>3 DEF Truthful
    <2>2. phase \in {"no_scan_globals", "no_scan_rules", "eval"}
          /\ Reported[k] < cursor /\ Reported[k] \in Nat
      <3>1. phase = "memory" => matched_rules = <<>>
        BY <1>0 DEF IInv, ReportOK
      <3>2. phase # "memory"
        BY <1>1, <1>3, <3>1
      <3>3. phase \in {"no_scan_globals", "no_scan_rules", "eval"}
        BY <1>0, <3>2 DEF IInv, CursorOK, Phases
      <3> QED
        BY <1>0, <1>1, <1>3, <3>3 DEF IInv, ReportOK
    <2>3. ASSUME ~IsGlobal(Reported[k])
          PROVE  GlobalsHold
      <3>1. NbGlobals < Reported[k] /\ NbGlobals + 1 < cursor
        BY <1>0, <2>2, <2>3 DEF IsGlobal
      <3>2. Deciding
        BY <1>0, <2>2, <3>1 DEF Deciding, IInv, CursorOK
      <3>3. \A g \in DOMAIN Chain : IsGlobal(g) => g \in 1 .. cursor - 1
        BY <1>0, <3>1 DEF IsGlobal
      <3> QED
        BY <3>2, <3>3 DEF DecidedOK, Settled, GlobalsHold
    <2>4. Reported[k] \in 1 .. cursor - 1
      BY <1>0, <2>1, <2>2 DEF PublicRules
    <2> QED
      BY <2>1, <2>3, <2>4
  <1> QED
    BY <1>2, <1>3 DEF Right

\* When every rule has been decided, the report is the one that is asked for.
LEMMA ReportIsFull ==
    ASSUME ContractInv, phase \in {"no_scan_rules", "eval"}, cursor > Len(Chain)
    PROVE  Full(Reported)
  <1>1. cursor \in Nat /\ DOMAIN Chain = 1 .. Len(Chain) /\ Len(Chain) \in Nat
    BY ChainConditions DEF ContractInv, MatchesInv, IInv, CursorOK
  <1>2. \A i \in PublicRules : i \in 1 .. cursor - 1
    BY <1>1 DEF PublicRules
  <1>3. \A i \in PublicRules : Outcomes[i] = "true" => Reports(i)
    BY <1>2 DEF ContractInv, DecidedOK, Deciding, Settled
  <1>4. GlobalsHold
    <2>1. \A g \in DOMAIN Chain : g \in 1 .. cursor - 1
      BY <1>1
    <2> QED
      BY <2>1 DEF ContractInv, DecidedOK, Deciding, Settled, GlobalsHold
  <1> QED
    BY <1>3, <1>4 DEF Full, Reports, Reported

\* The one step that is not a step of the contract: the scan ends on a false global before
\* it has the matches, and other globals have been reported.
LeavesReport == NoScanFalseGlobal /\ Reported # <<>>

\* It takes a pass without matches, and a global that is public.
LEMMA LeavingScans ==
    ASSUME ContractInv, LeavesReport
    PROVE  /\ HasFirstPass(input, params)
           /\ \E g \in DOMAIN Chain : IsGlobal(g) /\ ~Chain[g].is_private
  <1>1. phase = "no_scan_globals" /\ cursor <= NbGlobals /\ Reported # <<>>
    BY DEF LeavesReport, NoScanFalseGlobal
  <1>2. cursor \in Nat /\ NbGlobals \in Nat
    BY Counts DEF ContractInv, MatchesInv, IInv, CursorOK
  <1>3. HasFirstPass(input, params)
    BY <1>1 DEF ContractInv, MatchesInv, ModeOK, can_use_no_scan_optimization, HasFirstPass
  <1>4. PICK k \in DOMAIN Reported : TRUE
    <2>1. DOMAIN matched_rules = 1 .. Len(matched_rules) /\ Len(matched_rules) \in Nat
      BY AppendSeq DEF ContractInv, MatchesInv, IInv, ReportOK
    <2>2. Len(matched_rules) = 0 => Reported = <<>>
      BY <2>1 DEF Reported
    <2> QED
      BY <1>1, <2>1, <2>2 DEF Reported
  <1>5. Reported[k] \in 1 .. cursor - 1 /\ Reported[k] \in PublicRules
    BY <1>1, ReportIsRight DEF Right
  <1> QED
    BY <1>1, <1>2, <1>3, <1>5 DEF PublicRules, IsGlobal

LEMMA ContractStep ==
    ASSUME ContractInv, PanicsAlike, StringsInOrder(scanner),
           ReadsWhatIsKnown(input, params), [Next]_vars
    PROVE  \/ [Contract!Next]_<<Status, Returned>>
           \/ LeavesReport /\ Contract!LeavesGlobals
  <1> USE DEF ContractInv
  <1>0. /\ IInv /\ Given /\ cursor \in Nat \ {0}
        /\ NbGlobals \in Nat /\ Len(Chain) \in Nat /\ NbGlobals <= Len(Chain)
        /\ DOMAIN Chain = 1 .. Len(Chain)
    BY Counts, ChainConditions DEF MatchesInv, IInv, CursorOK
  <1>1. ASSUME phase # "done", phase' # "done"
        PROVE  UNCHANGED <<Status, Returned>>
    BY <1>1 DEF Status, Returned
  <1>2. phase # "done" => Status = "scanning"
    BY DEF Status
  <1>3. ASSUME phase' = "done", result' # "Panic"
        PROVE  Status' = result' /\ Returned' = Reported'
    BY <1>3 DEF Status, Returned
  <1>4. matched_rules' = matched_rules => Reported' = Reported
    BY DEF Reported
  <1>5. matched_rules' = <<>> => Reported' = <<>>
    <2>1. DOMAIN <<>> = {}
      OBVIOUS
    <2> QED
      BY <2>1 DEF Reported
  \* The ends of a scan.
  <1>6. ASSUME phase \notin {"start", "done"}, phase' = "done", result' = "ok",
               Right(Returned'), Full(Returned')
        PROVE  Contract!Next
    BY <1>0, <1>2, <1>3, <1>6, ContractTerms DEF Contract!Next, Contract!Complete
  <1>7. ASSUME phase \notin {"start", "done"}, phase' = "done", result' = "Timeout",
               Right(Returned')
        PROVE  Contract!Next
    BY <1>0, <1>2, <1>3, <1>7, ContractTerms DEF Contract!Next, Contract!Interrupt
  <1>8. ASSUME phase # "done", phase' = "done", result' = "Panic",
               cursor \in DOMAIN Chain, Outcomes[cursor] = "Panic"
        PROVE  Contract!Next
    <2>1. Status' = "Panic" /\ Returned' = <<>>
      BY <1>8 DEF Status, Returned
    <2> QED
      BY <1>0, <1>2, <1>8, <2>1, ContractTerms DEF Contract!Next, Contract!Unwind
  <1>9. CASE NoScanDecided \/ EvalDone
    <2>1. /\ phase \in {"no_scan_rules", "eval"} /\ cursor > Len(Chain)
          /\ phase' = "done" /\ result' = "ok" /\ matched_rules' = matched_rules
      BY <1>9 DEF NoScanDecided, EvalDone, Finish
    <2>2. Returned' = Reported
      BY <1>3, <1>4, <2>1
    <2> QED
      BY <1>6, <2>1, <2>2, ReportIsRight, ReportIsFull
  <1>10. CASE NoScanFalseGlobal \/ EvalFalseGlobal
    <2>1. /\ phase \in {"no_scan_globals", "eval"} /\ IsGlobal(cursor)
          /\ phase' = "done" /\ result' = "ok"
          /\ \/ NoScanFalseGlobal /\ matched_rules' = matched_rules
             \/ matched_rules' = <<>>
          /\ \/ phase = "no_scan_globals" /\ NoScanResult = "false"
             \/ phase = "eval" /\ EvalResult = "false"
      BY <1>10 DEF NoScanFalseGlobal, EvalFalseGlobal, Finish, IsGlobal
    <2>2. cursor \in DOMAIN Chain /\ cursor <= Len(Chain)
      BY <1>0, <2>1 DEF IsGlobal
    <2>3. Outcomes[cursor] = "false"
      BY <2>1, <2>2, NoScanOutcome, EvalOutcome DEF Decisions
    <2>4. ~GlobalsHold
      BY <2>1, <2>2, <2>3 DEF GlobalsHold
    <2>5. (NoScanFalseGlobal /\ Returned' = Reported) \/ Returned' = <<>>
      BY <1>3, <1>4, <1>5, <2>1
    <2>6. CASE Returned' = <<>>
      BY <1>6, <2>1, <2>4, <2>6, ReportIsRight DEF Full
    <2>7. CASE NoScanFalseGlobal /\ Returned' = Reported /\ Reported # <<>>
      <3>1. phase = "no_scan_globals" /\ can_use_no_scan_optimization
        BY <2>7 DEF NoScanFalseGlobal, MatchesInv, ModeOK
      <3>2. cursor \in Contract!Globals /\ Outcomes[cursor] = "false"
        BY <1>0, <2>1, <2>2, <2>3, ContractTerms
      <3>3. \A k \in DOMAIN Reported :
                /\ Reported[k] \in PublicRules /\ Contract!Holds(Reported[k])
                /\ Reported[k] \in 1 .. cursor - 1
        BY <3>1, ReportIsRight DEF Right, Contract!Holds
      <3>4. Contract!InOrder(Reported)
        BY <3>1, ReportIsRight DEF Right, Contract!InOrder
      <3>5. Status = "scanning" /\ Status' = "ok" /\ Returned' = Reported
        BY <1>2, <1>3, <2>1, <2>7
      <3>6. Contract!LeavesGlobals
        BY <3>1, <3>2, <3>3, <3>4, <3>5 DEF Contract!LeavesGlobals
      <3> QED
        BY <2>7, <3>6 DEF LeavesReport
    <2> QED
      BY <2>5, <2>6, <2>7
  <1>11. CASE EvaluationPanics
    <2>1. /\ phase' = "done" /\ result' = "Panic"
          /\ \/ phase = "no_scan_globals" /\ cursor <= NbGlobals
             \/ phase \in {"no_scan_rules", "eval"} /\ cursor <= Len(Chain)
          /\ \/ phase = "eval" /\ EvalResult \in {"Panic", "Undecidable"}
             \/ phase # "eval" /\ NoScanResult = "Panic"
      BY <1>11 DEF EvaluationPanics, Evaluating, Finish
    <2>2. cursor \in DOMAIN Chain /\ cursor <= Len(Chain)
      BY <1>0, <2>1
    <2>3. Outcomes[cursor] = "Panic"
      BY <2>1, <2>2, NoScanOutcome, EvalOutcome DEF Decisions
    <2> QED
      BY <1>8, <2>1, <2>2, <2>3
  <1>12. CASE TimeoutExpires
    <2>1. /\ phase \in {"no_scan_globals", "no_scan_rules", "eval", "memory"}
          /\ phase' = "done" /\ result' = "Timeout" /\ matched_rules' = matched_rules
      BY <1>12 DEF TimeoutExpires, Evaluating, Finish
    <2>2. Returned' = Reported
      BY <1>3, <1>4, <2>1
    <2> QED
      BY <1>7, <2>1, <2>2, ReportIsRight
  <1>13. CASE StartScan \/ NoScanGlobal \/ NoScanGlobalsKnown \/ NoScanGlobalsUnknown
              \/ NoScanRule \/ NoScanRuleUndecidable \/ ScanRegion \/ MemoryScanned
              \/ EvalRule
    BY <1>1, <1>13 DEF StartScan, NoScanGlobal, NoScanGlobalsKnown,
       NoScanGlobalsUnknown, NoScanRule, NoScanRuleUndecidable, FallBack, ScanRegion,
       MemoryScanned, EvalRule
  <1>14. CASE UNCHANGED vars
    BY <1>14 DEF vars, Status, Returned, Reported
  <1> QED
    BY <1>9, <1>10, <1>11, <1>12, <1>13, <1>14 DEF Next

-----------------------------------------------------------------------------
(* Scans that do not panic. *)

\* The results that rule i may read, and the strings it may name: each condition stays
\* within them, and within the depth of the stack.
EarlierRules(s, i) == IF i <= Len(s.global_rules) THEN 0 ELSE i - 1 - Len(s.global_rules)
ConditionsFit(s) ==
    \A i \in DOMAIN ChainOf(s) :
        Fits(ChainOf(s)[i].condition, EarlierRules(s, i), ChainOf(s)[i].nb_variables)

LEMMA FittingRule ==
    ASSUME Given, ConditionsFit(scanner), NEW i \in DOMAIN Chain,
           NEW ctx, ContextOK(ctx), ~ctx.overflow_checks,
           Len(ctx.previous) = EarlierRules(scanner, i),
           ctx.var_matches.known => Len(ctx.var_matches.of) = Chain[i].nb_variables
    PROVE  evaluate_rule(ctx, Chain[i].condition) # "Panic"
  <1> DEFINE e == Chain[i].condition
             results == EarlierRules(scanner, i)
             strings == Chain[i].nb_variables
  <1>1. Chain = ChainOf(scanner) /\ ScannerOK(scanner)
    BY DEF Chain, ChainOf, Given, ScanOK
  <1>2. Fits(e, results, strings)
    BY <1>1 DEF ConditionsFit
  <1>3. e \in Expression
    BY ChainConditions
  <1>4. strings \in Nat
    BY <1>1, ChainType
  <1>5. ctx.previous \in Seq(BOOLEAN)
    BY DEF ContextOK
  <1>6. Len(ctx.previous) \in Nat
    BY <1>5
  <1> HIDE DEF e, results, strings
  <1>7. results \in Nat /\ results <= Len(ctx.previous)
    BY <1>6 DEF results
  <1>8. ctx.var_matches.known => strings <= Len(ctx.var_matches.of)
    BY <1>4 DEF strings
  <1>9. Room(ctx, results, strings)
    BY <1>4, <1>7, <1>8 DEF Room
  <1>10. Eval(ctx, e) # Panic
    BY <1>2, <1>3, <1>9, EvaluationsDoNotPanic
  <1>11. RuleResult(Eval(ctx, e)) # "Panic"
    <2> DEFINE v == Eval(ctx, e)
    <2>1. v # Panic
      BY <1>10
    <2> HIDE DEF v
    <2>2. RuleResult(v) # "Panic"
      BY <2>1 DEF RuleResult
    <2> QED
      BY <2>2 DEF v
  <1> QED
    BY <1>11, RuleResults DEF e

\* A rule that fits decides, when it reads the results of the rules before it.
LEMMA FittingReference ==
    ASSUME Given, StringsInOrder(scanner), ConditionsFit(scanner), NEW i \in DOMAIN Chain,
           NEW previous \in Seq(BOOLEAN), Len(previous) = EarlierRules(scanner, i)
    PROVE  evaluate_rule(ReferenceContext(i, previous), Chain[i].condition)
              \in {"true", "false"}
  <1> DEFINE c == ReferenceContext(i, previous)
  <1>1. /\ ContextOK(c)
        /\ c.var_matches = [known |-> TRUE, of |-> OwnMatches(i)]
        /\ evaluate_rule(c, Chain[i].condition) \in Decisions
    BY ReferenceDecides
  <1>2. c.previous = previous /\ ~c.overflow_checks
    BY DEF ReferenceContext, ScanContext
  <1> HIDE DEF c
  <1>3. Len(c.var_matches.of) = Chain[i].nb_variables
    BY <1>1, OwnMatchesType
  <1>4. evaluate_rule(c, Chain[i].condition) # "Panic"
    BY <1>1, <1>2, <1>3, FittingRule
  <1> QED
    BY <1>1, <1>4 DEF Decisions, c

LEMMA FittingOutcome ==
    ASSUME Given, StringsInOrder(scanner), ConditionsFit(scanner), NEW i \in DOMAIN Chain
    PROVE  Outcomes[i] # "Panic"
  <1> DEFINE previous == ResultsBefore(Outcomes, i)
             n == EarlierRules(scanner, i)
  <1>1. ScannerOK(scanner) /\ NbGlobals \in Nat /\ i \in Nat
    BY Counts, ChainConditions DEF Given, ScanOK
  <1>2. n \in Nat /\ 1 .. i - 1 - NbGlobals = 1 .. n
    BY <1>1 DEF EarlierRules, NbGlobals
  <1> HIDE DEF n
  <1>3. previous = [k \in 1 .. n |-> Outcomes[NbGlobals + k] = "true"]
    BY <1>2 DEF ResultsBefore
  <1> HIDE DEF previous
  <1>4. previous \in Seq(BOOLEAN) /\ Len(previous) = n
    BY <1>2, <1>3
  <1>5. evaluate_rule(ReferenceContext(i, previous), Chain[i].condition)
           \in {"true", "false"}
    BY <1>4, FittingReference DEF n
  <1>6. Outcomes[i] = evaluate_rule(ReferenceContext(i, previous), Chain[i].condition)
    BY <1>1, ChainConditions, OutcomesAre DEF AreOutcomes, OutcomeOf, previous
  <1> QED
    BY <1>5, <1>6

\* The results read are those of the rules before the cursor, one each.
LEMMA ResultsRead ==
    ASSUME IInv, cursor \in DOMAIN Chain,
           phase \in {"no_scan_globals", "no_scan_rules", "eval"}
    PROVE  /\ previous_results \in Seq(BOOLEAN)
           /\ Len(previous_results) = EarlierRules(scanner, cursor)
  <1>1. previous_results \in Seq(BOOLEAN)
    BY DEF IInv, ResultsOK
  <1>2. CASE phase = "no_scan_globals"
    <2>1. previous_results = <<>> /\ cursor \in Nat /\ cursor <= NbGlobals + 1
      BY <1>2 DEF IInv, ResultsOK, CursorOK
    <2>2. EarlierRules(scanner, cursor) = 0
      BY <2>1, Counts DEF EarlierRules, NbGlobals, IInv
    <2> QED
      BY <1>1, <2>1, <2>2
  <1>3. CASE phase # "no_scan_globals"
    BY <1>1, <1>3
       DEF IInv, ResultsOK, PreviousResultsAligned, EarlierRules, NbGlobals,
           IsGlobal
  <1> QED
    BY <1>2, <1>3

LEMMA FittingNoScan ==
    ASSUME Given, IInv, ModeOK, ReadOK, ConditionsFit(scanner), cursor \in DOMAIN Chain,
           phase \in {"no_scan_globals", "no_scan_rules"}
    PROVE  NoScanResult # "Panic"
  <1> DEFINE c == Context(FALSE, <<>>)
  <1>1. Len(previous_results) = EarlierRules(scanner, cursor)
    BY ResultsRead
  <1>2. /\ ContextOK(c)
        /\ c.previous = previous_results /\ ~c.var_matches.known
        /\ ~c.overflow_checks
    BY NoScanContext
  <1> HIDE DEF c
  <1>3. evaluate_rule(c, Chain[cursor].condition) # "Panic"
    BY <1>1, <1>2, FittingRule
  <1> QED
    BY <1>3 DEF NoScanResult, c

LEMMA FittingPanicsAlike ==
    ASSUME Given, MatchesInv, ReadOK, StringsInOrder(scanner), ConditionsFit(scanner)
    PROVE  PanicsAlike
  <1> SUFFICES ASSUME phase \in {"no_scan_globals", "no_scan_rules"},
                      cursor \in DOMAIN Chain, NoScanResult \in Decisions
               PROVE  NoScanResult = "Panic" <=> Outcomes[cursor] = "Panic"
    BY DEF PanicsAlike
  <1>1. Outcomes[cursor] # "Panic"
    BY FittingOutcome
  <1>2. NoScanResult # "Panic"
    BY FittingNoScan DEF MatchesInv
  <1> QED
    BY <1>1, <1>2

\* The scanner has the strings that its rules count, in whatever order.
IsCount(upto, s) ==
    /\ upto \in [0 .. Len(ChainOf(s)) -> 0 .. Len(s.variables)]
    /\ upto[0] = 0
    /\ \A i \in DOMAIN ChainOf(s) : upto[i] = upto[i - 1] + ChainOf(s)[i].nb_variables
StringsCounted(s) ==
    \E upto \in [0 .. Len(ChainOf(s)) -> 0 .. Len(s.variables)] : IsCount(upto, s)

\* Those of the rules before the cursor have been handed out.
CountedOK ==
    \A upto : IsCount(upto, scanner) =>
        /\ phase \in {"start", "no_scan_globals", "no_scan_rules", "memory"} =>
              var_index = 0
        /\ phase = "eval" => var_index = upto[cursor - 1]

LEMMA CountedSteps ==
    ASSUME IInv, CountedOK, [Moves]_vars
    PROVE  CountedOK'
  <1> SUFFICES ASSUME NEW upto, IsCount(upto, scanner')
               PROVE  /\ phase' \in {"start", "no_scan_globals", "no_scan_rules",
                                     "memory"} => var_index' = 0
                      /\ phase' = "eval" => var_index' = upto[cursor' - 1]
    BY DEF CountedOK
  <1> DEFINE Out == /\ phase \in {"start", "no_scan_globals", "no_scan_rules",
                                  "memory"} => var_index = 0
                    /\ phase = "eval" => var_index = upto[cursor - 1]
  <1>0. UNCHANGED scanner
    BY DEF Moves, vars, config, StartScan, NoScanGlobalsKnown, ScanRegion, MemoryScanned,
       JudgesGlobal, JudgesRule, Judges, Judged, GivesUp, FallBack, Ends
  <1>1. Out /\ upto[0] = 0
    BY <1>0 DEF CountedOK, IsCount
  <1>2. CASE Judges
    <2>1. /\ phase = "eval" /\ phase' = "eval"
          /\ cursor <= Len(Chain) /\ cursor' = cursor + 1
          /\ var_index' = var_index + Chain[cursor].nb_variables
      BY <1>2 DEF Judges, Judged
    <2>2. Chain = ChainOf(scanner) /\ cursor \in Nat \ {0}
      BY DEF Chain, ChainOf, IInv, CursorOK
    <2>3. cursor \in DOMAIN ChainOf(scanner)
      BY <2>1, <2>2, ChainType DEF IInv
    <2>4. upto[cursor] = upto[cursor - 1] + Chain[cursor].nb_variables
      BY <1>0, <2>2, <2>3 DEF IsCount
    <2>5. cursor' - 1 = cursor
      BY <2>1, <2>2
    <2> QED
      BY <1>1, <2>1, <2>4, <2>5
  <1>3. CASE MemoryScanned
    <2>1. /\ phase = "memory" /\ phase' = "eval" /\ cursor' = 1
          /\ var_index' = var_index
      BY <1>3 DEF MemoryScanned
    <2>2. cursor' - 1 = 0
      BY <2>1
    <2> QED
      BY <1>1, <2>1, <2>2
  <1>4. CASE StartScan \/ ScanRegion \/ NoScanGlobalsKnown
    BY <1>1, <1>4 DEF StartScan, ScanRegion, NoScanGlobalsKnown
  <1>5. CASE JudgesGlobal \/ JudgesRule
    BY <1>1, <1>5 DEF JudgesGlobal, JudgesRule, Judged
  <1>6. CASE GivesUp
    BY <1>1, <1>6 DEF GivesUp, FallBack
  <1>7. CASE Ends \/ UNCHANGED vars
    BY <1>1, <1>7 DEF Ends, vars
  <1> QED
    BY <1>2, <1>3, <1>4, <1>5, <1>6, <1>7 DEF Moves

\* So the rule at the cursor is given as many lists of matches as it counts strings.
LEMMA FittingEval ==
    ASSUME Given, IInv, FoundOK, ReadOK, CountedOK, StringsCounted(scanner),
           ConditionsFit(scanner), phase = "eval", cursor <= Len(Chain)
    PROVE  EvalResult \in {"true", "false"}
  <1> DEFINE n == Chain[cursor].nb_variables
             values == module_values
             c == Context(TRUE, Own(matches))
  <1>1. PICK upto : IsCount(upto, scanner)
    BY DEF StringsCounted
  <1>2. cursor \in DOMAIN Chain /\ Chain = ChainOf(scanner) /\ ScannerOK(scanner)
    <2>1. cursor \in DOMAIN Chain
      BY ChainConditions DEF IInv, CursorOK
    <2> QED
      BY <2>1 DEF IInv, Chain, ChainOf
  <1>3. n \in Nat /\ cursor \in Nat \ {0}
    BY <1>2, ChainType
  <1>4. /\ upto[cursor] = upto[cursor - 1] + n /\ var_index = upto[cursor - 1]
        /\ cursor \in 0 .. Len(Chain) /\ cursor - 1 \in 0 .. Len(Chain)
        /\ upto \in [0 .. Len(Chain) -> 0 .. Len(scanner.variables)]
    <2>1. DOMAIN Chain = 1 .. Len(Chain) /\ Len(Chain) \in Nat
      BY ChainConditions
    <2>2. cursor \in 0 .. Len(Chain) /\ cursor - 1 \in 0 .. Len(Chain)
      BY <1>3, <2>1
    <2>3. var_index = upto[cursor - 1]
      BY <1>1 DEF CountedOK
    <2> QED
      BY <1>1, <1>2, <2>2, <2>3 DEF IsCount
  <1>5. /\ Len(scanner.variables) \in Nat
        /\ DOMAIN scanner.variables = 1 .. Len(scanner.variables)
        /\ \A v \in DOMAIN scanner.variables :
              scanner.variables[v] \in Range(scanner.variables)
    BY VariablesType
  <1>6. matches \in Seq(Seq(Offsets)) /\ Len(matches) = Len(scanner.variables)
    <2>1. \A v \in DOMAIN scanner.variables : matches[v] \in Seq(Offsets)
      BY <1>5, AllMatchesType DEF FoundOK
    <2>2. matches = [v \in DOMAIN scanner.variables |-> matches[v]]
      BY DEF FoundOK
    <2>3. matches \in [1 .. Len(scanner.variables) -> Seq(Offsets)]
      BY <1>5, <2>1, <2>2
    <2> QED
      BY <1>5, <2>3
  <1>7. var_index \in Nat /\ var_index + n <= Len(matches)
    <2>1. upto[cursor] \in 0 .. Len(scanner.variables) /\ upto[cursor - 1] \in Nat
      BY <1>4
    <2> QED
      BY <1>4, <1>5, <1>6, <2>1
  <1>8. Own(matches) = SubSeq(matches, var_index + 1, var_index + n)
    BY DEF Own
  <1> HIDE DEF n
  <1>9. Own(matches) \in Seq(Seq(Offsets)) /\ Len(Own(matches)) = n
    <2>1. Own(matches) = [i \in 1 .. n |-> matches[var_index + i]]
      BY <1>3, <1>6, <1>7, <1>8, Slice
    <2>2. \A i \in 1 .. n : matches[var_index + i] \in Seq(Offsets)
      <3>1. \A i \in 1 .. n : var_index + i \in 1 .. Len(matches)
        BY <1>3, <1>6, <1>7
      <3> QED
        BY <1>6, <3>1, ElementOfSeq
    <2>3. Own(matches) \in [1 .. n -> Seq(Offsets)]
      BY <2>1, <2>2
    <2> QED
      BY <1>3, <2>1, <2>3
  <1>10. SeenRegions = FetchedRegions
    BY DEF SeenRegions, Seen
  <1>11. FirstRead \in [int : Nat] \cup {Undefined}
    <2>1. EntrypointIn(FetchedRegions) \in [int : Nat] \cup {Undefined}
      BY RegionsValues
    <2> QED
      BY <1>10, <2>1, DirectEntrypoint DEF FirstRead, ReadOK
  <1>12. ModulesOK(values)
    <2>1. FetchedRegions \in SUBSET FetchedRegions
      OBVIOUS
    <2> QED
      BY <1>10, <2>1, RegionsValues DEF ReadOK
  <1>13. previous_results \in Seq(BOOLEAN)
         /\ Len(previous_results) = EarlierRules(scanner, cursor)
    BY <1>2, ResultsRead
  <1>14. c = ScanContext([known |-> TRUE, of |-> Own(matches)], previous_results,
                         FirstRead, values)
    BY DEF Context, FirstRead
  <1> HIDE DEF c, values
  <1>15. ContextOK(c)
    <2>1. TRUE \in BOOLEAN
      OBVIOUS
    <2> QED
      BY <1>9, <1>11, <1>12, <1>13, <1>14, <2>1, ScanContextOK
  <1>16. /\ c.var_matches = [known |-> TRUE, of |-> Own(matches)]
         /\ c.previous = previous_results /\ c.expired = {} /\ ~c.overflow_checks
    BY <1>14 DEF ScanContext
  <1>17. evaluate_rule(c, Chain[cursor].condition) \in Decisions
    BY <1>2, <1>15, <1>16, ChainConditions, KnownDecides
  <1>18. evaluate_rule(c, Chain[cursor].condition) # "Panic"
    BY <1>2, <1>9, <1>13, <1>15, <1>16, FittingRule DEF n
  <1>19. EvalResult = evaluate_rule(c, Chain[cursor].condition)
    <2>1. ~(var_index + Chain[cursor].nb_variables > Len(matches))
      BY <1>3, <1>6, <1>7 DEF n
    <2> QED
      BY <2>1, Zenon DEF EvalResult, c
  <1> QED
    BY <1>17, <1>18, <1>19 DEF Decisions

CalmInv ==
    /\ Given /\ IInv /\ FoundOK /\ ModeOK /\ ReadOK /\ CountedOK
    /\ result # "Panic"

LEMMA StartedCalm == Started /\ Given => CalmInv
  <1> SUFFICES ASSUME Started, Given
               PROVE  CalmInv
    OBVIOUS
  <1>1. ContractInv
    BY StartedContract
  <1>2. phase = "start" /\ var_index = 0 /\ result = "none"
    BY DEF Started
  <1>3. CountedOK
    BY <1>2 DEF CountedOK
  <1> QED
    BY <1>1, <1>2, <1>3 DEF ContractInv, MatchesInv, CalmInv

\* The same of the state a step leads to.
LEMMA StartsCalm == (Started /\ Given)' => CalmInv'
  BY StartedCalm, PTL

LEMMA CalmScanStep ==
    ASSUME CalmInv, StringsCounted(scanner), ConditionsFit(scanner), [Next]_vars
    PROVE  CalmInv'
  <1> USE DEF CalmInv
  <1>1. [Moves]_vars
    BY NextMoves
  <1>2. Given'
    BY KeepsConfig, GivenStays
  <1>3. IInv' /\ FoundOK' /\ ModeOK' /\ CountedOK'
    BY <1>1, StepInv, FoundSteps, ModeSteps, CountedSteps
  <1>4. ReadOK'
    BY <1>1, ReadSteps DEF Given, ScanOK
  <1>5. ~EvaluationPanics
    <2> SUFFICES ASSUME EvaluationPanics
                 PROVE  FALSE
      OBVIOUS
    <2>1. /\ Evaluating
          /\ phase = "eval" => EvalResult \in {"Panic", "Undecidable"}
          /\ phase # "eval" => NoScanResult = "Panic"
      BY DEF EvaluationPanics
    <2>2. cursor \in DOMAIN Chain /\ phase \in {"no_scan_globals", "no_scan_rules", "eval"}
      <3>1. NbGlobals <= Len(Chain) /\ NbGlobals \in Nat /\ Len(Chain) \in Nat
            /\ cursor \in Nat \ {0} /\ DOMAIN Chain = 1 .. Len(Chain)
        BY Counts, ChainConditions DEF IInv, CursorOK
      <3> QED
        BY <2>1, <3>1 DEF Evaluating
    <2>3. phase = "eval" => cursor <= Len(Chain)
      BY <2>1 DEF Evaluating
    <2>4. phase # "eval"
      BY <2>1, <2>3, FittingEval
    <2> QED
      BY <2>1, <2>2, <2>4, FittingNoScan
  <1>6. result' # "Panic"
    BY <1>5 DEF Next, vars, StartScan, NoScanGlobal, NoScanFalseGlobal, NoScanGlobalsKnown,
       NoScanGlobalsUnknown, NoScanRule, NoScanRuleUndecidable, NoScanDecided, ScanRegion,
       MemoryScanned, EvalRule, EvalFalseGlobal, EvalDone, TimeoutExpires, Finish, FallBack
  <1> QED
    BY <1>2, <1>3, <1>4, <1>6

-----------------------------------------------------------------------------
(* The theorems. *)

\* The phases, the cursor, the results and the report fit together in every
\* state of a scan.
THEOREM Inductive == Spec => []IInv
  BY InitStarts, StartedInv, NextMoves, StepInv, PTL DEF Spec

\* Every rule is reported at most once and in the order of evaluation, whatever
\* the pass without matches had reported before it was given up.
THEOREM ReportInOrder == Spec => []ReportedOnceInOrder
  <1>1. IInv => ReportedOnceInOrder
    BY DEF IInv, ReportOK
  <1> QED
    BY <1>1, Inductive, PTL

\* When a rule is evaluated, index i of the results is the i-th rule that is
\* not global, in both passes.
THEOREM ResultsAligned == Spec => []PreviousResultsAligned
  <1>1. IInv => PreviousResultsAligned
    BY DEF IInv, ResultsOK
  <1> QED
    BY <1>1, Inductive, PTL

\* With compute_full_matches, the matches listed for a reported rule are all
\* those of its own public strings, in every region; without, they are those or
\* none: the matches are cut up by the counts of the rules alone, so the theorem
\* is about scanners whose strings are laid out in the order of evaluation.
THEOREM MatchesBelongToTheRule ==
    ASSUME \A s \in Scanners : StringsInOrder(s)
    PROVE  Spec => []MatchesAreOwn
  <1> DEFINE Inv == scanner \in Scanners /\ MatchesInv
  <1>1. Init => Inv
    <2>1. Init => scanner \in Scanners /\ input \in Inputs
      BY DEF Init, InitWith
    <2> QED
      BY <2>1, InitStarts, StartedMatches, ScannersAssumption, InputsAssumption,
         MatchesAssumption DEF ScanOK
  <1>2. Inv /\ [Next]_vars => Inv'
    <2> SUFFICES ASSUME Inv, [Next]_vars
                 PROVE  Inv'
      OBVIOUS
    <2>1. StringsInOrder(scanner)
      OBVIOUS
    <2>2. [Moves]_vars
      BY NextMoves
    <2>3. scanner' = scanner
      BY <2>2 DEF Moves, vars, config, StartScan, NoScanGlobalsKnown, ScanRegion,
             MemoryScanned, JudgesGlobal, JudgesRule, Judges, Judged, GivesUp,
             FallBack, Ends
    <2> QED
      BY <2>1, <2>2, <2>3, StepMatches
  <1>3. Inv => MatchesAreOwn
    BY DEF MatchesInv
  <1> QED
    BY <1>1, <1>2, <1>3, PTL DEF Spec

\* A scan does not panic, whatever its parameters and its memory: neither pass reads a
\* result or a string that is not there, where no condition names one, and where the
\* scanner has the strings that its rules count, even of other rules.
THEOREM FittingScansDoNotPanic ==
    ASSUME \A s \in Scanners : StringsCounted(s) /\ ConditionsFit(s)
    PROVE  Spec => [](result # "Panic")
  <1>1. Init => CalmInv /\ Chosen
    BY InitChosen, StartedCalm
  <1>2. Chosen => StringsCounted(scanner) /\ ConditionsFit(scanner)
    BY DEF Chosen
  <1>3. CalmInv /\ Chosen /\ [Next]_vars => CalmInv' /\ Chosen'
    BY <1>2, CalmScanStep, KeepsConfig DEF Chosen, config
  <1>4. CalmInv => result # "Panic"
    BY DEF CalmInv
  <1> QED
    BY <1>1, <1>3, <1>4, PTL DEF Spec

\* A scan returns what the evaluation of every rule with all the matches gives: the pass
\* without matches, the fallback, the regions and a timeout cost no rule and add none, but
\* that a global which this pass finds false leaves those reported before it.  Where there
\* is such a pass, conditions read only what it knows: no list with an undefined item, no
\* entrypoint of fragmented memory.  They may panic, if both evaluations of a rule do.
THEOREM ScansThatPanicKeepTheContract ==
    ASSUME \A s \in Scanners : StringsInOrder(s), FirstPassesReadWhatIsKnown
    PROVE  Spec /\ []PanicsAlike => KeepsContractAsBuilt
  <1>1. Init => Contract!Init
    BY DEF Init, Contract!Init, Status, Returned
  <1>2. Chosen => StringsInOrder(scanner) /\ ReadsWhatIsKnown(input, params)
    BY DEF Chosen, FirstPassesReadWhatIsKnown
  <1>3. ContractInv /\ Chosen /\ PanicsAlike /\ [Next]_vars => ContractInv' /\ Chosen'
    BY <1>2, ContractInvStep, KeepsConfig DEF Chosen, config
  <1>4. ContractInv /\ Chosen /\ PanicsAlike /\ [Next]_vars
           => [Contract!Next \/ Contract!LeavesGlobals]_<<Status, Returned>>
    BY <1>2, ContractStep
  <1> QED
    BY <1>1, <1>3, <1>4, ContractInvInit, PTL
    DEF Spec, KeepsContractAsBuilt, Contract!AsBuilt

\* The same, where a pass without matches reads only what it knows, of the scanners whose
\* conditions name rules before them and strings of theirs, as the compiler makes them:
\* these do not panic.
THEOREM ScansKeepTheContract ==
    ASSUME \A s \in Scanners : StringsInOrder(s) /\ ConditionsFit(s),
           FirstPassesReadWhatIsKnown
    PROVE  Spec => KeepsContractAsBuilt
  <1>1. Init => Contract!Init
    BY DEF Init, Contract!Init, Status, Returned
  <1>2. ContractInv /\ Chosen
           => /\ StringsInOrder(scanner) /\ ReadsWhatIsKnown(input, params)
              /\ PanicsAlike
    BY FittingPanicsAlike DEF ContractInv, Chosen, FirstPassesReadWhatIsKnown
  <1>3. ContractInv /\ Chosen /\ [Next]_vars => ContractInv' /\ Chosen'
    BY <1>2, ContractInvStep, KeepsConfig DEF Chosen, config
  <1>4. ContractInv /\ Chosen /\ [Next]_vars
           => [Contract!Next \/ Contract!LeavesGlobals]_<<Status, Returned>>
    BY <1>2, ContractStep
  <1> QED
    BY <1>1, <1>3, <1>4, ContractInvInit, PTL
    DEF Spec, KeepsContractAsBuilt, Contract!AsBuilt

\* Without a public global, there is nothing to leave: the contract is kept whole.
THEOREM ScansWithoutPublicGlobalsKeepTheContract ==
    ASSUME \A s \in Scanners : StringsInOrder(s) /\ ConditionsFit(s),
           \A s \in Scanners : \A r \in Range(s.global_rules) : r.is_private,
           FirstPassesReadWhatIsKnown
    PROVE  Spec => KeepsContract
  <1>1. Init => Contract!Init
    BY DEF Init, Contract!Init, Status, Returned
  <1>2. ContractInv /\ Chosen
           => /\ StringsInOrder(scanner) /\ ReadsWhatIsKnown(input, params)
              /\ PanicsAlike
    BY FittingPanicsAlike DEF ContractInv, Chosen, FirstPassesReadWhatIsKnown
  <1>3. ContractInv /\ Chosen /\ [Next]_vars => ContractInv' /\ Chosen'
    BY <1>2, ContractInvStep, KeepsConfig DEF Chosen, config
  <1>4. ContractInv /\ Chosen => \A g \in DOMAIN Chain : IsGlobal(g) => Chain[g].is_private
    <2> SUFFICES ASSUME ContractInv, Chosen, NEW g \in DOMAIN Chain, IsGlobal(g)
                 PROVE  Chain[g].is_private
      OBVIOUS
    <2>1. g \in DOMAIN scanner.global_rules /\ Chain[g] = scanner.global_rules[g]
      BY Counts, ChainConditions
      DEF Chain, NbGlobals, IsGlobal, ContractInv, MatchesInv, IInv, ScannerOK, IsSeq
    <2> QED
      BY <2>1 DEF Chosen, Range
  <1>5. ContractInv /\ Chosen /\ [Next]_vars => [Contract!Next]_<<Status, Returned>>
    BY <1>2, <1>4, ContractStep, LeavingScans
  <1> QED
    BY <1>1, <1>3, <1>5, ContractInvInit, PTL DEF Spec, KeepsContract, Contract!Spec

\* Without a pass that has no matches, it is kept whole too, whatever conditions read and
\* whatever panics: a scan that computes the matches first, or that changes module values
\* or fetches regions again, returns what every rule gives, and nothing when a global does
\* not hold.
THEOREM FullScansKeepTheContract ==
    ASSUME \A s \in Scanners : StringsInOrder(s),
           \A in \in Inputs, p \in Params : ~HasFirstPass(in, p)
    PROVE  Spec => KeepsContract
  <1>1. Init => Contract!Init
    BY DEF Init, Contract!Init, Status, Returned
  <1>2. ContractInv /\ Chosen
           => /\ StringsInOrder(scanner) /\ ReadsWhatIsKnown(input, params)
              /\ ~HasFirstPass(input, params) /\ PanicsAlike
    BY DEF ContractInv, MatchesInv, ModeOK, can_use_no_scan_optimization, HasFirstPass,
           Chosen, ReadsWhatIsKnown, PanicsAlike
  <1>3. ContractInv /\ Chosen /\ [Next]_vars => ContractInv' /\ Chosen'
    BY <1>2, ContractInvStep, KeepsConfig DEF Chosen, config
  <1>4. ContractInv /\ Chosen /\ [Next]_vars => [Contract!Next]_<<Status, Returned>>
    BY <1>2, ContractStep, LeavingScans
  <1> QED
    BY <1>1, <1>3, <1>4, ContractInvInit, PTL DEF Spec, KeepsContract, Contract!Spec

=============================================================================
