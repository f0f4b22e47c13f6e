------------------------------- MODULE Parser --------------------------------
(* boreal-parser: the text of a rules file becomes a syntax tree.  The user    *)
(* writes a file one part at a time, or changes one piece of its text, and     *)
(* parse (boreal-parser/src/lib.rs) reads each text from nothing.              *)
EXTENDS RuleText, TextEdits, SyntaxTree

CONSTANTS
    Blank, OpenComment, Alphanumeric, MaxRecursion,    \* see module Nom
    Budgets,      \* [conditions to begin with -> changes made from each]
    Frames(_),    \* the conditions written around a given one
    Modifiers, Values, Tags, Metas, Flags, Components, \* what can be added
    Insertions    \* pieces that are inserted in a text

VARIABLES
    file,      \* what the user wrote: components, then one rule
    text,      \* the pieces the file is made of
    edited,    \* a piece of the text was changed: it is not that of `file`
    budget,    \* changes left
    result     \* what parse returns, Refused for an error

vars == <<file, text, edited, budget, result>>

INSTANCE Nom WITH Grammar <- RuleProductions, Closure <- RuleClosure

parse(input) ==
    LET r == Parse[parse_yara_file, NewInput(input)] IN IF IsOk(r) THEN r.v ELSE Refused

-----------------------------------------------------------------------------
(* Tokens written with a blank after each, or only where two would be read as  *)
(* one.                                                                       *)

Wordlike == Letter \cup Digit \cup RegexLiteral
Sigils == {"$", "#", "@", "!"}
NeedBlank(left, right) ==
    /\ Last(left) \in Wordlike \cup Sigils
    /\ Head(right) \in Wordlike

Spaced(tokens) == FlattenSeq([i \in DOMAIN tokens |-> Append(tokens[i], " ")])
Tight(tokens) ==
    FlattenSeq([i \in DOMAIN tokens |->
        IF i < Len(tokens) /\ NeedBlank(tokens[i], tokens[i + 1])
        THEN Append(tokens[i], " ") ELSE tokens[i]])

-----------------------------------------------------------------------------

rule_ == Last(file)
condition_ == rule_.args[6]
NewRule(c) ==
    Tree("rule", <<Leaf("flags"), Tree("name", <<Leaf("x")>>), Leaf("tags"), Leaf("metas"),
                   Leaf("strings"), c>>)

Init ==
    \E c \in DOMAIN Budgets :
        /\ file = <<NewRule(c)>>
        /\ text = Spaced(FileTokens(file))
        /\ result = parse(text)
        /\ budget = Budgets[c]
        /\ edited = FALSE

\* The user saves the file, and the parser reads it.
Write(f) ==
    LET pieces == Spaced(FileTokens(f))
    IN  /\ budget > 0 /\ ~edited
        /\ budget' = budget - 1
        /\ file' = f
        /\ text' = pieces
        /\ result' = parse(pieces)
        /\ UNCHANGED edited

WriteRule(r) == Write(Append(Front(file), r))
AddTo(i, part) == WriteRule([rule_ EXCEPT !.args[i].args = Append(@, part)])

WriteCondition == \E c \in Frames(condition_) : WriteRule([rule_ EXCEPT !.args[6] = c])
WriteFlag == \E f \in Flags : AddTo(1, f)
WriteTag == \E t \in Tags : AddTo(3, t)
WriteMeta == \E m \in Metas : AddTo(4, m)
WriteString ==
    \E v \in Values :
        AddTo(5, Tree("string", <<Tree("name", <<Leaf("a")>>), v, Leaf("modifiers")>>))
WriteModifier ==
    LET strings_ == rule_.args[5].args
    IN  /\ strings_ # <<>>
        /\ \E m \in Modifiers :
            WriteRule([rule_ EXCEPT !.args[5].args[Len(strings_)].args[3].args = Append(@, m)])
WriteComponent == \E c \in Components : Write(<<c>> \o file)

\* One piece is changed, in a file that is a rule with only a condition.
EditText ==
    /\ budget > 0 /\ ~edited
    /\ file = <<NewRule(condition_)>>
    /\ edited' = TRUE
    /\ text' \in Edits(text, Insertions)
    /\ result' = parse(text')
    /\ UNCHANGED <<file, budget>>

Next ==
    \/ WriteCondition \/ WriteFlag \/ WriteTag \/ WriteMeta \/ WriteString \/ WriteModifier
    \/ WriteComponent
    \/ EditText

Spec == Init /\ [][Next]_vars

-----------------------------------------------------------------------------
(* What the text means, from RuleText. *)

RECURSIVE Numbers(_)
Numbers(e) ==
    IF e.op = "int" THEN {e.args[1].op} ELSE UNION {Numbers(e.args[i]) : i \in DOMAIN e.args}

\* boolean_expression is called first, at 1.
FitsTheLimit == 1 + Nesting(condition_, 1, FALSE) <= MaxRecursion.expr
FitsAnInteger == Numbers(rule_) \cap TooLarge = {}

Allowed(value) ==
    CASE value.op = "bytes" -> {"wide", "ascii", "nocase", "fullword", "private", "xor", "base64"}
      [] value.op = "regex" -> {"wide", "ascii", "nocase", "fullword", "private"}
      [] value.op = "hex" -> {"private"}

StringIsValid(s) ==
    ModifiersAreValid(s.args[3].args) /\ Kinds(s.args[3].args) \subseteq Allowed(s.args[2])

StringsAreValid == \A i \in DOMAIN rule_.args[5].args : StringIsValid(rule_.args[5].args[i])

\* Everything but the modifiers; the flags are a set.
WithoutModifiers(components) ==
    [i \in DOMAIN components |->
        IF components[i].op # "rule" THEN components[i]
        ELSE [components[i] EXCEPT
                !.args[1] = FlagSet(@.args),
                !.args[5].args = [k \in DOMAIN @ |-> [@[k] EXCEPT !.args[3] = Leaf("modifiers")]]]]

\* A file is read as it was written: the operators bind by their precedence
\* (primary_expression.rs:750), the counters of nested calls count no sibling,
\* and no construct takes a part of another.  One whose condition nests too deep
\* or that has a number too large is refused by whichever path it is read, those
\* that go on after a Failure included (boolean_expression.rs:282,
\* for_expression.rs:100).
ReadsWhatIsWritten ==
    ~edited =>
        IF FitsTheLimit /\ FitsAnInteger
        THEN StringsAreValid =>
                /\ result # Refused
                /\ WithoutModifiers(result) = WithoutModifiers(file)
        ELSE result = Refused

\* The modifiers of a string are accepted whatever their order, exactly when no
\* two repeat or exclude each other, and mean the set of them (rule.rs:307).
ModifiersMeanTheirSet ==
    ~edited =>
        /\ ~StringsAreValid => result = Refused
        /\ result # Refused =>
            LET written == rule_.args[5].args
                read == Last(result).args[5].args
            IN  \A i \in DOMAIN written :
                    Meaning(read[i].args[3].args) = Meaning(written[i].args[3].args)

\* The pieces that say something: not the blanks, nor the parentheses.
Significant(pieces) == SelectSeq(pieces, LAMBDA p : p \notin Blank \cup {"(", ")"})

\* A percent sign after the regular expression of `matches` and not before `of`
\* is read as nothing (for_expression.rs:81).
WithoutStrayPercent(pieces) ==
    LET stray(i) == /\ pieces[i] = "%"
                    /\ i > 1 /\ pieces[i - 1] \in RegexLiteral
                    /\ i = Len(pieces) \/ pieces[i + 1] # "of"
    IN  FlattenSeq([i \in DOMAIN pieces |-> IF stray(i) THEN <<>> ELSE <<pieces[i]>>])

\* Whatever the text, what was read from it is made as the compiler expects it
\* (expression/mod.rs:83) and says everything that it says.
NothingIsLost ==
    edited /\ result # Refused =>
        /\ IsCondition(Last(result).args[6])
        /\ WithoutStrayPercent(Significant(text)) = Significant(FlattenSeq(FileTokens(result)))

\* The blanks between two tokens that cannot be read as one change nothing.
BlanksDoNotMatter == ~edited => parse(Tight(FileTokens(file))) = result
==============================================================================
