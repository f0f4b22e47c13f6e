------------------------------ MODULE TextEdits -------------------------------
(* What can happen to a text, a sequence of pieces, that is not written again: *)
(* one piece is lost, written twice, exchanged with the next one, or added.    *)
EXTENDS Sequences, SequencesExt

Edits(text, insertions) ==
    {RemoveAt(text, i) : i \in DOMAIN text}
    \cup {InsertAt(text, i, text[i]) : i \in DOMAIN text}
    \cup {[text EXCEPT ![i] = text[i + 1], ![i + 1] = text[i]] : i \in 1 .. Len(text) - 1}
    \cup {InsertAt(text, i, p) : i \in DOMAIN text, p \in insertions}
==============================================================================
