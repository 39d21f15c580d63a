------------------------------- MODULE Texts -------------------------------
(***************************************************************************)
(* Texts as sequences of characters, here strings of length one, and the   *)
(* scanning helpers of the Rust standard library that crates/vyer-server   *)
(* uses on them (str::find, starts_with, contains, bytes().filter).        *)
(***************************************************************************)
EXTENDS Integers, Sequences, FiniteSets, FiniteSetsExt

Letters   == {"a", "b", "r", "w", "_"}
Capitals  == {"A", "B"}
IdentByte == Letters \cup Capitals \cup {"9"}

\* The character that quotes raw strings in Go and templates in JavaScript.
Backtick == "backtick"

At(t, i) == IF i \in DOMAIN t THEN t[i] ELSE ""

Matches(t, i, word) ==
    /\ i + Len(word) - 1 <= Len(t)
    /\ \A k \in DOMAIN word : t[i + k - 1] = word[k]

Holds(t, word) == \E i \in 1..(Len(t) + 1) : Matches(t, i, word)

StartsWith(t, word) == Matches(t, 1, word)

EndsWith(t, word) == Len(word) <= Len(t) /\ Matches(t, Len(t) - Len(word) + 1, word)

\* The first k >= from where word starts, or Len(t) + 1.
Find(t, from, word) ==
    Min({k \in from..Len(t) : Matches(t, k, word)} \cup {Len(t) + 1})

\* One past the closing word, or one past the end of the text.
PastClosing(t, from, word) == Min({Find(t, from, word) + Len(word), Len(t) + 1})

\* The line, from 1, that position i is on.
LineAt(t, i) == 1 + Cardinality({k \in 1..(i - 1) : t[k] = "\n"})

LowerChar(c) == IF c = "A" THEN "a" ELSE IF c = "B" THEN "b" ELSE c

Lower(t) == [i \in DOMAIN t |-> LowerChar(t[i])]

=============================================================================
