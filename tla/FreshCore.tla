---------------------------- MODULE FreshCore ----------------------------
(***************************************************************************)
(* What the warm core promises (crates/vyer-incr/src/lib.rs, module doc    *)
(* and the comments of set_text and text): every query answers as if it    *)
(* were computed from scratch from the texts and the parser of that        *)
(* instant.  There is no memo, no hash and no revision here.               *)
(***************************************************************************)
CONSTANTS Files, Texts, Parsers, Heuristic, Absent

VARIABLES inputs, parser, answer

vars == <<inputs, parser, answer>>

Tree(p, f, t) == [parser |-> p, path |-> f, text |-> t]

TreeOf(f)    == Tree(parser, f, inputs[f])
SymbolsOf(f) == [symbols |-> TreeOf(f)]
OutlineFor(f) == [outline |-> SymbolsOf(f)]
LinesOf(f)   == [lines |-> inputs[f]]

Indexed == {f \in Files : inputs[f] # Absent}

Init ==
    /\ inputs = [f \in Files |-> Absent]
    /\ parser = Heuristic
    /\ answer = [default |-> TRUE]

Write ==
    \/ /\ \E f \in Files, t \in Texts \cup {Absent} :
              inputs' = [inputs EXCEPT ![f] = t]
       /\ UNCHANGED <<parser, answer>>
    \/ /\ parser' \in Parsers
       /\ UNCHANGED <<inputs, answer>>

Ask ==
    /\ \/ \E f \in Indexed :
              answer' \in {TreeOf(f), SymbolsOf(f), OutlineFor(f), LinesOf(f)}
       \/ Indexed # Files /\ answer' = [default |-> TRUE]
       \/ answer' = [repo |-> [f \in Indexed |-> OutlineFor(f)]]
    /\ UNCHANGED <<inputs, parser>>

Spec == Init /\ [][Write \/ Ask]_vars

=============================================================================
