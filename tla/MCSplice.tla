------------------------------ MODULE MCSplice ------------------------------
EXTENDS Splice

-----------------------------------------------------------------------------
(* Splice: small texts, in a language with braces and in one without *)

L(kind, ind, name, id, own) ==
    [kind |-> kind, ind |-> ind, name |-> name, id |-> id, own |-> own]

\* A container with two members, the first below code that ends like a comment,
\* the second under an attribute of two lines, and a function of the same name as
\* the first member under a doc block and an attribute.
BraceText ==
    << L("class", 0, "A", 1, {1}),
       L("trailing", 1, "", 3, {1}),
       L("def", 1, "m", 2, {1, 2}), L("close", 1, "", 4, {1, 2}),
       Blank,
       L("attr", 1, "", 5, {1, 6}), L("more", 1, "", 12, {1, 6}), L("one", 1, "f", 6, {1, 6}),
       L("close", 0, "", 7, {1}),
       L("plain", 0, "", 13, {}),
       L("docOpen", 0, "", 8, {10}), L("docClose", 0, "", 9, {10}),
       L("attr", 0, "", 11, {10}), L("one", 0, "m", 10, {10}) >>

\* The same without braces; decorators instead of doc blocks, one of two lines.
IndentText ==
    << L("class", 0, "A", 1, {1}),
       L("attr", 1, "", 5, {1, 2}),
       L("def", 1, "m", 2, {1, 2}), L("stmt", 2, "", 3, {1, 2}),
       Blank,
       L("attr", 1, "", 8, {1, 6}), L("more", 1, "", 12, {1, 6}),
       L("def", 1, "f", 6, {1, 6}), L("comment", 2, "", 9, {1, 6}),
       L("stmt", 2, "", 7, {1, 6}),
       L("attr", 0, "", 11, {10}), L("one", 0, "m", 10, {10}) >>

B(kind, ind, name) == [kind |-> kind, ind |-> ind, name |-> name]

BraceBodies == { <<B("one", 0, "f")>>,
                 <<B("def", 1, "f"), B("stmt", 2, ""), B("close", 1, "")>>,
                 <<B("def", 0, "f")>> }

IndentBodies == { <<B("one", 0, "f")>>, <<B("def", 1, "f"), B("stmt", 2, "")>> }

MCBodies    == [braces |-> BraceBodies, indented |-> IndentBodies]
SmallText   == << L("one", 0, "m", 1, {1}) >>
MCOriginals == [braces |-> {BraceText, SmallText}, indented |-> {IndentText}]

\* What the theorems about edits ask of what is handed in.
ASSUME BodiesAssumption == BodiesAreBlocks

=============================================================================
