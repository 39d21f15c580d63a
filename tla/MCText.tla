------------------------------- MODULE MCText -------------------------------
(* The algorithms on texts and on the symbols found in them: edits of a     *)
(* text, the scanners, selection and the graph queries.  They share no      *)
(* state; a behaviour takes one of them, the subject, through its steps.    *)
EXTENDS MCSplice, CodeScan, Reading, MCNavigation

-----------------------------------------------------------------------------
(* CodeScan: a token is written out in its characters. *)

RustPieces ==
    { [code |-> TRUE, chars |-> <<"a">>],
       [code |-> TRUE, chars |-> <<"b">>],
       [code |-> TRUE, chars |-> <<"b", "a">>],
       [code |-> TRUE, chars |-> <<"(">>],
       [code |-> TRUE, chars |-> <<"{">>],
       [code |-> TRUE, chars |-> <<"}">>],
       [code |-> TRUE, chars |-> <<":", ":", "<", "b", ">">>],
       [code |-> FALSE, chars |-> <<"\"", "a", "\\", "\"", "{", "\"">>],
       [code |-> FALSE, chars |-> <<"r", "#", "\"", "a", "\"", "a", "\"", "#">>],
       [code |-> FALSE, chars |-> <<"'", "\\", "'", "'">>],
       [code |-> FALSE, chars |-> <<"'", "\"", "'">>],
       [code |-> FALSE, chars |-> <<"'", "{", "'">>],
       [code |-> TRUE, chars |-> <<"'", "r">>],
       [code |-> FALSE, chars |-> <<"/", "*", "'", "a", "*", "/">>],
       [code |-> FALSE, chars |-> <<"/", "/", "a", "\"", "{", "\n">>] }

PythonPieces ==
    { [code |-> TRUE, chars |-> <<"a">>],
       [code |-> TRUE, chars |-> <<"b">>],
       [code |-> TRUE, chars |-> <<"b", "a">>],
       [code |-> TRUE, chars |-> <<"(">>],
       [code |-> FALSE, chars |-> <<"'", "a", "\"", "'">>],
       [code |-> FALSE, chars |-> <<"\"", "\"", "\"", "a", "\"", "a", "\"", "\"", "\"">>],
       [code |-> FALSE, chars |-> <<"'", "'", "'", "a", "'", "a", "'", "'", "'">>],
       [code |-> FALSE, chars |-> <<"#", "a", "'", "\n">>],
       [code |-> FALSE, chars |-> <<"'", "\\", "'", "a", "'">>] }

JavaScriptPieces ==
    { [code |-> TRUE, chars |-> <<"a">>],
       [code |-> TRUE, chars |-> <<"b">>],
       [code |-> TRUE, chars |-> <<"b", "a">>],
       [code |-> TRUE, chars |-> <<"(">>],
       [code |-> TRUE, chars |-> <<"{">>],
       [code |-> TRUE, chars |-> <<"}">>],
       [code |-> FALSE, chars |-> <<"'", "a", "\"", "{", "'">>],
       [code |-> FALSE, chars |-> <<"\"", "'", "a", "\"">>],
       [code |-> FALSE, chars |-> <<Backtick, "a", "'", Backtick>>],
       [code |-> FALSE, chars |-> <<"/", "*", "a", "'", "*", "/">>],
       [code |-> FALSE, chars |-> <<"/", "/", "a", Backtick, "\n">>] }

GoPieces ==
    { [code |-> TRUE, chars |-> <<"a">>],
       [code |-> TRUE, chars |-> <<"b">>],
       [code |-> TRUE, chars |-> <<"b", "a">>],
       [code |-> TRUE, chars |-> <<"(">>],
       [code |-> TRUE, chars |-> <<"{">>],
       [code |-> TRUE, chars |-> <<"}">>],
       [code |-> FALSE, chars |-> <<Backtick, "a", "\\", Backtick>>],
       [code |-> FALSE, chars |-> <<"'", "\"", "'">>],
       [code |-> FALSE, chars |-> <<"'", Backtick, "'">>],
       [code |-> FALSE, chars |-> <<"\"", Backtick, "a", "\"">>],
       [code |-> FALSE, chars |-> <<"/", "*", "a", "\"", "*", "/">>] }

MCPieces == [Rust |-> RustPieces, Python |-> PythonPieces, JavaScript |-> JavaScriptPieces, Go |-> GoPieces]

-----------------------------------------------------------------------------
(* Matching *)

Words(alphabet, n) == UNION {[1..k -> alphabet] : k \in 0..n}
Items == {[atom |-> a, quant |-> q] : a \in {"a", "A", "b", ".", "\\w", "(a|b)"}, q \in {"", "?", "*", "+"}}
            \cup {Bar, [atom |-> "^", quant |-> ""], [atom |-> " ", quant |-> ""]}
Terms == {<<>>, <<"a">>, <<"b">>, <<"a", "b">>, <<"B">>}
MCSymbolLists ==
    {<<>>, <<[start |-> 1, end |-> 5], [start |-> 2, end |-> 3], [start |-> 2, end |-> 4]>>,
     <<[start |-> 2, end |-> 3], [start |-> 1, end |-> 4]>>}
MCTokens ==
    [prune  |-> Items,
     scope  |-> {"a", "/", "*", "?", "!"},
     range  |-> {[form |-> f, a |-> a, b |-> b] :
                    f \in {"tail", "head", "from", "range", "single", "bad"}, a \in 0..4, b \in 0..4},
     near   |-> {"a", "b"},
     search |-> {[list |-> l, term |-> w] : l \in {"all", "any", "none"}, w \in Terms},
     anchor |-> {"a", "b", "\n"},
     path   |-> {"a", "b", "/"},
     file   |-> {0, 40, 120, 400},
     trace  |-> [form : {"block", "inline", "frame"}, says : {"error: x", "warning: y"},
                 at : [path : {"a.rs"}, line : {0, 2, 4}]],
     corpus |-> [file : {"f", "g"}, bag : SUBSET {"x", "y"}],
     subword |-> {<<"a", "b">>, <<"b", "9", "a">>, <<"b", "b">>}]
MCMaxTokens == [prune |-> 3, scope |-> 4, range |-> 1, near |-> 3, search |-> 3, anchor |-> 3,
                path |-> 3, file |-> 4, trace |-> 3, corpus |-> 3, subword |-> 3]
MCSamples ==
    [prune  |-> Words({"a", "B", "9", " "}, 3),
     scope  |-> {<<"a">>, <<"b">>, <<"a", "b">>, <<"a", "/", "a">>, <<"a", "/", "b">>,
                 <<"b", "a", "/", "a", "b">>, <<"b", "/", "a", "/", "b">>, <<"a", "/", "a", "/", "a">>},
     range  |-> {},
     near   |-> Words({"a", "b"}, 3),
     search |-> Words({"a", "b", "\n"}, 4) \cup Words({"a", "B", "\n"}, 3),
     anchor |-> Words({"a", "b", "\n"}, 4),
     path   |-> {<<"b">>, <<"a", "b">>, <<"a", "/", "b">>, <<"b", "/", "a">>, <<"b", "/", "a", "/", "b">>},
     file   |-> {[form |-> f, a |-> a, b |-> b] : f \in {"tail", "range"}, a \in 1..3, b \in 2..3},
     trace  |-> {[total |-> n, symbols |-> s] : n \in {1, 3, 5}, s \in MCSymbolLists},
     corpus |-> UNION {[1..n -> {"x", "y", "z"}] : n \in 0..2},
     subword |-> {}]

-----------------------------------------------------------------------------
VARIABLE subject

textVars == <<subject, spliceVars, scanVars, matchVars, navVars>>

\* What is not the subject rests in one of its initial states.
TextInit ==
    /\ subject \in {"splice", "scan", "match", "nav"}
    /\ SpliceInit /\ (subject # "splice" => text = SmallText /\ eol)
    /\ ScanInit /\ (subject # "scan" => language = "Rust")
    /\ MatchInit /\ (subject # "match" => task = "range")
    /\ NavInit

TextNext ==
    /\ \/ subject = "splice" /\ SpliceNext /\ UNCHANGED <<scanVars, matchVars, navVars>>
       \/ subject = "scan" /\ ScanNext /\ UNCHANGED <<spliceVars, matchVars, navVars>>
       \/ subject = "match" /\ MatchNext /\ UNCHANGED <<spliceVars, scanVars, navVars>>
       \/ subject = "nav" /\ NavNext /\ UNCHANGED <<spliceVars, scanVars, matchVars>>
    /\ UNCHANGED subject

TextSpec == TextInit /\ [][TextNext]_textVars

=============================================================================
