----------------------------- MODULE CodeScan -----------------------------
(***************************************************************************)
(* The scanners that tell code from comments and literals without a        *)
(* parser: code_ident_lines (references), scan_idents (calls), and         *)
(* replace_word (rename) of crates/vyer-server/src/engine.rs, which repeat *)
(* the same skipping rules, and brace_balanced of apply.rs, the gate every *)
(* edit passes, which has rules of its own.                                *)
(*                                                                         *)
(* A text is a sequence of characters, here strings of length one.         *)
(***************************************************************************)
EXTENDS Integers, Sequences, FiniteSets, FiniteSetsExt, SequencesExt, Texts

\* The syntax rules of a language, from sq_is_string_lang,
\* hash_is_comment_lang, backtick_is_string_lang, triple_quote_lang and
\* raw_string_lang; gateQuote is the rule validate_reparse applies.
Rules ==
    [Rust   |-> [quote |-> FALSE, hash |-> FALSE, tick |-> FALSE, triple |-> FALSE, raw |-> TRUE],
     Python |-> [quote |-> TRUE,  hash |-> TRUE,  tick |-> FALSE, triple |-> TRUE,  raw |-> FALSE],
     JavaScript
            |-> [quote |-> TRUE,  hash |-> FALSE, tick |-> TRUE,  triple |-> FALSE, raw |-> FALSE],
     Go     |-> [quote |-> FALSE, hash |-> FALSE, tick |-> TRUE,  triple |-> FALSE, raw |-> FALSE]]

CONSTANTS
    Pieces,     \* language -> lexical tokens a file may be written with
    MaxPieces   \* bound: tokens in a file

ASSUME ScanAssumption ==
    /\ DOMAIN Pieces \subseteq DOMAIN Rules
    /\ MaxPieces \in Nat

VARIABLES
    language,   \* language of the file
    pieces      \* its tokens: [chars, code], code says whether it is code

scanVars == <<language, pieces>>

\* One past the closing quote q of a literal with backslash escapes.
PastQuoted(t, from, q) ==
    LET end[k \in from..(Len(t) + 2)] ==
            IF k > Len(t) THEN Len(t) + 1
            ELSE IF t[k] = q THEN k + 1
            ELSE IF t[k] = "\\" THEN end[k + 2]
            ELSE end[k + 1]
    IN  IF from > Len(t) THEN Len(t) + 1 ELSE end[from]

Hashes(t, i) == Max({h \in 0..(Len(t) - i + 1) : \A k \in i..(i + h - 1) : t[k] = "#"} \cup {0})

RawOpens(t, i) ==
    /\ t[i] = "r"
    /\ At(t, i - 1) \notin IdentByte
    /\ At(t, i + 1 + Hashes(t, i + 1)) = "\""

PastRawAtQuote(t, i) == PastClosing(t, i + Hashes(t, i + 1) + 2, <<"\"">>)

PastRaw(t, i) ==
    LET h == Hashes(t, i + 1)
    IN  PastClosing(t, i + h + 2, <<"\"">> \o [k \in 1..h |-> "#"])

IsCharLiteral(t, i) ==
    IF At(t, i + 1) = "\\" THEN At(t, i + 3) = "'"
    ELSE At(t, i + 1) # "'" /\ At(t, i + 2) = "'"

\* Where scanning goes on when position i does not hold code, else i: the
\* comment and literal rules, in the order the scanners try them.  A tick that
\* starts no character literal is a lifetime and only the tick is skipped.
SkipEnd(t, rules, i) ==
    IF Matches(t, i, <<"/", "/">>) \/ (rules.hash /\ t[i] = "#")
    THEN Find(t, i, <<"\n">>)
    ELSE IF Matches(t, i, <<"/", "*">>)
    THEN PastClosing(t, i + 2, <<"*", "/">>)
    ELSE IF rules.raw /\ RawOpens(t, i)
    THEN PastRaw(t, i)
    ELSE IF /\ rules.triple
            /\ t[i] \in {"\"", "'"}
            /\ Matches(t, i, <<t[i], t[i], t[i]>>)
    THEN PastClosing(t, i + 3, <<t[i], t[i], t[i]>>)
    ELSE IF t[i] = "\"" \/ (t[i] = "'" /\ rules.quote)
    THEN PastQuoted(t, i + 1, t[i])
    ELSE IF t[i] = Backtick /\ rules.tick
    THEN PastClosing(t, i + 1, <<Backtick>>)
    ELSE IF t[i] = "'"
    THEN IF IsCharLiteral(t, i) THEN i + (IF At(t, i + 1) = "\\" THEN 4 ELSE 3) ELSE i + 1
    ELSE i

\* The positions a scan visits as code.
Code(t, rules) ==
    LET from[i \in 1..(Len(t) + 1)] ==
            IF i > Len(t) THEN {}
            ELSE LET e == SkipEnd(t, rules, i)
                 IN  IF e = i THEN {i} \cup from[i + 1] ELSE from[e]
    IN  from[1]

-----------------------------------------------------------------------------
(* Identifiers *)

\* Maximal runs [from, to) of identifier bytes at the given positions that
\* start with a letter.
RunsIn(t, at) ==
    LET in[i \in 0..(Len(t) + 1)] ==
            /\ i \in at
            /\ t[i] \in IdentByte
            /\ t[i] \in Letters \/ in[i - 1]
        starts == {i \in DOMAIN t : in[i] /\ ~in[i - 1]}
    IN  {[from |-> i, to |-> Min({k \in i..(Len(t) + 1) : ~in[k]})] : i \in starts}

IdentsAnywhere(t, rules) == RunsIn(t, DOMAIN t)

\* The identifiers in code.  A digit does not start one, but what follows
\* digits does.
Idents(t, rules) == RunsIn(t, Code(t, rules))

Word(t, ident) == SubSeq(t, ident.from, ident.to - 1)

CodeIdentLines(t, name, rules) ==
    {LineAt(t, w.from) : w \in {v \in Idents(t, rules) : Word(t, v) = name}}

PastSpaces(t, i) == Min({k \in i..Len(t) : t[k] \notin {" ", "\t"}} \cup {Len(t) + 1})

\* One past the angle brackets that open at i, or the end of the text.
PastAngles(t, i) ==
    LET depth(k) == Cardinality({j \in i..k : t[j] = "<"}) - Cardinality({j \in i..k : t[j] = ">"})
    IN  1 + Min({k \in i..Len(t) : t[k] = ">" /\ depth(k) = 0} \cup {Len(t)})

InCallPositionPlain(t, i) == At(t, PastSpaces(t, i)) = "("

\* Is the identifier that ends before i called?  A turbofish may come first.
InCallPosition(t, i) ==
    LET j == PastSpaces(t, i)
        k == PastSpaces(t, j + 2)
        open == IF Matches(t, j, <<":", ":">>) /\ At(t, k) = "<"
                THEN PastSpaces(t, PastAngles(t, k)) ELSE j
    IN  At(t, open) = "("

ScanIdents(t, callsOnly, rules) ==
    {Word(t, w) : w \in {v \in Idents(t, rules) : callsOnly => InCallPosition(t, v.to)}}

WholeWordLoose(t, i, old) ==
    /\ Matches(t, i, old)
    /\ At(t, i + Len(old)) \notin IdentByte

WholeWord(t, i, old) ==
    /\ Matches(t, i, old)
    /\ At(t, i - 1) \notin IdentByte
    /\ At(t, i + Len(old)) \notin IdentByte

\* replace_word: copy what is skipped, replace old where it is a whole word.
ReplaceWord(t, old, new, rules) ==
    LET out[i \in 1..(Len(t) + 1)] ==
            IF i > Len(t) THEN <<>>
            ELSE LET e == SkipEnd(t, rules, i)
                 IN  IF e # i THEN SubSeq(t, i, e - 1) \o out[e]
                     ELSE IF WholeWord(t, i, old) THEN new \o out[i + Len(old)]
                     ELSE <<t[i]>> \o out[i + 1]
    IN  IF old = <<>> THEN t ELSE out[1]

LinesOf(t, lines) ==
    LET at == {i \in DOMAIN t : LineAt(t, i) \in lines}
    IN  IF at = {} THEN <<>> ELSE SubSeq(t, Min(at), Max(at))

\* prepare_scoped_word_rename: on the lines of a scope, scanned by themselves.
ScopedRename(t, lo, hi, old, new, rules) ==
    LET last == LineAt(t, Len(t))
    IN  LinesOf(t, 1..(lo - 1)) \o ReplaceWord(LinesOf(t, lo..hi), old, new, rules)
            \o LinesOf(t, (hi + 1)..last)

-----------------------------------------------------------------------------
(* The bracket gate *)

Opening == [x \in {")", "]", "}"} |-> IF x = ")" THEN "(" ELSE IF x = "]" THEN "[" ELSE "{"]

GateSkipEndNoChars(t, quote, i) ==
    IF Matches(t, i, <<"/", "/">>) THEN Find(t, i, <<"\n">>)
    ELSE IF t[i] = "\"" \/ (t[i] = "'" /\ quote) THEN PastQuoted(t, i + 1, t[i])
    ELSE i

\* Line comments, strings and character literals only.  Where the quote is not
\* a string, an escape is taken to be one character long.
GateSkipEnd(t, quote, i) ==
    IF Matches(t, i, <<"/", "/">>) THEN Find(t, i, <<"\n">>)
    ELSE IF t[i] = "\"" \/ (t[i] = "'" /\ quote) THEN PastQuoted(t, i + 1, t[i])
    ELSE IF t[i] # "'" THEN i
    ELSE IF At(t, i + 1) = "\\" THEN i + (IF At(t, i + 3) = "'" THEN 4 ELSE 3)
    ELSE IF At(t, i + 2) = "'" THEN i + 3
    ELSE i + 1

\* brace_balanced: every closing bracket finds its opening one on the stack and
\* none is left at the end.
BraceBalanced(t, quote) ==
    LET run[i \in 1..(Len(t) + 4), stack \in Seq({"(", "[", "{"})] ==
            IF i > Len(t) THEN stack = <<>>
            ELSE LET e == GateSkipEnd(t, quote, i)
                 IN  IF e # i THEN run[e, stack]
                     ELSE IF t[i] \in {"(", "[", "{"} THEN run[i + 1, Append(stack, t[i])]
                     ELSE IF t[i] \notin DOMAIN Opening THEN run[i + 1, stack]
                     ELSE /\ stack # <<>>
                          /\ stack[Len(stack)] = Opening[t[i]]
                          /\ run[i + 1, SubSeq(stack, 1, Len(stack) - 1)]
    IN  run[1, <<>>]

\* validate_reparse
GateAccepts(t, l) ==
    \/ l = "Python"
    \/ l \in {"Rust", "Go"} /\ BraceBalanced(t, FALSE)
    \/ l = "JavaScript" /\ BraceBalanced(t, TRUE)

-----------------------------------------------------------------------------
(* A file is written token by token, with a space after each; the grammar of  *)
(* the language makes every token code or not, whatever surrounds it.         *)

Joined(ps) == FoldLeft(LAMBDA t, p : t \o p.chars \o <<" ">>, <<>>, ps)

source == Joined(pieces)
rules  == Rules[language]

ScanInit ==
    /\ language \in DOMAIN Pieces
    /\ pieces = <<>>

Write(p) ==
    /\ Len(pieces) < MaxPieces
    /\ pieces' = Append(pieces, p)
    /\ UNCHANGED language

ScanNext == \E p \in Pieces[language] : Write(p)

ScanSpec == ScanInit /\ [][ScanNext]_scanVars

-----------------------------------------------------------------------------
(* Properties *)

SoughtNames == {<<"a">>, <<"b">>}

\* The file after its grammar's renaming of a to b in the tokens given: where
\* they are code, and in nothing else.
Renamed(ps, at) ==
    [i \in DOMAIN ps |->
        IF i \in at /\ ps[i].code /\ ps[i].chars = <<"a">> THEN [ps[i] EXCEPT !.chars = <<"b">>] ELSE ps[i]]

\* A rename changes the name in code and leaves every comment, string and
\* character literal as it was (engine.rs, SCRY-074), whatever literals stand
\* before it: one misread quote would turn code and data around for the rest
\* of the file.  A rename in a scope does so on the lines of the scope, and
\* leaves the others alone (SCRY-046).
OnlyCodeRenamed ==
    LET lineOf(i) == LineAt(source, 1 + Len(Joined(SubSeq(pieces, 1, i - 1))))
        within(lines) == Joined(Renamed(pieces, {i \in DOMAIN pieces : lineOf(i) \in lines}))
    IN  /\ ReplaceWord(source, <<"a">>, <<"b">>, rules) = Joined(Renamed(pieces, DOMAIN pieces))
        /\ \A lo \in 1..2, hi \in 1..2 :
                lo <= hi => ScopedRename(source, lo, hi, <<"a">>, <<"b">>, rules) = within(lo..hi)

\* References and renames agree on what a mention is: the lines that
\* code_ident_lines reports are the lines a rename changes, and scan_idents
\* has the name exactly if there are any.
ScannersAgree ==
    \A name \in SoughtNames :
        LET new == <<"r", "r">>
            result == ReplaceWord(source, name, new, rules)
            found == CodeIdentLines(source, name, rules)
        IN  /\ found = CodeIdentLines(result, new, rules)
            /\ CodeIdentLines(result, name, rules) = {}
            /\ (found # {}) = (name \in ScanIdents(source, FALSE, rules))

\* A name is reported as called exactly if it is code and the next token, or
\* the one after a turbofish, is an opening parenthesis.
CallsAreCalls ==
    LET called(i, w) ==
            /\ pieces[i].code
            /\ pieces[i].chars = w
            /\ \/ i < Len(pieces) /\ pieces[i + 1].chars = <<"(">>
               \/ /\ i + 1 < Len(pieces)
                  /\ Head(pieces[i + 1].chars) = ":"
                  /\ pieces[i + 2].chars = <<"(">>
    IN  \A w \in SoughtNames :
            (w \in ScanIdents(source, TRUE, rules)) = (\E i \in DOMAIN pieces : called(i, w))

\* The gate knows line comments and plain literals; of other comments and
\* literals it sees the characters.
GateKnows(p) == p.code \/ Head(p.chars) \in {"\"", "'"} \/ Matches(p.chars, 1, <<"/", "/">>)

\* The gate accepts a file of the tokens it knows exactly if the brackets of
\* its code are balanced: an edit is not refused for a bracket or a quote in a
\* literal, and not accepted for one.
GateCountsCode ==
    LET brackets == SelectSeq(pieces, LAMBDA p : p.chars \in {<<"(">>, <<"{">>, <<"}">>})
        plain == [i \in DOMAIN brackets |-> brackets[i].chars[1]]
    IN  (language # "Python" /\ \A i \in DOMAIN pieces : GateKnows(pieces[i]))
            => (GateAccepts(source, language) = BraceBalanced(plain, FALSE))

=============================================================================
