------------------------------ MODULE Matching ------------------------------
(***************************************************************************)
(* How a request selects: path scopes and globs, line ranges, the pruning  *)
(* of a search by the identifiers a pattern requires, boolean line search, *)
(* edit distance, and the anchor of a sub-symbol edit (engine.rs,          *)
(* lexical.rs and apply.rs of crates/vyer-server).                         *)
(*                                                                         *)
(* The behaviour is a caller writing one request token by token; each      *)
(* algorithm is compared with what its result means.                       *)
(***************************************************************************)
EXTENDS Integers, Sequences, FiniteSets, FiniteSetsExt, SequencesExt, Texts

CONSTANTS
    Tokens,     \* task -> tokens a request of that kind is written with
    MaxTokens,  \* task -> bound on their number
    Samples,    \* task -> texts, paths or words the request is applied to
    MinRun,     \* least length of an identifier in the index (3 in the program)
    MaxOperands \* operands of a boolean search (64 in the program)

ASSUME MatchingAssumption ==
    /\ DOMAIN Tokens = DOMAIN MaxTokens
    /\ DOMAIN Tokens = DOMAIN Samples
    /\ MinRun \in Nat
    /\ MaxOperands \in Nat
    /\ "anchor" \in DOMAIN Samples =>
        Samples["anchor"] \subseteq Seq(STRING) /\ Tokens["anchor"] \subseteq STRING
    /\ "search" \in DOMAIN Samples =>
        /\ Samples["search"] \subseteq Seq(STRING)
        /\ \A o \in Tokens["search"] : o.list \in {"all", "any", "none"} /\ o.term \in Seq(STRING)

VARIABLES
    task,       \* kind of request
    request     \* its tokens

matchVars == <<task, request>>

-----------------------------------------------------------------------------
(* Scopes *)

\* glob_inner: `*` within a segment, `**` across, swallowing a slash after it.
GlobMatch(pat, txt) ==
    LET Tail2(i) == IF At(pat, i + 2) = "/" THEN i + 3 ELSE i + 2
        m[i \in 1..(Len(pat) + 1), j \in 1..(Len(txt) + 1)] ==
            IF i > Len(pat) THEN j > Len(txt)
            ELSE IF pat[i] = "*" /\ At(pat, i + 1) = "*"
            THEN \E k \in j..(Len(txt) + 1) : m[Tail2(i), k]
            ELSE IF pat[i] = "*"
            THEN \E k \in j..(Len(txt) + 1) :
                    (\A x \in j..(k - 1) : txt[x] # "/") /\ m[i + 1, k]
            ELSE /\ j <= Len(txt)
                 /\ txt[j] = pat[i] \/ (pat[i] = "?" /\ txt[j] # "/")
                 /\ m[i + 1, j + 1]
    IN  m[1, 1]

TrimSlashes(e) ==
    LET solid == {i \in DOMAIN e : e[i] # "/"}
    IN  IF solid = {} THEN <<>> ELSE SubSeq(e, Min(solid), Max(solid))

PlainEntryAnywhere(entry, path) ==
    LET e == TrimSlashes(entry) IN e # <<>> /\ Holds(path, e)

\* A file name, a directory or a run of path segments.
PlainEntryMatch(entry, path) ==
    LET e == TrimSlashes(entry)
    IN  /\ e # <<>>
        /\ \/ path = e
           \/ EndsWith(path, <<"/">> \o e)
           \/ StartsWith(path, e \o <<"/">>)
           \/ Holds(path, <<"/">> \o e \o <<"/">>)

ScopeEntryMatch(entry, path) ==
    IF \E i \in DOMAIN entry : entry[i] \in {"*", "?"}
    THEN GlobMatch(entry, path)
    ELSE PlainEntryMatch(entry, path)

\* An entry that starts with ! excludes, wherever it stands.
PathInScope(path, scopes) ==
    LET negative == {i \in DOMAIN scopes : At(scopes[i], 1) = "!"}
        positive == DOMAIN scopes \ negative
    IN  /\ \A i \in negative : ~ScopeEntryMatch(Tail(scopes[i]), path)
        /\ positive # {} => \E i \in positive : ScopeEntryMatch(scopes[i], path)

-----------------------------------------------------------------------------
(* Line ranges *)

Largest(a, b)  == IF a > b THEN a ELSE b
Smallest(a, b) == IF a < b THEN a ELSE b

BadRange == <<0, 0>>

\* The first and last line of a spec, before they are clamped to the file.
RangeBounds(spec, total) ==
    CASE spec.form = "tail"   -> <<Largest(total - (Largest(spec.a, 1) - 1), 1), total>>
      [] spec.form = "head"   -> <<1, Largest(spec.a, 1)>>
      [] spec.form = "from"   -> <<Largest(spec.a, 1), total>>
      [] spec.form = "range"  -> <<Largest(spec.a, 1), spec.b>>
      [] spec.form = "single" -> <<Largest(spec.a, 1), Largest(spec.a, 1)>>
      [] OTHER                -> <<1, 0>>

\* parse_line_range: a spec that is malformed or reversed is an error.
ParseLineRange(spec, lines) ==
    LET total == Largest(lines, 1)
        bounds == RangeBounds(spec, total)
    IN  IF bounds[1] > bounds[2] THEN BadRange
        ELSE <<Smallest(bounds[1], total), Smallest(bounds[2], total)>>

-----------------------------------------------------------------------------
(* Edit distance *)

TooFar == -1

\* levenshtein_within: row by row, given up when a whole row is above max.
LevenshteinWithin(a, b, max) ==
    LET row[i \in 0..Len(a)] ==
            IF i = 0 THEN [j \in 0..Len(b) |-> j]
            ELSE LET cur[j \in 0..Len(b)] ==
                        IF j = 0 THEN i
                        ELSE Min({row[i - 1][j] + 1, cur[j - 1] + 1,
                                  row[i - 1][j - 1] + (IF a[i] = b[j] THEN 0 ELSE 1)})
                 IN  cur
        hopeless == \E i \in 1..Len(a) : \A j \in 0..Len(b) : row[i][j] > max
    IN  IF Len(a) - Len(b) > max \/ Len(b) - Len(a) > max THEN TooFar
        ELSE IF hopeless \/ row[Len(a)][Len(b)] > max THEN TooFar
        ELSE row[Len(a)][Len(b)]

-----------------------------------------------------------------------------
(* Patterns and the index *)

\* The maximal runs of identifier bytes of q from position i on.
Runs(q) ==
    {r \in (DOMAIN q) \X (DOMAIN q) :
        /\ r[1] <= r[2]
        /\ \A k \in r[1]..r[2] : q[k] \in IdentByte
        /\ At(q, r[1] - 1) \notin IdentByte
        /\ At(q, r[2] + 1) \notin IdentByte}

IsWord(w) == Len(w) >= MinRun /\ w[1] \in Letters \cup Capitals

\* identifiers: what the index holds of a text; leading digits are skipped.
Identifiers(t) ==
    LET begin(r) == Min({k \in r[1]..r[2] : t[k] # "9"} \cup {r[2] + 1})
    IN  {w \in {Lower(SubSeq(t, begin(r), r[2])) : r \in Runs(t)} : Len(w) >= MinRun}

TrimSpaces(q) ==
    LET solid == {i \in DOMAIN q : q[i] # " "}
    IN  IF solid = {} THEN <<>> ELSE SubSeq(q, Min(solid), Max(solid))

IsPlainIdent(q) ==
    LET w == TrimSpaces(q) IN IsWord(w) /\ \A i \in DOMAIN w : w[i] \in IdentByte

OptionalMeta == {"+", "*", "?", "(", ")", "[", "]", "{", "}", "|", "\\"}

\* literal_phrase_tokens: no words if a metacharacter might make one optional.
LiteralPhraseTokens(q) ==
    IF \E i \in DOMAIN q : q[i] \in OptionalMeta THEN {}
    ELSE {w \in {Lower(SubSeq(q, r[1], r[2])) : r \in Runs(q)} : IsWord(w)}

\* Is the character at i behind an odd number of backslashes?
Escaped(q, i) ==
    LET slashes == Max({h \in 0..(i - 1) : \A k \in (i - h)..(i - 1) : q[k] = "\\"})
    IN  slashes % 2 = 1

\* The run without its last character if what follows makes that optional.
Required(q, r, optional) ==
    SubSeq(q, r[1], IF At(q, r[2] + 1) \in optional THEN r[2] - 1 ELSE r[2])

RequiredLiteralsWhole(q) ==
    IF \E i \in DOMAIN q : q[i] \in {"(", "|", "[", "{"} THEN {}
    ELSE {w \in {Lower(SubSeq(q, r[1], r[2])) : r \in Runs(q)} : IsWord(w)}

\* regex_required_literals: of a flat pattern only.  An escape consumes the
\* character after it.
RequiredLiterals(q) ==
    LET solid(r) == IF Escaped(q, r[1]) THEN <<r[1] + 1, r[2]>> ELSE r
    IN  IF \E i \in DOMAIN q : q[i] \in {"(", "|", "[", "{"} THEN {}
        ELSE {w \in {Lower(Required(q, solid(r), {"?", "*"})) : r \in Runs(q)} : IsWord(w)}

\* regex_required_prefix: none if an alternative at the top could do without.
RequiredPrefix(pattern) ==
    LET q == IF At(pattern, 1) = "^" THEN Tail(pattern) ELSE pattern
        plain(i, c) == q[i] = c /\ ~Escaped(q, i)
        depth(i) == Cardinality({k \in 1..i : plain(k, "(")}) - Cardinality({k \in 1..i : plain(k, ")")})
        leading == {r \in Runs(q) : r[1] = 1}
    IN  IF \E i \in DOMAIN q : plain(i, "|") /\ depth(i) <= 0 THEN {}
        ELSE {w \in {Lower(Required(q, r, {"?", "*", "{"})) : r \in leading} : IsWord(w)}

\* The words a file must hold, as parts of identifiers, to be searched for q.
PruneTerms(q) ==
    IF IsPlainIdent(q) THEN {Lower(q)}
    ELSE IF LiteralPhraseTokens(q) # {} THEN LiteralPhraseTokens(q)
    ELSE IF RequiredLiterals(q) # {} THEN RequiredLiterals(q)
    ELSE RequiredPrefix(q)

PrunedIn(q, t) == \A w \in PruneTerms(q) : \E id \in Identifiers(t) : Holds(id, w)

-----------------------------------------------------------------------------
(* Line search *)

LineStarts(t) == {1} \cup {i + 1 : i \in {k \in DOMAIN t : t[k] = "\n" /\ k < Len(t)}}

\* The line of position i by the index of line starts.
LineOf(starts, i) == Cardinality({s \in starts : s <= i})

SelectSeqAt(t, ps) == IF ps = {} THEN <<>> ELSE SubSeq(t, Min(ps), Max(ps))

HasCapital(w) == \E i \in DOMAIN w : w[i] \in Capitals

\* Smart case: without a capital in the word, case is ignored.
ContainsWord(t, word) == IF HasCapital(word) THEN Holds(t, word) ELSE Holds(Lower(t), word)

\* The operands of one list, without those that are empty.
OfList(ops, list) ==
    LET kept[i \in 0..Len(ops)] ==
            IF i = 0 THEN <<>>
            ELSE IF ops[i].list = list /\ ops[i].term # <<>>
            THEN Append(kept[i - 1], ops[i]) ELSE kept[i - 1]
    IN  kept[Len(ops)]

\* The operands that take part: all_of, any_of, none_of in this order, as many
\* as there are bits.
OperandsPerList(ops) ==
    LET first(s) == SubSeq(s, 1, Smallest(Len(s), MaxOperands))
    IN  first(OfList(ops, "all")) \o first(OfList(ops, "any"))

Operands(ops) ==
    LET taken == OfList(ops, "all") \o OfList(ops, "any") \o OfList(ops, "none")
    IN  SubSeq(taken, 1, Smallest(Len(taken), MaxOperands))

\* search_bool: one pass over the text finds every occurrence of every operand
\* and marks the line it starts on; without capitals in any of them case is
\* ignored.  A line that passes must match the base pattern, here a word.
SearchBool(t, base, ops, maxHits) ==
    LET taken == Operands(ops)
        exact == \E i \in DOMAIN taken : HasCapital(taken[i].term)
        hay == IF exact THEN t ELSE Lower(t)
        starts == LineStarts(t)
        present(n) ==
            {i \in DOMAIN taken :
                \E p \in DOMAIN t : LineOf(starts, p) = n /\ Matches(hay, p, taken[i].term)}
        bits(list) == {i \in DOMAIN taken : taken[i].list = list}
        line(n) == SelectSeqAt(t, {p \in DOMAIN t : LineOf(starts, p) = n})
        hit(n) == /\ bits("all") \subseteq present(n)
                  /\ bits("any") # {} => bits("any") \cap present(n) # {}
                  /\ bits("none") \cap present(n) = {}
                  /\ ContainsWord(line(n), base)
        hits == {n \in 1..Cardinality(starts) : hit(n)}
    IN  {n \in hits : Cardinality({h \in hits : h <= n}) <= maxHits}

\* count_literal: matches that do not overlap, and the lines they start on by
\* a watermark.
CountLiteral(t, needle) ==
    LET starts == LineStarts(t)
        from[i \in 1..(Len(t) + Len(needle) + 1)] ==
            LET p == Find(t, i, needle)
                line == LineOf(starts, p)
                rest == from[p + Len(needle)][line]
            IN  [last \in 0..(Len(t) + 1) |->
                    IF p > Len(t) THEN <<0, 0>>
                    ELSE <<rest[1] + (IF line # last THEN 1 ELSE 0), rest[2] + 1>>]
    IN  IF needle = <<>> THEN <<0, 0>> ELSE from[1][0]

-----------------------------------------------------------------------------
(* Anchors *)

NoEdit == <<>>

\* The occurrences of the anchor that start on the lines lo..hi; each search
\* goes on after the end of the one before.
AnchorHits(t, anchor, lo, hi) ==
    LET found[i \in 1..(Len(t) + Len(anchor) + 1)] ==
            LET p == Find(t, i, anchor)
            IN  IF p > Len(t) THEN {} ELSE {p} \cup found[p + Len(anchor)]
    IN  {p \in found[1] : LineAt(t, p) \in lo..hi}

AnchoredFirst(t, anchor, replacement, lo, hi) ==
    LET hits == IF anchor = <<>> THEN {} ELSE AnchorHits(t, anchor, lo, hi)
    IN  IF hits = {} THEN NoEdit
        ELSE SubSeq(t, 1, Min(hits) - 1) \o replacement \o SubSeq(t, Min(hits) + Len(anchor), Len(t))

\* prepare_anchored, before the result is parsed again: the new text, or no
\* edit if the anchor does not occur exactly once.
Anchored(t, anchor, replacement, lo, hi) ==
    LET hits == IF anchor = <<>> THEN {} ELSE AnchorHits(t, anchor, lo, hi)
    IN  IF Cardinality(hits) # 1 THEN NoEdit
        ELSE AnchoredFirst(t, anchor, replacement, lo, hi)

-----------------------------------------------------------------------------
(* Requests *)

MatchInit ==
    /\ task \in DOMAIN Tokens
    /\ request = <<>>

Extend(token) ==
    /\ Len(request) < MaxTokens[task]
    /\ request' = Append(request, token)
    /\ UNCHANGED task

MatchNext == \E token \in Tokens[task] : Extend(token)

MatchSpec == MatchInit /\ [][MatchNext]_matchVars

-----------------------------------------------------------------------------
(* What a regular expression matches.  A token of a "prune" request is an     *)
(* item, an atom with a quantifier, or the bar between alternatives.           *)

Bar == [atom |-> "|", quant |-> ""]

Written(r) ==
    LET atom(a) == CASE a = "\\w" -> <<"\\", "w">>
                     [] a = "(a|b)" -> <<"(", "a", "|", "b", ")">>
                     [] OTHER -> <<a>>
    IN  FoldLeft(LAMBDA q, it :
                    q \o atom(it.atom) \o (IF it.quant = "" THEN <<>> ELSE <<it.quant>>),
                 <<>>, r)

Admits(a, c) ==
    CASE a = "."     -> c # "\n"
      [] a = "\\w"   -> c \in IdentByte
      [] a = "(a|b)" -> c \in {"a", "b"}
      [] OTHER       -> c = a

\* Where an item that starts at i may end.
ItemEnds(it, t, i) ==
    LET one == {k \in {i + 1} : i <= Len(t) /\ Admits(it.atom, t[i])}
        many == {j \in i..(Len(t) + 1) : \A k \in i..(j - 1) : Admits(it.atom, t[k])}
    IN  IF it.atom = "^" THEN {k \in {i} : i = 1 \/ At(t, i - 1) = "\n"}
        ELSE CASE it.quant = "" -> one
               [] it.quant = "?" -> {i} \cup one
               [] it.quant = "*" -> many
               [] it.quant = "+" -> many \ {i}

Alternatives(r) ==
    LET bars == {0, Len(r) + 1} \cup {i \in DOMAIN r : r[i] = Bar}
        next(x, y) == x < y /\ \A b \in bars : b <= x \/ b >= y
    IN  {SubSeq(r, x + 1, (CHOOSE y \in bars : next(x, y)) - 1) : x \in bars \ {Len(r) + 1}}

RegexFound(r, text) ==
    LET t == IF HasCapital(Written(r)) THEN text ELSE Lower(text)
        ends(items, i) == FoldLeft(LAMBDA S, it : UNION {ItemEnds(it, t, j) : j \in S}, {i}, items)
    IN  \E items \in Alternatives(r), i \in 1..(Len(t) + 1) : ends(items, i) # {}

-----------------------------------------------------------------------------
(* Properties *)

Padded(q) == q # TrimSpaces(q)

\* Pruning by the index never loses a file (engine.rs:1245, "all
\* recall-preserving"): if a pattern matches somewhere in a text, the text holds
\* every word the pattern is pruned by, whatever quantifiers, escapes, groups
\* and alternatives it has.  Not for a name with spaces around it, which is
\* looked up with them and never found.
PruneIsSound ==
    task = "prune" =>
        LET q == Written(request)
        IN  \A t \in Samples[task] :
                RegexFound(request, t) => PrunedIn(q, t) \/ (IsPlainIdent(q) /\ Padded(q))

\* What a glob means: its wildcards can be given parts of the path, in order,
\* none of a single star or question mark holding a slash.
GlobMeans(pat, txt) ==
    LET kinds[i \in 1..(Len(pat) + 1)] ==
            IF i > Len(pat) THEN <<>>
            ELSE IF At(pat, i) = "*" /\ At(pat, i + 1) = "*"
            THEN <<"any">> \o kinds[IF At(pat, i + 2) = "/" THEN i + 3 ELSE i + 2]
            ELSE IF pat[i] = "*" THEN <<"part">> \o kinds[i + 1]
            ELSE <<pat[i]>> \o kinds[i + 1]
        ks == kinds[1]
        fits(k, piece) ==
            CASE k = "any"  -> TRUE
              [] k = "part" -> ~Holds(piece, <<"/">>)
              [] k = "?"    -> Len(piece) = 1 /\ piece # <<"/">>
              [] OTHER      -> piece = <<k>>
    IN  \E cut \in [0..Len(ks) -> 0..Len(txt)] :
            /\ cut[0] = 0
            /\ cut[Len(ks)] = Len(txt)
            /\ \A n \in DOMAIN ks :
                /\ cut[n - 1] <= cut[n]
                /\ fits(ks[n], SubSeq(txt, cut[n - 1] + 1, cut[n]))

Segments(path) ==
    LET cuts == {0, Len(path) + 1} \cup {i \in DOMAIN path : path[i] = "/"}
        order == SetToSortSeq(cuts, <)
    IN  [n \in 1..(Len(order) - 1) |-> SubSeq(path, order[n] + 1, order[n + 1] - 1)]

\* A scope means what its documentation says (engine.rs:6973): a glob is a
\* glob, a plain entry a run of whole path segments, an exclusion wins.
ScopeIsExact ==
    task = "scope" =>
        \A path \in Samples[task] :
            LET wild == \E i \in DOMAIN request : request[i] \in {"*", "?"}
                included == At(request, 1) # "!"
                inSegments(e) ==
                    /\ TrimSlashes(e) # <<>>
                    /\ \E n \in 1..Len(Segments(path)) :
                            Matches(Segments(path), n, Segments(TrimSlashes(e)))
                alone == PathInScope(path, <<request>>)
                without == alone /\ ~inSegments(<<"b">>)
            IN  /\ included => (alone = IF wild THEN GlobMeans(request, path) ELSE inSegments(request))
                /\ PathInScope(path, <<request, <<"!", "b">>>>) = without
                /\ PathInScope(path, <<<<"!", "b">>, request>>) = without

\* The lines a range asks for, of the file's if it has any of them, or else its
\* last line, and never none.
RangeIsExact ==
    task = "range" =>
        \A spec \in ToSet(request), total \in 1..3 :
            LET asked(n) ==
                    CASE spec.form = "tail"   -> n > total - Largest(spec.a, 1)
                      [] spec.form = "head"   -> n <= Largest(spec.a, 1)
                      [] spec.form = "from"   -> n >= spec.a
                      [] spec.form = "range"  -> n >= spec.a /\ n <= spec.b
                      [] spec.form = "single" -> n = Largest(spec.a, 1)
                      [] OTHER                -> FALSE
                lines == {n \in 1..total : asked(n)}
                got == ParseLineRange(spec, total)
            IN  got # BadRange => got[1]..got[2] = IF lines = {} THEN {total} ELSE lines

\* A near miss is found exactly if so many single edits lead to it.
NearMissIsExact ==
    task = "near" =>
        LET alphabet == {"a", "b"}
            cutOut(w, i) == SubSeq(w, 1, i - 1) \o SubSeq(w, i + 1, Len(w))
            edited(w) ==
                {w} \cup {cutOut(w, i) : i \in DOMAIN w}
                    \cup {[w EXCEPT ![i] = c] : i \in DOMAIN w, c \in alphabet}
                    \cup {SubSeq(w, 1, i) \o <<c>> \o SubSeq(w, i + 1, Len(w)) :
                            i \in 0..Len(w), c \in alphabet}
            ball[k \in 0..2] == IF k = 0 THEN {request} ELSE UNION {edited(w) : w \in ball[k - 1]}
            least(b, max) == Min({k \in 0..max : b \in ball[k]} \cup {max + 1})
        IN  \A b \in Samples[task], max \in 0..2 :
                LevenshteinWithin(request, b, max)
                    = IF least(b, max) > max THEN TooFar ELSE least(b, max)

\* What a request selects by scope, range or near miss is what its reference
\* says.
SelectionIsExact == ScopeIsExact /\ RangeIsExact /\ NearMissIsExact

\* A boolean search within its operand limit keeps the lines its terms
\* describe, one by one, and a count has the lines a search has
\* (lexical.rs:79, 185), although both find terms in the whole text at once.
\* An empty term is no condition and has no lines.  Not for a term of several
\* lines, which is found on the line it starts on.
SearchIsExact ==
    (task = "search" /\ \A o \in ToSet(request) : ~Holds(o.term, <<"\n">>)) =>
        \A t \in Samples[task] :
            LET lines == 1..Cardinality(LineStarts(t))
                line(n) == SelectSeqAt(t, {p \in DOMAIN t : LineAt(t, p) = n /\ t[p] # "\n"})
                exact == \E o \in ToSet(request) : HasCapital(o.term)
                has(n, o) == Holds(IF exact THEN line(n) ELSE Lower(line(n)), o.term)
                terms(list) == {o \in ToSet(request) : o.list = list /\ o.term # <<>>}
                kept == {n \in lines :
                            /\ \A o \in terms("all") : has(n, o)
                            /\ terms("any") # {} => \E o \in terms("any") : has(n, o)
                            /\ \A o \in terms("none") : ~has(n, o)}
            IN  /\ Len(request) <= MaxOperands => SearchBool(t, <<>>, request, Len(t) + 1) = kept
                /\ \A o \in ToSet(request) :
                        CountLiteral(t, o.term)[1]
                            = Cardinality({n \in lines : o.term # <<>> /\ Holds(line(n), o.term)})

SelfOverlaps(w) == \E k \in 1..(Len(w) - 1) : SubSeq(w, 1, k) = SubSeq(w, Len(w) - k + 1, Len(w))

\* An anchored edit is made only where the anchor names one place of its scope,
\* and no line outside the scope changes (apply.rs:358).  Not for an anchor
\* that overlaps itself, whose overlapping occurrences count as one, nor for
\* one of several lines, which may begin in the scope and end outside.
AnchoredOnce ==
    (task = "anchor" /\ ~SelfOverlaps(request) /\ ~Holds(request, <<"\n">>)) =>
        \A t \in Samples[task] : \A lo, hi, n \in 1..LineAt(t, Len(t) + 1) :
            LET new == Anchored(t, request, <<"X">>, lo, hi)
                places == {p \in DOMAIN t : Matches(t, p, request) /\ LineAt(t, p) \in lo..hi}
                line(x) == SelectSeqAt(x, {p \in DOMAIN x : LineAt(x, p) = n})
            IN  /\ (new # NoEdit) = (request # <<>> /\ Cardinality(places) = 1)
                /\ new # NoEdit => n \in lo..hi \/ line(new) = line(t)

=============================================================================
