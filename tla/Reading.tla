------------------------------ MODULE Reading ------------------------------
(***************************************************************************)
(* What a call reads back once it has selected: a file whole, by a range   *)
(* of lines or by its signatures, held to the token budget; the places a   *)
(* compiler's output or a stack trace names; and the symbols that share a  *)
(* word with a query (engine.rs of crates/vyer-server).                    *)
(*                                                                         *)
(* Requests are written token by token as in Matching: a file by the bytes *)
(* of its lines, a trace by its entries, a corpus by its symbols.          *)
(***************************************************************************)
EXTENDS Matching

-----------------------------------------------------------------------------
(* Paths *)

Unresolved == <<>>

EndsInPath(f, path) == path # <<>> /\ EndsWith(f, path)

\* A file whose path ends in path, from a segment on.
PathSuffix(f, path) ==
    /\ path # <<>>
    /\ EndsWith(f, path)
    /\ f = path \/ At(f, Len(f) - Len(path)) = "/"

\* resolve_indexed_path: an exact path, or one that ends only one file.
ResolveIndexedPath(files, path) ==
    LET ending == {f \in files : PathSuffix(f, path)}
    IN  IF path \in files THEN path
        ELSE IF Cardinality(ending) = 1 THEN CHOOSE f \in ending : TRUE
        ELSE Unresolved

-----------------------------------------------------------------------------
(* Reads within a budget.  Lengths are in bytes, budgets in tokens. *)

Overhead == 8

EstTokens(bytes) == Largest(bytes \div 4, 1)

Less(a, b) == IF a > b THEN a - b ELSE 0

CharBudgetWhole(budget) == 4 * budget

\* What the lines may take, with room for the envelope and the note.
CharBudget(budget) == 4 * Less(budget, 64)

\* A line behind its number.
Numbered(n, bytes) == (IF n < 10 THEN 1 ELSE 2) + 2 + bytes + 1

Total(costs) == FoldLeft(+, 0, costs)

\* How many are taken, up to the first that does not fit; a read that always
\* shows something takes the first whatever its size.
Taken(costs, room, always) ==
    Max({n \in 0..Len(costs) :
            \A m \in 1..n : (always /\ m = 1) \/ Total(SubSeq(costs, 1, m)) <= room})

FullNote    == 93
RangeNote   == 82
OutlineNote == 73

Body(costs, shown, requested, note) ==
    [ shown |-> shown,
      omitted |-> requested - shown,
      bytes |-> Total(SubSeq(costs, 1, shown)) + IF shown < requested THEN note ELSE 0 ]

\* read_path_spans, detail full.
FullRead(lines, budget) ==
    LET costs == [i \in DOMAIN lines |-> Numbered(i, lines[i])]
    IN  Body(costs, Taken(costs, CharBudget(budget), FALSE), Len(lines), FullNote)

\* read_path_spans, detail outline: a line end after each signature but the last.
OutlineRead(signatures, budget) ==
    LET tokens == [i \in DOMAIN signatures |-> EstTokens(signatures[i]) + 1]
        shown == Taken(tokens, Less(budget, 40), TRUE)
        costs == [i \in DOMAIN signatures |-> signatures[i] + IF i = 1 THEN 0 ELSE 1]
    IN  Body(costs, shown, Len(signatures), OutlineNote)

\* line_range_span.
RangeRead(lines, spec, budget) ==
    LET range == ParseLineRange(spec, Len(lines))
        slice == [i \in 1..(Smallest(range[2], Len(lines)) - range[1] + 1) |-> lines[range[1] + i - 1]]
        costs == [i \in DOMAIN slice |-> Numbered(range[1] + i - 1, slice[i])]
    IN  Body(costs, Taken(costs, CharBudget(budget), TRUE), range[2] - range[1] + 1, RangeNote)

\* pack leaves a span out that does not fit.
Dropped(body, budget) == EstTokens(body.bytes) + Overhead > budget

-----------------------------------------------------------------------------
(* Places in a compiler's output.  Of a line: what it says, severity and      *)
(* message together, whether it has an arrow, and the places it names.         *)

Silent == ""

SaysAlways(lines, i) ==
    LET heads == {h \in 1..i : lines[h].says # Silent}
    IN  IF heads = {} THEN Silent ELSE lines[Max(heads)].says

\* A line with an arrow belongs to the last one that said something.
Says(lines, i) ==
    IF lines[i].says = Silent /\ ~lines[i].arrow THEN Silent ELSE SaysAlways(lines, i)

\* parse_diagnostics: every place once, with what was said where it came first.
ParseDiagnostics(lines) ==
    LET found(i) == [k \in DOMAIN lines[i].at |-> [at |-> lines[i].at[k], says |-> Says(lines, i)]]
        all == FlattenSeq([i \in DOMAIN lines |-> found(i)])
    IN  FoldLeft(LAMBDA out, d :
                    IF d.at.line = 0 \/ \E i \in DOMAIN out : out[i].at = d.at
                    THEN out ELSE Append(out, d),
                 <<>>, all)

NoSymbol == [start |-> 0, end |-> 0]

\* enclosing: the smallest symbol around the line, the first of several.
Enclosing(symbols, line) ==
    FoldLeft(LAMBDA best, s :
                IF ~(s.start <= line /\ line <= s.end) THEN best
                ELSE IF best = NoSymbol \/ s.end - s.start < best.end - best.start THEN s
                ELSE best,
             NoSymbol, symbols)

\* diagnose_spans: the lines around the place, which may be past the end of a
\* file that has changed since.
Diagnosed(symbols, total, line) ==
    LET marked == Smallest(Largest(line, 1), Largest(total, 1))
    IN  [ marked |-> marked,
          window |-> Largest(Less(marked, 2), 1)..Smallest(marked + 2, Largest(total, 1)),
          symbol |-> Enclosing(symbols, marked) ]

-----------------------------------------------------------------------------
(* Symbols by their words *)

\* subword_tokens: cut where no letter or digit is and where a capital follows
\* a small letter; single letters are noise.
SubwordTokens(name) ==
    LET Alnum == IdentByte \ {"_"}
        cut(s) == IF s.cur = <<>> THEN s.words ELSE Append(s.words, s.cur)
        step(s, c) ==
            IF c \notin Alnum THEN [words |-> cut(s), cur |-> <<>>, small |-> FALSE]
            ELSE IF c \in Capitals /\ s.small /\ s.cur # <<>>
            THEN [words |-> cut(s), cur |-> <<LowerChar(c)>>, small |-> FALSE]
            ELSE [words |-> s.words, cur |-> Append(s.cur, LowerChar(c)), small |-> c \in Letters]
        last == FoldLeft(step, [words |-> <<>>, cur |-> <<>>, small |-> FALSE], name)
    IN  SelectSeq(cut(last), LAMBDA w : Len(w) >= 2)

\* The natural logarithm in thousandths, up to the size of the corpus.
Log == <<0, 693, 1099, 1386>>

Postings(docs, word) == {i \in DOMAIN docs : word \in docs[i].bag}

Idf(docs, word) == 1000 + Log[Len(docs)] - Log[Largest(Cardinality(Postings(docs, word)), 1)]

Weight(docs, i, query) ==
    FoldLeft(LAMBDA sum, word : sum + IF word \in docs[i].bag THEN Idf(docs, word) ELSE 0, 0, query)

SharingAll(docs, query) ==
    {i \in DOMAIN docs : \A n \in DOMAIN query : i \in Postings(docs, query[n])}

Sharing(docs, query) == UNION {Postings(docs, query[n]) : n \in DOMAIN query}

\* semantic_ids and semantic_spans: only documents of the inverted index are
\* scored; at least one is taken.
SemanticIds(docs, query, scope, k) ==
    LET scored == {i \in Sharing(docs, query) : docs[i].file \in scope /\ Weight(docs, i, query) > 0}
        order == SetToSortSeq(scored, LAMBDA i, j :
                    \/ Weight(docs, i, query) > Weight(docs, j, query)
                    \/ Weight(docs, i, query) = Weight(docs, j, query) /\ i < j)
    IN  SubSeq(order, 1, Smallest(Len(order), Largest(k, 1)))

-----------------------------------------------------------------------------
(* Properties *)

\* A path names the one file whose last segments it is: never one that only
\* ends in the same letters, and never one of several (engine.rs:1572).
PathsResolve ==
    task = "path" =>
        LET inSegments(f) ==
                LET fs == Segments(f)
                    ps == Segments(request)
                IN  Len(ps) <= Len(fs) /\ SubSeq(fs, Len(fs) - Len(ps) + 1, Len(fs)) = ps
        IN  \A files \in SUBSET Samples[task] :
                LET ending == {f \in files : request # <<>> /\ inSegments(f)}
                    got == ResolveIndexedPath(files, request)
                IN  IF request \in files THEN got = request
                    ELSE (got # Unresolved) = (Cardinality(ending) = 1) /\ (got # Unresolved => got \in ending)

\* A large file or range degrades to its head and a note and is not left out of
\* the answer (engine.rs:1689, 1662, 1724), with room for the note at least;
\* the first line of a range or an outline may be too large by itself.
ReadsDegrade ==
    task = "file" =>
        \A budget \in {36, 64, 70, 100, 128, 200} :
            LET outline == OutlineRead(request, budget)
            IN  /\ ~Dropped(FullRead(request, budget), budget)
                /\ Dropped(outline, budget) => EstTokens(request[1]) + 1 > Less(budget, 40)
                /\ \A spec \in Samples[task] :
                    LET range == ParseLineRange(spec, Len(request))
                        body == RangeRead(request, spec, budget)
                    IN  (range # BadRange /\ request # <<>>) =>
                            /\ Dropped(body, budget) => Numbered(range[1], request[range[1]]) > CharBudget(budget)
                            /\ body.shown >= 1
                            /\ body.shown + body.omitted = range[2] - range[1] + 1

\* What a token of a trace puts in the output: a compiler's block of a message
\* and an arrow, a line with both, or a frame that only names a place.
TraceLines(entry) ==
    LET line(says, arrow, at) == [says |-> says, arrow |-> arrow, at |-> at]
    IN  CASE entry.form = "block"  -> <<line(entry.says, FALSE, <<>>), line(Silent, TRUE, <<entry.at>>)>>
          [] entry.form = "inline" -> <<line(entry.says, FALSE, <<entry.at>>)>>
          [] entry.form = "frame"  -> <<line(Silent, FALSE, <<entry.at>>)>>

\* Every place a trace names is reported once, in the order of first mention
\* and with the message of the entry that named it first, not with that of a
\* neighbour (engine.rs:6596); the window has the line, marked, and its symbol
\* is the innermost one around it, for lines beyond the end of the file too.
DiagnosisPoints ==
    task = "trace" =>
        LET got == ParseDiagnostics(FlattenSeq([i \in DOMAIN request |-> TraceLines(request[i])]))
            mentions(at) == {i \in DOMAIN request : request[i].at = at}
            says(i) == IF request[i].form = "frame" THEN Silent ELSE request[i].says
        IN  /\ {got[i].at : i \in DOMAIN got} = {at \in {request[i].at : i \in DOMAIN request} : at.line # 0}
            /\ \A i, j \in DOMAIN got :
                    i < j => Min(mentions(got[i].at)) < Min(mentions(got[j].at))
            /\ \A i \in DOMAIN got : got[i].says = says(Min(mentions(got[i].at)))
            /\ \A i \in DOMAIN got, file \in Samples[task] :
                    LET d == Diagnosed(file.symbols, file.total, got[i].at.line)
                        around == {s \in ToSet(file.symbols) : d.marked \in s.start..s.end}
                    IN  /\ d.marked \in d.window /\ d.window \subseteq 1..file.total
                        /\ got[i].at.line <= file.total => d.marked = got[i].at.line
                        /\ (d.symbol = NoSymbol) = (around = {})
                        /\ \A s \in around : d.symbol.end - d.symbol.start <= s.end - s.start

\* Scoring only what the inverted index offers ranks the symbols as scoring the
\* whole corpus would (engine.rs:3100): all that share a word with the query
\* and are in scope, best first, as many as asked for.
MeaningIsExact ==
    task = "corpus" =>
        \A query \in Samples[task], scope \in SUBSET {"f", "g"}, k \in 0..2 :
            LET got == SemanticIds(request, query, scope, k)
                sharing == {i \in DOMAIN request :
                    request[i].file \in scope /\ \E n \in DOMAIN query : query[n] \in request[i].bag}
                before(i, j) ==
                    \/ Weight(request, i, query) > Weight(request, j, query)
                    \/ Weight(request, i, query) = Weight(request, j, query) /\ i < j
            IN  /\ Len(got) = Smallest(Cardinality(sharing), Largest(k, 1))
                /\ \A n \in DOMAIN got :
                    /\ got[n] \in sharing
                    /\ \A j \in sharing \ {got[m] : m \in 1..n} : before(got[n], j)

Capital(word) == <<IF word[1] = "a" THEN "A" ELSE "B">> \o Tail(word)

\* A name has the same words in camel case and with underscores
\* (engine.rs:5388), for words of two letters or more that end in a letter.
SubwordsAgree ==
    task = "subword" =>
        LET camel == FlattenSeq([i \in DOMAIN request |-> IF i = 1 THEN request[i] ELSE Capital(request[i])])
            snake == FlattenSeq([i \in DOMAIN request |-> IF i = 1 THEN request[i] ELSE <<"_">> \o request[i]])
        IN  SubwordTokens(camel) = request /\ SubwordTokens(snake) = request

\* What a call reads back is what it selected.
ReadingIsExact == PathsResolve /\ ReadsDegrade /\ DiagnosisPoints /\ MeaningIsExact /\ SubwordsAgree

=============================================================================
