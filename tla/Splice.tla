------------------------------ MODULE Splice ------------------------------
(***************************************************************************)
(* The deterministic edits of crates/vyer-server/src/apply.rs: a symbol is *)
(* resolved to its line span in the current text and the span is replaced, *)
(* deleted, or used as the place for an insertion; every edit comes with a *)
(* unified diff.                                                           *)
(*                                                                         *)
(* A text is a sequence of lines.  A line has the kind the code tells      *)
(* apart, its indentation, the name it declares if it declares one, and    *)
(* two fields the program does not have: id, its identity, and own, the    *)
(* symbols (ids of their first lines) the line was written into.  A text   *)
(* is parsed again after every edit, by tree-sitter in the program, by     *)
(* SpanEnd here.                                                           *)
(***************************************************************************)
EXTENDS Integers, Sequences, FiniteSets, FiniteSetsExt

CONSTANTS
    Originals,  \* language -> texts to start from
    Bodies,     \* language -> texts a caller may hand in
    Ctx,        \* lines of context in a diff (3 in the program)
    MaxEdits    \* bound: edits in a behaviour

BodyLine == [kind : STRING, ind : Nat, name : STRING]
TextLine == [kind : STRING, ind : Nat, name : STRING, id : Nat, own : SUBSET Nat]

ASSUME SpliceAssumption ==
    /\ DOMAIN Originals \subseteq {"braces", "indented"}
    /\ DOMAIN Bodies = DOMAIN Originals
    /\ \A l \in DOMAIN Originals :
        Originals[l] \subseteq Seq(TextLine) /\ Bodies[l] \subseteq Seq(BodyLine)
    /\ Ctx \in Nat
    /\ MaxEdits \in Nat

VARIABLES
    lang,   \* do blocks end with a closing line or by indentation?
    text,   \* the lines of the file
    eol,    \* does the last line end with a newline?
    diff,   \* the hunk of the last edit
    edits,  \* number of edits so far
    regular \* history: did each fit, as Recognised and InPlace say?

spliceVars == <<lang, text, eol, diff, edits, regular>>

-----------------------------------------------------------------------------
(* Lines *)

Headers  == {"class", "def", "one"}        \* "one" opens and closes its block
Openers  == {"class", "def"}
Attached == {"attr"}                       \* #[..], ///, @decorator
Decorating == Attached \cup {"more"}        \* "more": below such a line, the rest of it
                                           \* or a comment before the symbol
OpensDoc == {"doc", "docOpen"}             \* a line that starts with /**
OpensAny == OpensDoc \cup {"plain"}         \* ... with /*; "plain": a whole comment
EndsBlock == {"doc", "docClose", "plain", "trailing"} \* ... that ends with */
Trivia   == Decorating \cup OpensDoc \cup {"docLine", "docClose"}
CodeKinds == Headers \cup {"stmt", "trailing", "close"}  \* "trailing": code, then /* .. */

Blank == [kind |-> "blank", ind |-> 0, name |-> "", id |-> 0, own |-> {}]

Braces == lang = "braces"

IsBlank(l) == l.kind = "blank"

\* What the program sees of a line.
Seen(l)     == [kind |-> l.kind, ind |-> l.ind, name |-> l.name]
Contents(t) == [i \in DOMAIN t |-> Seen(t[i])]
Ids(t)      == {t[i].id : i \in DOMAIN t} \ {0}

-----------------------------------------------------------------------------
(* Parsing (tree-sitter) *)

CountIn(t, kinds, i, j) == Cardinality({k \in i..j : t[k].kind \in kinds})

Balanced(t) ==
    /\ CountIn(t, Openers, 1, Len(t)) = CountIn(t, {"close"}, 1, Len(t))
    /\ \A j \in DOMAIN t : CountIn(t, {"close"}, 1, j) <= CountIn(t, Openers, 1, j)

NoCode == {"blank", "comment", "plain"}

Deeper(t, i, j) ==
    \A k \in (i + 1)..j : t[k].kind \in NoCode \/ t[k].ind > t[i].ind

SpanEnd(t, i) ==
    IF t[i].kind = "one" THEN i
    ELSE IF Braces
    THEN Min({j \in i..Len(t) : CountIn(t, Openers, i, j) = CountIn(t, {"close"}, i, j)}
             \cup {Len(t)})
    ELSE Max({j \in i..Len(t) :
                /\ j = i \/ t[j].kind \notin NoCode
                /\ Deeper(t, i, j)})

Symbols(t) ==
    {[id |-> t[i].id, name |-> t[i].name, start |-> i, end |-> SpanEnd(t, i)] :
        i \in {k \in DOMAIN t : t[k].kind \in Headers}}

\* validate_reparse: only languages with braces are checked before the parser.
ValidateReparse(t) == ~Braces \/ Balanced(t)

\* The next line of code below a decorator has to be another one or a definition.
DecoratesNothing(t, i) ==
    LET below == {k \in (i + 1)..Len(t) : t[k].kind \notin NoCode}
    IN  /\ t[i].kind \in Decorating
        /\ \/ below = {}
           \/ t[Min(below)].kind \notin Decorating \cup Headers
           \/ t[Min(below)].ind # t[i].ind

\* python_empty_def_body: below a header that opens a block, the next line of code
\* is no deeper.
EmptyBody(t, i) ==
    LET below == {k \in (i + 1)..Len(t) : t[k].kind \notin NoCode}
    IN  /\ t[i].kind \in Openers
        /\ below = {} \/ t[Min(below)].ind <= t[i].ind

\* has_parse_error, where blocks go by indentation: a decorator has no definition
\* below it, or the body of a definition is empty.
HasParseError(t) ==
    ~Braces /\ \E i \in DOMAIN t : DecoratesNothing(t, i) \/ EmptyBody(t, i)

\* The gates an edited text has to pass.
Reparses(t) == ValidateReparse(t) /\ ~HasParseError(t)

-----------------------------------------------------------------------------
(* Resolving a locator *)

NoContainer == "."
AnyRange    == <<0, 0>>

SpanOf(s) == <<s.start, s.end>>

\* The symbols a locator `name` or `container.name` may mean.
Candidates(t, container, name) ==
    {s \in Symbols(t) :
        /\ s.name = name
        /\ container = NoContainer \/
           \E c \in Symbols(t) :
               /\ c.name = container
               /\ s.start >= c.start
               /\ s.end <= c.end
               /\ SpanOf(s) # SpanOf(c)}

\* resolve_span: a single candidate, whatever range was asked for, or else the
\* candidate at exactly that range.
ResolveSpan(t, container, name, want) ==
    LET hits == Candidates(t, container, name)
    IN  IF Cardinality(hits) = 1 THEN hits ELSE {s \in hits : SpanOf(s) = want}

TriviaTopAttributes(t, s) ==
    Min({i \in 1..s : \A k \in i..(s - 1) : t[k].kind \in Attached})

\* leading_trivia_start: the first line of the attributes, doc comments and
\* decorators above line s.
TriviaTop(t, s) ==
    LET opening(k) == Max({0} \cup {j \in 1..k : t[j].kind \in OpensAny})
        top[i \in 1..s] ==
            IF i = 1 THEN 1
            ELSE IF t[i - 1].kind \in Attached THEN top[i - 1]
            ELSE IF /\ t[i - 1].kind \in EndsBlock
                    /\ opening(i - 1) # 0
                    /\ t[opening(i - 1)].kind \in OpensDoc
            THEN top[opening(i - 1)]
            ELSE i
    IN  top[s]

-----------------------------------------------------------------------------
(* Diffs *)

Hunk(pre, removed, added, post, start, oldCount, newCount) ==
    [pre |-> pre, removed |-> removed, added |-> added, post |-> post,
     start |-> start, oldCount |-> oldCount, newCount |-> newCount]

NoHunk == Hunk(<<>>, <<>>, <<>>, <<>>, 1, 0, 0)

\* unified_diff: lines s..e of old became newLen lines of new.
UnifiedDiff(old, new, s, e, newLen) ==
    LET before == Min({s - 1, Ctx})
        after  == Min({Len(old) - e, Ctx})
    IN  Hunk(SubSeq(old, s - before, s - 1), SubSeq(old, s, e),
             SubSeq(new, s, Min({s + newLen - 1, Len(new)})),
             SubSeq(old, e + 1, e + after),
             s - before, (e - s + 1) + before + after, newLen + before + after)

LineDiffOverlapping(old, new) ==
    LET n == Min({Len(old), Len(new)})
        p == Max({k \in 0..n : \A i \in 1..k : old[i] = new[i]})
        s == Max({k \in 0..n :
                    \A i \in 0..(k - 1) : old[Len(old) - i] = new[Len(new) - i]})
        before == Min({p, Ctx})
        after  == Min({s, Ctx})
        oldEnd == Len(old) - s
        newEnd == Len(new) - s
    IN  Hunk(SubSeq(old, p - before + 1, p), SubSeq(old, p + 1, oldEnd),
             SubSeq(new, p + 1, newEnd), SubSeq(old, oldEnd + 1, oldEnd + after),
             p - before + 1,
             (oldEnd - p) + before + after, (newEnd - p) + before + after)

\* line_diff: what remains between the common beginning and the common end.
LineDiff(old, new) ==
    LET n == Min({Len(old), Len(new)})
        p == Max({k \in 0..n : \A i \in 1..k : old[i] = new[i]})
        s == Max({k \in 0..(n - p) :
                    \A i \in 0..(k - 1) : old[Len(old) - i] = new[Len(new) - i]})
        before == Min({p, Ctx})
        after  == Min({s, Ctx})
        oldEnd == Len(old) - s
        newEnd == Len(new) - s
    IN  Hunk(SubSeq(old, p - before + 1, p), SubSeq(old, p + 1, oldEnd),
             SubSeq(new, p + 1, newEnd), SubSeq(old, oldEnd + 1, oldEnd + after),
             p - before + 1,
             (oldEnd - p) + before + after, (newEnd - p) + before + after)

-----------------------------------------------------------------------------
(* Edits *)

\* A body handed in by a caller: its first line takes the id given, the others
\* new ones, and all of them are written into the symbols in own.
Authored(t, body, id, own) ==
    LET next == 1 + Max(Ids(t) \cup {0, id})
    IN  [k \in DOMAIN body |->
            [kind |-> body[k].kind, ind |-> body[k].ind, name |-> body[k].name,
             id |-> IF k = 1 THEN id ELSE next + k - 2,
             own |-> own \cup {id}]]

FreshId(t) == 1 + Max(Ids(t) \cup {0})

\* reindent_block: shift the block so that its shallowest line is at ind.
ReindentBlock(body, ind) ==
    LET base == IF \A k \in DOMAIN body : IsBlank(body[k]) THEN 0
                ELSE Min({body[k].ind : k \in {j \in DOMAIN body : ~IsBlank(body[j])}})
    IN  [k \in DOMAIN body |->
            IF IsBlank(body[k]) THEN body[k]
            ELSE [body[k] EXCEPT !.ind = ind + (@ - base)]]

\* A symbol whose trivia leading_trivia_start knows as such: no line of them
\* is the rest of an attribute or a comment between, and no line of code above
\* them ends like a comment.
Recognised(t, s) ==
    \A k \in 1..s.start : s.id \in t[k].own =>
        /\ t[k].kind # "more"
        /\ k > 1 => t[k - 1].kind # "trailing"

\* A body for the place of a symbol: where indentation counts, it has the symbol's.
InPlace(t, s, body) == Braces \/ body = <<>> \/ body[1].ind = t[s.start].ind

\* prepare_deterministic; an empty body leaves an empty line in the place of
\* the symbol.  Unlike an insertion it takes the body as it is.
Replaced(t, s, body) ==
    LET new == IF body = <<>>
               THEN <<[Blank EXCEPT !.id = s.id, !.own = t[s.start].own]>>
               ELSE Authored(t, body, s.id, t[s.start].own)
    IN  SubSeq(t, 1, s.start - 1) \o new \o SubSeq(t, s.end + 1, Len(t))

Replace(container, name, want, body) ==
    /\ edits < MaxEdits
    /\ \E s \in ResolveSpan(text, container, name, want) :
        LET new == Replaced(text, s, body)
            len == Max({Len(body), 1})
        IN  /\ Reparses(new)
            /\ text' = new
            /\ eol' = (eol \/ s.end = Len(text))
            /\ diff' = UnifiedDiff(Contents(text), Contents(new), s.start, s.end, len)
            /\ regular' = (regular /\ InPlace(text, s, body))
    /\ edits' = edits + 1
    /\ UNCHANGED lang

DeletedWithNextLine(t, s) ==
    LET top == TriviaTop(t, s.start)
        next == IF s.end < Len(t) THEN s.end + 2 ELSE s.end + 1
    IN  SubSeq(t, 1, top - 1) \o SubSeq(t, next, Len(t))

\* prepare_delete: the symbol, what is attached to it from above, and one
\* blank line after it.
Deleted(t, s) ==
    LET top == TriviaTop(t, s.start)
        next == IF s.end < Len(t) /\ IsBlank(t[s.end + 1]) THEN s.end + 2 ELSE s.end + 1
    IN  SubSeq(t, 1, top - 1) \o SubSeq(t, next, Len(t))

Delete(container, name, want) ==
    /\ edits < MaxEdits
    /\ \E s \in ResolveSpan(text, container, name, want) :
        LET new == Deleted(text, s)
        IN  /\ Reparses(new)
            /\ text' = new
            /\ eol' = (eol \/ s.end = Len(text))
            /\ diff' = LineDiff(Contents(text), Contents(new))
            /\ regular' = (regular /\ Recognised(text, s))
    /\ edits' = edits + 1
    /\ UNCHANGED lang

\* The lines before an insertion, per kind of place.
LinesBefore(t, place, s) ==
    CASE place = "after"  -> s.end
      [] place = "before" -> TriviaTop(t, s.start) - 1
      [] place = "into"   -> IF Braces THEN s.end - 1 ELSE s.end

IndentAtLast(t, place, s, at) ==
    IF place # "into" THEN t[s.start].ind ELSE t[at].ind

\* The indentation of an insertion.
IndentAt(t, place, s, at) ==
    LET body == {k \in (s.start + 1)..s.end : ~IsBlank(t[k])}
        above == {k \in 1..at : ~IsBlank(t[k])}
    IN  IF place # "into" THEN t[s.start].ind
        ELSE IF Braces
        THEN IF above = {} THEN 0 ELSE t[Max(above)].ind
        ELSE IF body = {} THEN t[s.start].ind + 1 ELSE Min({t[k].ind : k \in body})

\* The symbols an insertion is meant to be written into.
Meant(t, place, s) ==
    IF place = "into" THEN t[s.start].own ELSE t[s.start].own \ {s.id}

Inserted(t, at, block, last) ==
    SubSeq(t, 1, at)
    \o (IF at = Len(t) /\ ~last THEN block ELSE <<Blank>> \o block)
    \o SubSeq(t, at + 1, Len(t))

\* prepare_insert at a symbol
Insert(container, name, want, place, body) ==
    /\ edits < MaxEdits
    /\ \E s \in ResolveSpan(text, container, name, want) :
        LET at == LinesBefore(text, place, s)
            block == Authored(text, ReindentBlock(body, IndentAt(text, place, s, at)),
                              FreshId(text), Meant(text, place, s))
            new == Inserted(text, at, block, eol)
        IN  /\ place = "into" => s.end > s.start
            /\ Reparses(new)
            /\ text' = new
            /\ eol' = (eol \/ at = Len(text))
            /\ diff' = LineDiff(Contents(text), Contents(new))
            /\ regular' = (regular /\ (place = "before" => Recognised(text, s)))
    /\ edits' = edits + 1
    /\ UNCHANGED lang

\* prepare_insert at the end of the file
InsertEnd(body) ==
    /\ edits < MaxEdits
    /\ LET block == Authored(text, ReindentBlock(body, 0), FreshId(text), {})
           new == Inserted(text, Len(text), block, eol)
       IN  /\ Reparses(new)
           /\ text' = new
           /\ diff' = LineDiff(Contents(text), Contents(new))
    /\ eol' = TRUE
    /\ edits' = edits + 1
    /\ UNCHANGED <<lang, regular>>

-----------------------------------------------------------------------------
DeclaredNames == {"A", "m", "f"}

Places == {"after", "before", "into"}

SpliceInit ==
    /\ lang \in DOMAIN Originals
    /\ text \in Originals[lang]
    /\ eol \in BOOLEAN
    /\ diff = NoHunk
    /\ edits = 0
    /\ regular = TRUE

\* The ranges worth asking for: none, the real ones, one that is out of date.
Wanted == {AnyRange, <<1, 1>>} \cup {SpanOf(s) : s \in Symbols(text)}

SpliceNext ==
    \/ \E container \in {NoContainer, "A"}, name \in DeclaredNames, want \in Wanted :
        \/ Delete(container, name, want)
        \/ \E body \in Bodies[lang] \cup {<<>>} : Replace(container, name, want, body)
        \/ \E body \in Bodies[lang], place \in Places :
            Insert(container, name, want, place, body)
    \/ \E body \in Bodies[lang] : InsertEnd(body)

SpliceSpec == SpliceInit /\ [][SpliceNext]_spliceVars

-----------------------------------------------------------------------------
(* Properties *)

\* What may be handed in: one definition, its header first and shallowest, with
\* no definition inside.
BodiesAreBlocks ==
    \A l \in DOMAIN Bodies : \A b \in Bodies[l] :
        /\ b # <<>> /\ b[1].kind \in Headers
        /\ b[1].kind = "one" => Len(b) = 1
        /\ \A k \in 2..Len(b) :
            /\ b[k].kind \in {"stmt", "close"} \cup NoCode
            /\ b[k].kind = "close" => k = Len(b)
            /\ l = "indented" =>
                b[k].kind # "close" /\ (IsBlank(b[k]) \/ b[k].ind > b[1].ind)

\* The symbols around line i as the parser sees them in the edited text.
Around(t, i) == {s.id : s \in {r \in Symbols(t) : r.start <= i /\ i <= r.end}}

\* The parser finds every line of code inside exactly the symbols it was written
\* into: a member added to a container is a member of it and of nothing inside
\* it, a sibling is a sibling, and no other code is moved into or out of a symbol.
InItsSymbols(t) ==
    \A i \in DOMAIN t :
        t[i].kind \in CodeKinds => Around(t, i) = t[i].own

Kinds == Headers \cup {"stmt"} \cup NoCode \cup Decorating
         \cup (IF Braces THEN {"trailing", "close", "doc", "docOpen", "docLine", "docClose"} ELSE {})

InDoc(l)  == l.kind \in {"docLine", "docClose"}
DocGoesOn(l) == l.kind \in {"docOpen", "docLine"}

\* A line above a symbol is followed by another one of the same symbol, by the
\* symbol, or by the empty line that has taken the symbol's place.
StandsOver(t, i) ==
    /\ i < Len(t)
    /\ DocGoesOn(t[i]) <=> InDoc(t[i + 1])
    /\ \/ /\ t[i + 1].kind \in Trivia \cup Headers
          /\ t[i].own = t[i + 1].own
          /\ Braces \/ t[i].ind = t[i + 1].ind
       \/ /\ IsBlank(t[i + 1])
          /\ t[i].own \subseteq t[i + 1].own

\* A text as an edit needs it and leaves it for the next one.
Editable(t) ==
    /\ Reparses(t)
    /\ \A i, j \in DOMAIN t : t[i].id = t[j].id => i = j \/ t[i].id = 0
    /\ InItsSymbols(t)
    /\ \A i \in DOMAIN t :
        /\ t[i].kind \in Kinds
        /\ IsBlank(t[i]) \/ (t[i].id # 0 /\ Around(t, i) \subseteq t[i].own)
        /\ t[i].kind \in Trivia => StandsOver(t, i)
        /\ InDoc(t[i]) => i > 1 /\ DocGoesOn(t[i - 1])
    /\ ~Braces => \A i \in DOMAIN t : t[i].kind \in Headers =>
        /\ \A k \in (i + 1)..SpanEnd(t, i) : IsBlank(t[k]) \/ t[k].ind > t[i].ind
        /\ t[i].kind = "one" =>
            \A k \in (i + 1)..Len(t) : t[k].kind \in NoCode \/ ~Deeper(t, i, k)

\* After any number of regular edits the text is still one that edits can rely
\* on: it parses, the parser finds every line of code inside exactly the symbols
\* it was written into and a comment in no others, what stands above a symbol is
\* kept together with it, in order, and no line comes twice (apply.rs; the spans
\* and the indentation an edit uses are read off the lines around it).
WellWritten == regular => Editable(text)

\* A line above a symbol, which was written for it, is followed by another one
\* or by the symbol.
KeptTogether(t, i) ==
    t[i].kind \in Trivia => i < Len(t) /\ t[i].own \subseteq t[i + 1].own

\* An attribute, doc comment or decorator stays directly above the symbol it
\* was written for, through regular edits: a deletion takes it along and an
\* insertion does not come between (apply.rs, SCRY-075 and SCRY-076).
NothingOrphaned == regular => \A i \in DOMAIN text : KeptTogether(text, i)

\* An edit touches one symbol: every line that disappears was written into
\* it or attached to it, but for one blank line, and the lines that stay keep
\* their order.
Neighbours ==
    LET lost == {i \in DOMAIN text : text[i].id \notin Ids(text') /\ ~IsBlank(text[i])}
        same(i, k) == text[i].id = text'[k].id /\ text[i].id # 0
    IN  /\ lost = {} \/ \E s \in Symbols(text) : \A i \in lost : s.id \in text[i].own
        /\ \A i, j \in DOMAIN text, k, l \in DOMAIN text' :
            same(i, k) /\ same(j, l) /\ i <= j => k <= l

\* A regular edit, after regular ones, leaves the other symbols alone.
KeepsNeighbours == [][regular' => Neighbours]_spliceVars

\* The text a hunk describes, or <<>> when its context, its removed lines or
\* its counts do not fit the text it is applied to.
Patched(old, h) ==
    LET last == h.start + h.oldCount - 1
    IN  IF /\ h.oldCount = Len(h.pre) + Len(h.removed) + Len(h.post)
           /\ h.newCount = Len(h.pre) + Len(h.added) + Len(h.post)
           /\ last <= Len(old)
           /\ SubSeq(old, h.start, last) = h.pre \o h.removed \o h.post
        THEN <<SubSeq(old, 1, h.start - 1) \o h.pre \o h.added \o h.post
               \o SubSeq(old, last + 1, Len(old))>>
        ELSE <<>>

\* The diff a caller is shown is the change that was made: its counts and its
\* context fit the old text, and applying it gives the new one.
DiffIsTheChange == [][Patched(Contents(text), diff') = <<Contents(text')>>]_spliceVars

=============================================================================
