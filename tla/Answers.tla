------------------------------- MODULE Answers -------------------------------
(***************************************************************************)
(* How the `code` tool builds one answer (Engine::code in engine.rs): the  *)
(* ranked lists of each query are fused, what earlier pages gave is left   *)
(* out, each query of a batch is held to its share of the token budget,    *)
(* and the spans are packed and laid out (fusion, budget and ordering in   *)
(* vyer-core).  The set of spans given so far outlives the call.           *)
(*                                                                         *)
(* A span is a number; numbers are ordered as the ids they stand for.      *)
(* What a search of the repository finds is part of the query.             *)
(***************************************************************************)
EXTENDS Integers, Sequences, FiniteSets, FiniteSetsExt, SequencesExt

CONSTANTS
    Queries,        \* the queries there are, see FusedQuery and ListQuery
    Batches,        \* sequences of them that are asked
    Budgets,        \* token budgets
    Cost,           \* span -> tokens it takes, envelope included
    FileOf,         \* span -> the file it is in
    FairFloor,      \* least share of a query in a batch (600 in the program)
    PagePool,       \* hits searched per file when paging (256)
    MaxSeen         \* MAX_SEEN_SPANS

\* Queries that are fused: hits is the spans that hold each matching line, file
\* after file; defs the symbols matching by name with their quality (0 exact,
\* 1 prefix, 2 part); meant the symbols found by the words of the query, best
\* first, named those it names in prose; exact the spans of the symbols that
\* have the query for a name, none unless it is an identifier.  Others list
\* spans with a score.  A query that is an identifier may have near ones, best
\* first.  One whose path scope has no file is outside, and finds nothing.  k
\* is the limit of a page, at least one.
FusedQuery(x) == x.kind = "fused"

Spans  == DOMAIN Cost
Scored == [span : Spans, score : Int]

QueryFields(x) ==
    /\ x.ident \in BOOLEAN /\ x.near \in Seq(Scored) /\ x.k \in Nat \ {0}
    /\ x.outside \in BOOLEAN
    /\ \A i, j \in DOMAIN x.near : i < j => x.near[i].score >= x.near[j].score
    /\ IF FusedQuery(x)
       THEN /\ x.hits \in Seq(Spans) /\ x.named \in Seq(Spans) /\ x.meant \in Seq(Spans)
            /\ IsFiniteSet(x.defs) /\ x.defs \subseteq [span : Spans, quality : 0..2]
            /\ x.exact \subseteq Spans
            /\ x.outside => x.defs = {} /\ <<>> \in {x.hits} \cap {x.named} \cap {x.meant}
       ELSE x.list \in Seq(Scored)

ASSUME AnswersAssumption ==
    /\ \A x \in Queries : QueryFields(x)
    /\ Batches \subseteq Seq(Queries) \ {<<>>}
    /\ Budgets \subseteq Nat
    /\ FairFloor \in Nat /\ PagePool \in Nat /\ MaxSeen \in Nat
    /\ Spans \subseteq Int /\ DOMAIN FileOf = Spans
    /\ \A s \in Spans : Cost[s] \in Nat \ {0}

VARIABLES
    seen,       \* spans that were gathered for the pages of this paging cycle
    asked,      \* the last request
    answer,     \* what it was answered
    cycle       \* history: what the pages of the cycle showed, and left out

answerVars == <<seen, asked, answer, cycle>>

-----------------------------------------------------------------------------
(* Ranked lists *)

Larger(a, b) == IF a > b THEN a ELSE b

Atmost(s, n) == SubSeq(s, 1, IF n < Len(s) THEN n ELSE Len(s))

\* The domain of ahead in the order in which ahead[x] is what comes before x.
InOrder(ahead) ==
    [i \in 1..Cardinality(DOMAIN ahead) |->
        CHOOSE x \in DOMAIN ahead : Cardinality(ahead[x]) = i - 1]

\* What a sequence has at some of its positions.
EntriesAt(s, positions) ==
    LET order == InOrder([i \in positions |-> {j \in positions : j < i}])
    IN  [i \in DOMAIN order |-> s[order[i]]]

\* rank_by_count: most hits first, then by id.
RankByCount(hits) ==
    LET count(s) == Cardinality({i \in DOMAIN hits : hits[i] = s})
    IN  InOrder([s \in ToSet(hits) |-> {t \in ToSet(hits) :
            count(t) > count(s) \/ (count(t) = count(s) /\ t < s)}])

\* A file is searched up to so many hits, more when paging.
Reached(query, paging) ==
    LET most == IF paging THEN Larger(query.k, PagePool) ELSE query.k
        file(i) == FileOf[query.hits[i]]
    IN  {i \in DOMAIN query.hits : Cardinality({j \in 1..i : file(j) = file(i)}) <= most}

\* lexical_ids: the spans of the hits reached.
LexicalIds(query, paging) == RankByCount(EntriesAt(query.hits, Reached(query, paging)))

\* structural_ids: by quality, then by id.
StructuralIds(query) ==
    LET order == InOrder([d \in query.defs |-> {e \in query.defs :
                    e.quality < d.quality \/ (e.quality = d.quality /\ e.span < d.span)}])
    IN  [i \in DOMAIN order |-> order[i].span]

-----------------------------------------------------------------------------
(* Reciprocal rank fusion (fusion::rrf_weighted), in units that make every    *)
(* contribution an integer: weights in tenths, ranks up to four.                *)

RankConstant == 60
Unit == (RankConstant + 1) * (RankConstant + 2) * (RankConstant + 3) * (RankConstant + 4)

RankIn(list, s) == CHOOSE r \in DOMAIN list : list[r] = s

Contribution(weight, list, s) ==
    IF s \in ToSet(list) THEN (weight * Unit) \div (RankConstant + RankIn(list, s)) ELSE 0

ScoreOfLast(lists, s) ==
    FoldLeft(LAMBDA sum, l : IF s \in ToSet(l[2]) THEN Contribution(l[1], l[2], s) ELSE sum, 0, lists)

Score(lists, s) ==
    SumFunction([i \in DOMAIN lists |-> Contribution(lists[i][1], lists[i][2], s)])

Fuse(lists) ==
    LET spans == UNION {ToSet(lists[i][2]) : i \in DOMAIN lists}
        scored == {[span |-> s, score |-> Score(lists, s)] : s \in spans}
    IN  InOrder([x \in scored |-> {y \in scored :
            y.score > x.score \/ (y.score = x.score /\ y.span < x.span)}])

\* The best two are within a tenth of each other.
Close(fused) ==
    /\ Len(fused) >= 2
    /\ 10 * (fused[1].score - fused[2].score) < fused[1].score

CheapLists(query, paging) ==
    LET structural == StructuralIds(query)
        lexical == LexicalIds(query, paging)
    IN  CASE query.mode = "lexical"    -> <<<<10, lexical>>>>
          [] query.mode = "structural" -> <<<<10, structural>>>>
          [] OTHER                     -> <<<<8, structural>>, <<8, lexical>>>>

\* An automatic query whose cheap lists are close or empty brings in the lists
\* by meaning, unless it is the name of a symbol come across.
Escalates(query, paging, named) ==
    LET cheap == Fuse(CheapLists(query, paging))
    IN  query.mode = "auto" /\ (Close(cheap) \/ cheap = <<>>) /\ ~named

\* The fused list of a query.
Ranked(query, paging, named) ==
    Fuse(IF Escalates(query, paging, named)
         THEN <<<<8, StructuralIds(query)>>, <<8, LexicalIds(query, paging)>>,
                <<3, query.named>>, <<2, query.meant>>>>
         ELSE CheapLists(query, paging))

\* Spans the cheap searches come across, whatever the mode.
Cheap(query, paging) ==
    IF FusedQuery(query)
    THEN {query.hits[i] : i \in Reached(query, paging)} \cup {d.span : d \in query.defs}
    ELSE {}

\* cands: what the first n queries of a request have come across.
Cands(r) ==
    LET cands[n \in 0..Len(r.batch)] ==
            IF n = 0 THEN {} ELSE
                LET query == r.batch[n]
                    known == cands[n - 1] \cup Cheap(query, r.paging)
                IN  IF FusedQuery(query) /\ Escalates(query, r.paging, query.exact \cap known # {})
                    THEN known \cup ToSet(query.named) \cup ToSet(query.meant)
                    ELSE known
    IN  cands

\* exact_hit: a query is the name of a symbol that it or an earlier one of the
\* batch has come across.
ExactHit(r, n) ==
    r.batch[n].exact \cap (Cands(r)[n - 1] \cup Cheap(r.batch[n], r.paging)) # {}

-----------------------------------------------------------------------------
(* One query, one batch *)

TotalCost(spans) == SumFunction([i \in DOMAIN spans |-> Cost[spans[i].span]])

\* Spans while they fit in the share; the first is kept in any case.
WithinShare(spans, share) ==
    LET fits(n) == n <= 1 \/ TotalCost(SubSeq(spans, 1, n)) <= share
        kept == {n \in 0..Len(spans) : \A m \in 1..n : fits(m)}
    IN  SubSeq(spans, 1, Max(kept))

NotGiven(spans, given) ==
    EntriesAt(spans, {i \in DOMAIN spans : spans[i].span \notin given})

PageCutFirst(ranked, k, given) == NotGiven(Atmost(ranked, k), given)

\* What a page takes before the limit k: nothing that was given before.
PageOf(ranked, k, given) == Atmost(NotGiven(ranked, given), k)

\* The spans the n-th query adds.  Lists are neither paged nor held to a share.
SpansOf(r, n, given) ==
    LET query == r.batch[n]
        share == Larger(r.budget \div Len(r.batch), FairFloor)
    IN  IF FusedQuery(query)
        THEN WithinShare(PageOf(Ranked(query, r.paging, ExactHit(r, n)), query.k, given), share)
        ELSE query.list

\* A span that two queries find is kept where it came first.
Deduplicated(spans) ==
    EntriesAt(spans, {i \in DOMAIN spans : \A j \in 1..(i - 1) : spans[j].span # spans[i].span})

\* The spans of a request, before the budget is applied.
Gathered(r, given) ==
    LET added == [n \in DOMAIN r.batch |-> SpansOf(r, n, given)]
    IN  Deduplicated(FoldLeft(LAMBDA all, spans : all \o spans, <<>>, added))

-----------------------------------------------------------------------------
(* Packing and layout (budget::pack, ordering::lost_in_the_middle) *)

\* A stable sort by score.
BestFirst(spans) ==
    LET order == InOrder([i \in DOMAIN spans |-> {j \in DOMAIN spans :
                    spans[j].score > spans[i].score \/ (spans[j].score = spans[i].score /\ j < i)}])
    IN  [i \in DOMAIN order |-> spans[order[i]]]

PackStopping(spans, budget) ==
    LET n == {m \in 0..Len(spans) : TotalCost(SubSeq(BestFirst(spans), 1, m)) <= budget}
    IN  SubSeq(BestFirst(spans), 1, Max(n))

\* A span that does not fit is passed over: a later, smaller one still may.
Pack(spans, budget) ==
    FoldLeft(LAMBDA kept, x : IF TotalCost(kept) + Cost[x.span] > budget
                              THEN kept ELSE Append(kept, x), <<>>, BestFirst(spans))

EdgesFrontToBack(ranked) == ranked

\* Best first, second best last, the least in the middle.
LostInTheMiddle(ranked) ==
    LET n == Len(ranked)
    IN  [i \in 1..n |-> ranked[IF i <= (n + 1) \div 2 THEN 2 * i - 1 ELSE 2 * (n - i + 1)]]

-----------------------------------------------------------------------------
(* Calls *)

NoRequest == [batch |-> <<>>, budget |-> 0, paging |-> FALSE]
NoAnswer  == [gathered |-> <<>>, shown |-> <<>>, omitted |-> 0, found |-> <<>>]

\* With nothing found, the symbols named almost like the last query that is an
\* identifier, nearest first and whatever the budget; none if the scope of a
\* query has no file, which is what is answered then.
Suggested(r) ==
    LET names == {i \in DOMAIN r.batch : r.batch[i].ident}
        query == r.batch[Max(names)]
        outside == \E i \in DOMAIN r.batch : r.batch[i].outside
    IN  IF names = {} \/ outside THEN <<>> ELSE Atmost(query.near, query.k)

AnswerTo(r, given) ==
    LET all == Gathered(r, given)
        kept == IF all = <<>> THEN Suggested(r) ELSE Pack(all, r.budget)
    IN  [gathered |-> all,
         shown |-> LostInTheMiddle(kept),
         omitted |-> IF all = <<>> THEN 0 ELSE Len(all) - Len(kept),
         found |-> [i \in DOMAIN r.batch |-> Len(SpansOf(r, i, given))]]

SpanSet(spans) == {spans[i].span : i \in DOMAIN spans}

SeenAfterReset(page, old) == IF Cardinality(old) > MaxSeen THEN {} ELSE old \cup page

\* The paging set starts a new cycle with this page once it is too large.
SeenAfter(page, old) == (IF Cardinality(old) > MaxSeen THEN {} ELSE old) \cup page

\* The spans of an answer that the caller is shown.  Suggestions are no matches.
Shown(all) == SpanSet(all.shown) \cap SpanSet(all.gathered)

NothingYet == [shown |-> {}, omitted |-> {}]

\* What a cycle has shown and left out, with one more page.
CycleAfter(all, old) ==
    LET before == IF Cardinality(seen) > MaxSeen THEN NothingYet ELSE old
    IN  [shown |-> before.shown \cup Shown(all),
         omitted |-> before.omitted \cup (SpanSet(all.gathered) \ Shown(all))]

AnswersInit ==
    /\ seen = {}
    /\ cycle = NothingYet
    /\ asked = NoRequest
    /\ answer = NoAnswer

Code(r) ==
    LET given == IF r.paging THEN seen ELSE {}
    IN  /\ asked = NoRequest
        /\ asked' = r
        /\ answer' = AnswerTo(r, given)
        /\ seen' = IF r.paging THEN SeenAfter(SpanSet(answer'.gathered), seen) ELSE seen
        /\ cycle' = IF r.paging THEN CycleAfter(answer', cycle) ELSE cycle

\* The caller takes the answer.
Read ==
    /\ asked # NoRequest
    /\ asked' = NoRequest
    /\ answer' = NoAnswer
    /\ UNCHANGED <<seen, cycle>>

AnswersNext ==
    \/ Read
    \/ \E batch \in Batches, budget \in Budgets, paging \in BOOLEAN :
            Code([batch |-> batch, budget |-> budget, paging |-> paging])

AnswersSpec == AnswersInit /\ [][AnswersNext]_answerVars

-----------------------------------------------------------------------------
(* Properties *)

Matches(query) ==
    (IF query.mode = "structural" THEN {} ELSE ToSet(query.hits))
        \cup (IF query.mode = "lexical" THEN {} ELSE {d.span : d \in query.defs})

\* A search for pages reaches all lines that match: no file has more of them
\* than it gives.
AllSearched(query) == Reached(query, TRUE) = DOMAIN query.hits

\* Unit keeps the ranks of lists of ten thousand apart.
ListsAreShort ==
    \A x \in Queries, paging \in BOOLEAN : FusedQuery(x) =>
        Len(StructuralIds(x)) <= 10000 /\ Len(LexicalIds(x, paging)) <= 10000

\* A page of a single search, asked for and answered by this step.
PageOfSearch == asked'.paging /\ Len(asked'.batch) = 1 /\ FusedQuery(asked'.batch[1])

\* Nothing is found for it, though its search reaches every line that matches.
PagesEnd == PageOfSearch /\ answer'.gathered = <<>> /\ AllSearched(asked'.batch[1])

PageGoesOn ==
    LET page == SpanSet(answer'.gathered)
    IN  /\ PageOfSearch => page \cap (cycle.shown \cup cycle.omitted) = {} /\ page \subseteq seen'
        /\ PagesEnd => Matches(asked'.batch[1]) \ cycle.omitted \subseteq cycle.shown

\* Paging shows every match once (engine.rs:757, 1004, 1038), but for those the
\* budget leaves out: nothing of a page was on an earlier one of its cycle, the
\* next page will know of it even if this one starts a new cycle, and when
\* nothing more is found the caller was shown every match that was not omitted.
PagesGoOn == [][PageGoesOn]_answerVars

\* What a test says of paging (engine.rs:8606): it covers every match exactly
\* once.  A span that the budget omits is recorded with the page all the same.
EveryMatchIsShown ==
    [][PagesEnd => Matches(asked'.batch[1]) \subseteq cycle.shown]_answerVars

CostOf(spans) == SumFunction([x \in spans |-> Cost[x.span]])

\* What an answer costs and leaves out (engine.rs:766, vyer-core 146, 365): it
\* stays in the budget; a span is left out only if it does not fit beside the
\* better ones shown; and in a batch of searches whose first finds are within
\* their shares, nothing is left out and the best of every query is shown.
\* Not for suggestions of near names, which no budget holds.
AnswerFits ==
    LET shown == SpanSet(answer.shown)
        better(x) == {y \in ToSet(answer.shown) : y.score >= x.score}
        share == asked.budget \div Len(asked.batch)
        tops == {SpansOf(asked, i, {})[1] :
                    i \in {j \in DOMAIN asked.batch : answer.found[j] > 0}}
        fair == /\ ~asked.paging
                /\ \A i \in DOMAIN asked.batch : FusedQuery(asked.batch[i])
                /\ FairFloor <= share
                /\ \A x \in tops : Cost[x.span] <= share
    IN  answer.gathered # <<>> =>
            /\ CostOf(ToSet(answer.shown)) <= asked.budget
            /\ answer.omitted = Len(answer.gathered) - Len(answer.shown)
            /\ \A x \in ToSet(answer.gathered) :
                    x.span \notin shown => CostOf(better(x)) + Cost[x.span] > asked.budget
            /\ fair => answer.omitted = 0 /\ {x.span : x \in tops} \subseteq shown

\* Where a span stands (vyer-core 97, 157): spans get worse from both ends of
\* an answer towards the middle, the two best being the first and the last;
\* and what is ahead in a list of the query and behind in none comes before.
BestAtTheEdges ==
    LET n == Len(answer.shown)
        score(i) == answer.shown[i].score
        front == 1..((n + 1) \div 2)
        query == asked.batch[1]
        lists == {StructuralIds(query), LexicalIds(query, asked.paging)}
        ahead(list, a, b) ==
            a \in ToSet(list) /\ (b \in ToSet(list) => RankIn(list, a) < RankIn(list, b))
        rank(s) == CHOOSE i \in DOMAIN answer.gathered : answer.gathered[i].span = s
        named == /\ Len(asked.batch) = 1
                 /\ FusedQuery(query)
                 /\ query.mode = "auto"
                 /\ \E d \in query.defs : d.span \in query.exact
    IN  /\ \A i, j \in front : i < j => score(i) >= score(j)
        /\ \A i, j \in (1..n) \ front : i < j => score(i) <= score(j)
        /\ \A i \in 2..(n - 1) : score(n) >= score(i)
        /\ named => \A a, b \in SpanSet(answer.gathered) :
                (\E l \in lists : ahead(l, a, b)) /\ (\A l \in lists : ~ahead(l, b, a))
                    => rank(a) < rank(b)

=============================================================================
