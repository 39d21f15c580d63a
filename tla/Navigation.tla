----------------------------- MODULE Navigation -----------------------------
(***************************************************************************)
(* The graph queries of crates/vyer-server/src/engine.rs: blast radius     *)
(* (impact) and call graph, and the guards of deletes and renames.  There  *)
(* is no resolved graph: each handler reads symbol spans and the           *)
(* identifiers of lines in its own way.  The guard of deletes goes through *)
(* a search that stops after so many lines of a file; the queries read all *)
(* of it.                                                                  *)
(*                                                                         *)
(* A repository is given by its symbols and by what its lines mention.     *)
(***************************************************************************)
EXTENDS Integers, FiniteSets, SequencesExt

CONSTANTS
    Files, Names,
    PackageFiles,   \* file -> the files below the directory of its nearest manifest
    Alike,          \* name -> the names a smart-case search for it finds
    Lines,          \* line numbers
    MaxHits,        \* lines of a file a search returns (200 in the program)
    MaxDepth,       \* levels a traversal goes (5 in the program)
    MaxSymbols, MaxMentions     \* bounds on a repository

ASSUME NavigationAssumption ==
    /\ PackageFiles \in [Files -> SUBSET Files]
    /\ \A f \in Files : f \in PackageFiles[f]
    /\ Alike \in [Names -> SUBSET Names]
    /\ \A n \in Names : n \in Alike[n]
    /\ Lines \subseteq Nat \ {0}
    /\ IsFiniteSet(Lines)
    /\ MaxHits \in Nat
    /\ MaxDepth \in Nat \ {0}

VARIABLES
    symbols,    \* [file, name, start, end]
    mentions    \* [file, line, name, kind]: a call, another use, or prose

navVars == <<symbols, mentions>>

-----------------------------------------------------------------------------
(* Lines and bodies (code_ident_lines, scan_idents, search_text) *)

\* The declaration of a function reads like a call of it.
Declared(s) == [file |-> s.file, line |-> s.start, name |-> s.name, kind |-> "call"]

InCode == {m \in mentions : m.kind # "prose"} \cup {Declared(s) : s \in symbols}

CodeIdentLinesOf(f, n) == {m.line : m \in {x \in InCode : x.file = f /\ x.name = n}}

Inside(m, s) == m.file = s.file /\ m.line \in s.start..s.end

MentionedIn(s) == {m.name : m \in {x \in InCode : Inside(x, s)}}

CalledIn(s) == {m.name : m \in {x \in InCode : Inside(x, s) /\ x.kind = "call"}}

DefLines(f, n) == {s.start : s \in {x \in symbols : x.file = f /\ x.name = n}}

\* The lines of a file where a name, or one like it, is written at all, and the
\* first of them, which are all that a search returns.
WrittenLines(f, n) ==
    {m.line : m \in {x \in InCode \cup mentions : x.file = f /\ x.name \in Alike[n]}}

SearchHits(f, n) ==
    LET written == WrittenLines(f, n)
    IN  {l \in written : Cardinality({k \in written : k < l}) < MaxHits}

-----------------------------------------------------------------------------
(* Scopes *)

NoFile == "none"

\* A name qualified by a file restricts a query to what lies below the file's
\* package, unless that is the repository itself.
FilesFor(path) == IF path = NoFile THEN Files ELSE PackageFiles[path]

SymbolsFor(path) == {s \in symbols : s.file \in FilesFor(path)}

-----------------------------------------------------------------------------
(* The queries *)

\* external_refs: what keeps a symbol from being deleted.
ExternalRefs(n) ==
    {at \in Files \X Lines :
        at[2] \in (SearchHits(at[1], n) \cap CodeIdentLinesOf(at[1], n)) \ DefLines(at[1], n)}

Found(s, d) == [symbol |-> s, depth |-> d]

SeenIn(found) == {x.symbol : x \in found}

ImpactDirect(path, target) ==
    {Found(s, 1) : s \in {x \in SymbolsFor(path) : target \in MentionedIn(x) \ {x.name}}}

\* impact_spans: level by level from the target, the symbols whose bodies
\* mention a name of the frontier; a name enters the frontier once.
Impact(path, target) ==
    LET mention(n) == {s \in SymbolsFor(path) : n \in MentionedIn(s) \ {s.name}}
        walk[d \in 0..MaxDepth] ==
            IF d = 0 THEN [found |-> {}, names |-> {target}, frontier |-> {target}]
            ELSE LET w == walk[d - 1]
                     new == (UNION {mention(n) : n \in w.frontier}) \ SeenIn(w.found)
                     next == {s.name : s \in new} \ w.names
                 IN  [found |-> w.found \cup {Found(s, d) : s \in new},
                      names |-> w.names \cup next, frontier |-> next]
    IN  walk[MaxDepth].found

\* callgraph_spans: downwards along the names called.  The names the target
\* calls start the walk without being marked as seen.
Callgraph(path, target) ==
    LET scoped == SymbolsFor(path)
        calls(s) == CalledIn(s) \ {s.name}
        named(ns) == {s \in scoped : s.name \in ns}
        walk[d \in 0..MaxDepth] ==
            IF d = 0 THEN [found |-> {}, names |-> {target},
                           frontier |-> UNION {calls(s) : s \in named({target})}]
            ELSE LET w == walk[d - 1]
                     new == named(w.frontier) \ SeenIn(w.found)
                     next == (UNION {calls(s) : s \in new}) \ w.names
                 IN  [found |-> w.found \cup {Found(s, d) : s \in new},
                      names |-> w.names \cup next, frontier |-> next]
    IN  walk[MaxDepth].found

-----------------------------------------------------------------------------
(* The guards of code_apply, which look at the repository before the batch. *)
(* A rename of a name to another looks for symbols in its scope, the path   *)
(* scope or else all files; it edits files of the scope, of the language of *)
(* the definition and, for a name several files define, of its package.     *)

RenameEdits ==
    {e \in [name : Names, to : Names, scope : SUBSET Files, edits : SUBSET Files] :
        e.name # e.to /\ e.edits \subseteq e.scope /\ e.edits # {}}

MayDelete(n) == ExternalRefs(n) = {}

MayRenameInFile(edit) ==
    ~\E s, d \in symbols :
        s.file \in edit.scope /\ s.name = edit.to /\ d.file = s.file /\ d.name = edit.name

MayRename(edit) == ~\E s \in symbols : s.file \in edit.scope /\ s.name = edit.to

\* The name of a symbol of a file after a batch of renames, one after the other.
NameAfter(batch, f, n) ==
    FoldLeft(LAMBDA m, edit : IF f \in edit.edits /\ m = edit.name THEN edit.to ELSE m, n, batch)

-----------------------------------------------------------------------------
(* A repository is written symbol by symbol and mention by mention. *)

NavInit ==
    /\ symbols = {}
    /\ mentions = {}

WriteSymbol(f, n, a, b) ==
    /\ Cardinality(symbols) < MaxSymbols
    /\ mentions = {}
    /\ a <= b
    /\ symbols' = symbols \cup {[file |-> f, name |-> n, start |-> a, end |-> b]}
    /\ UNCHANGED mentions

WriteMention(f, l, n, k) ==
    /\ Cardinality(mentions) < MaxMentions
    /\ mentions' = mentions \cup {[file |-> f, line |-> l, name |-> n, kind |-> k]}
    /\ UNCHANGED symbols

NavNext ==
    \E f \in Files, n \in Names :
        \/ \E a, b \in Lines : WriteSymbol(f, n, a, b)
        \/ \E l \in Lines, k \in {"call", "use", "prose"} : WriteMention(f, l, n, k)

NavSpec == NavInit /\ [][NavNext]_navVars

-----------------------------------------------------------------------------
(* Properties *)

\* The names that reach a name along d mentions, and the symbols that are
\* reached from it along d calls.
NamesUp(path, n) ==
    LET up[d \in 0..MaxDepth] ==
            IF d = 0 THEN {n}
            ELSE {s.name : s \in {x \in SymbolsFor(path) :
                                     up[d - 1] \cap (MentionedIn(x) \ {x.name}) # {}}}
    IN  up

SymbolsDown(path, n) ==
    LET down[d \in 0..MaxDepth] ==
            IF d = 0 THEN {s \in SymbolsFor(path) : s.name = n}
            ELSE {s \in SymbolsFor(path) :
                    \E x \in down[d - 1] : s.name \in CalledIn(x) \ {x.name, n}}
    IN  down

\* The traversals are complete and give least depths: a symbol is reported at
\* depth d exactly if the shortest chain of mentions (of calls) has d links,
\* up to the bound; and nothing is called that is not impacted the other way.
ReachIsExact ==
    \A path \in Files \cup {NoFile}, n \in Names :
        LET up == NamesUp(path, n)
            down == SymbolsDown(path, n)
            impact == Impact(path, n)
            callgraph == Callgraph(path, n)
            upAt(s, d) == up[d - 1] \cap (MentionedIn(s) \ {s.name}) # {}
        IN  \A s \in SymbolsFor(path) :
                /\ \A d \in 1..MaxDepth :
                    /\ Found(s, d) \in impact <=>
                            upAt(s, d) /\ \A e \in 1..(d - 1) : ~upAt(s, e)
                    /\ Found(s, d) \in callgraph <=>
                            s \in down[d] /\ \A e \in 1..(d - 1) : s \notin down[e]
                /\ s \in SeenIn(callgraph) =>
                        \E x \in Impact(path, s.name) : x.symbol.name = n

\* No file has more lines with a name than a search returns.
Complete(n) == \A f \in Files : Cardinality(WrittenLines(f, n)) <= MaxHits

\* A rename reaches both symbols or neither.
Together(edit, s, t) == s.file \in edit.edits <=> t.file \in edit.edits

\* Two renames of one batch do not bring two names onto one.
NoRace(a, b) == a.to # b.to \/ a.name = b.name

KeptApart(a, b, s, t) ==
    NameAfter(<<a, b>>, s.file, s.name) # NameAfter(<<a, b>>, t.file, t.name)

\* What the guards are for (engine.rs:3638, 3682).  When a symbol may be deleted
\* nothing is left in code that means it, where no file mentions it more often
\* than a search returns; and two renames of a batch that are allowed keep apart
\* what had different names, in the files that each of them reaches together,
\* unless they race to one new name: each is looked at as if it were alone.
GuardsProtect ==
    /\ \A s \in symbols :
        MayDelete(s.name) /\ Complete(s.name) =>
            \A m \in InCode :
                m.name = s.name /\ ~Inside(m, s) => \E t \in symbols \ {s} : t.name = m.name
    /\ LET allowed == {e \in RenameEdits : MayRename(e)}
       IN  \A s, t \in symbols : s.name # t.name =>
            \A a, b \in allowed :
                Together(a, s, t) /\ Together(b, s, t) /\ NoRace(a, b) => KeptApart(a, b, s, t)

=============================================================================
