---------------------------- MODULE WarmCore ----------------------------
(***************************************************************************)
(* The incremental database of vyer-incr (crates/vyer-incr/src/lib.rs):    *)
(* file texts are its only inputs; syntax trees, symbol tables, outlines,  *)
(* line indexes and the repository outline are derived on demand and       *)
(* memoized, each memo validated against the content hash of its file.     *)
(*                                                                         *)
(* Derived data is symbolic: a tree is the record of the parser, the path  *)
(* (which decides the language) and the text it was built from, a symbol   *)
(* table wraps the tree it was extracted from, and so on.  Two derivations *)
(* are equal exactly when they were computed from the same inputs.         *)
(***************************************************************************)
EXTENDS Naturals

CONSTANTS
    Files,        \* repository-relative paths
    Texts,        \* file contents
    Hashes,       \* content hashes
    HashOf,       \* hash_str, as a function from Texts to Hashes
    Parsers,      \* parse functions that may be installed
    Heuristic,    \* the built-in parser, in use until set_parser
    Absent,       \* "not indexed", "not memoized"
    MaxRevision   \* bound on the revision counter

ASSUME HashAssumption ==
    /\ HashOf \in [Texts -> Hashes]
    /\ \A s, t \in Texts : HashOf[s] = HashOf[t] => s = t

ASSUME CoreAssumption ==
    /\ Heuristic \in Parsers
    /\ Absent \notin Texts
    /\ MaxRevision \in Nat

VARIABLES
    inputs,           \* path -> text, Absent when not indexed
    revision,
    parser,
    parse_memo,       \* path -> [hash, value], Absent when empty
    symbols_memo,
    outline_memo,
    line_index_memo,
    repo_memo,        \* [key, value] of the whole repository
    answer            \* what the last query returned

memos == <<parse_memo, symbols_memo, outline_memo, line_index_memo, repo_memo>>
vars  == <<inputs, revision, parser, memos, answer>>

-----------------------------------------------------------------------------
(* Derived data. *)

Tree(p, f, t)    == [parser |-> p, path |-> f, text |-> t]
SymbolTable(tree) == [symbols |-> tree]
Outline(table)   == [outline |-> table]
LineIndex(t)     == [lines |-> t]
RepoReply(outlines) == [repo |-> outlines]

\* What a query on a path that is not indexed returns.
DefaultReply == [default |-> TRUE]

Memo(h, v) == [hash |-> h, value |-> v]

Indexed == {f \in Files : inputs[f] # Absent}

\* A memo is valid iff its hash is the current hash of its file.
Hit(memo, f) == memo[f] # Absent /\ memo[f].hash = HashOf[inputs[f]]

\* Faults used to test the properties carry the name of the definition they
\* distort and say how.
FillIfEmpty(memo, f, v) ==
    IF memo[f] # Absent THEN memo
    ELSE [memo EXCEPT ![f] = Memo(HashOf[inputs[f]], v)]

\* The memo table after a query on f: unchanged on a hit, filled otherwise.
Fill(memo, f, v) ==
    IF Hit(memo, f) THEN memo
    ELSE [memo EXCEPT ![f] = Memo(HashOf[inputs[f]], v)]

Parsed(f) == Fill(parse_memo, f, Tree(parser, f, inputs[f]))

Extracted(f) == Fill(symbols_memo, f, SymbolTable(Parsed(f)[f].value))

Outlined(f) == Fill(outline_memo, f, Outline(Extracted(f)[f].value))

\* The key of repo_memo: every indexed path with its content hash.
RepoKey == [f \in Indexed |-> HashOf[inputs[f]]]

-----------------------------------------------------------------------------
Init ==
    /\ inputs = [f \in Files |-> Absent]
    /\ revision = 0
    /\ parser = Heuristic
    /\ parse_memo = [f \in Files |-> Absent]
    /\ symbols_memo = [f \in Files |-> Absent]
    /\ outline_memo = [f \in Files |-> Absent]
    /\ line_index_memo = [f \in Files |-> Absent]
    /\ repo_memo = Absent
    /\ answer = DefaultReply

SetParserKeepingSymbols(p) ==
    /\ revision < MaxRevision
    /\ parser' = p
    /\ parse_memo' = [f \in Files |-> Absent]
    /\ outline_memo' = [f \in Files |-> Absent]
    /\ repo_memo' = Absent
    /\ revision' = revision + 1
    /\ UNCHANGED <<inputs, symbols_memo, line_index_memo, answer>>

SetParserUnstamped(p) ==
    /\ parser' = p
    /\ parse_memo' = [f \in Files |-> Absent]
    /\ symbols_memo' = [f \in Files |-> Absent]
    /\ outline_memo' = [f \in Files |-> Absent]
    /\ repo_memo' = Absent
    /\ UNCHANGED <<inputs, revision, line_index_memo, answer>>

\* Only the memos that are derived from the parser are dropped.
SetParser(p) ==
    /\ revision < MaxRevision
    /\ parser' = p
    /\ parse_memo' = [f \in Files |-> Absent]
    /\ symbols_memo' = [f \in Files |-> Absent]
    /\ outline_memo' = [f \in Files |-> Absent]
    /\ repo_memo' = Absent
    /\ revision' = revision + 1
    /\ UNCHANGED <<inputs, line_index_memo, answer>>

SetTextPurging(f, t) ==
    /\ inputs[f] # Absent => HashOf[inputs[f]] # HashOf[t]
    /\ revision < MaxRevision
    /\ inputs' = [inputs EXCEPT ![f] = t]
    /\ outline_memo' = [g \in Files |-> Absent]
    /\ revision' = revision + 1
    /\ UNCHANGED <<parser, parse_memo, symbols_memo, line_index_memo,
                   repo_memo, answer>>

\* Setting the text a file already has changes nothing; memos are never
\* purged here, they are found stale by their hash.
SetText(f, t) ==
    /\ inputs[f] # Absent => HashOf[inputs[f]] # HashOf[t]
    /\ revision < MaxRevision
    /\ inputs' = [inputs EXCEPT ![f] = t]
    /\ revision' = revision + 1
    /\ UNCHANGED <<parser, memos, answer>>

RemoveText(f) ==
    /\ inputs[f] # Absent
    /\ revision < MaxRevision
    /\ inputs' = [inputs EXCEPT ![f] = Absent]
    /\ parse_memo' = [parse_memo EXCEPT ![f] = Absent]
    /\ symbols_memo' = [symbols_memo EXCEPT ![f] = Absent]
    /\ outline_memo' = [outline_memo EXCEPT ![f] = Absent]
    /\ line_index_memo' = [line_index_memo EXCEPT ![f] = Absent]
    /\ repo_memo' = Absent
    /\ revision' = revision + 1
    /\ UNCHANGED <<parser, answer>>

Parse(f) ==
    /\ f \in Indexed
    /\ parse_memo' = Parsed(f)
    /\ answer' = parse_memo'[f].value
    /\ UNCHANGED <<inputs, revision, parser, symbols_memo, outline_memo,
                   line_index_memo, repo_memo>>

\* parse is called only when the symbol table itself is stale.
Symbols(f) ==
    /\ f \in Indexed
    /\ parse_memo' = IF Hit(symbols_memo, f) THEN parse_memo ELSE Parsed(f)
    /\ symbols_memo' = Extracted(f)
    /\ answer' = symbols_memo'[f].value
    /\ UNCHANGED <<inputs, revision, parser, outline_memo, line_index_memo,
                   repo_memo>>

OutlineOf(f) ==
    /\ f \in Indexed
    /\ parse_memo' = IF Hit(outline_memo, f) \/ Hit(symbols_memo, f)
                     THEN parse_memo ELSE Parsed(f)
    /\ symbols_memo' = IF Hit(outline_memo, f) THEN symbols_memo
                       ELSE Extracted(f)
    /\ outline_memo' = Outlined(f)
    /\ answer' = outline_memo'[f].value
    /\ UNCHANGED <<inputs, revision, parser, line_index_memo, repo_memo>>

LineIndexOf(f) ==
    /\ f \in Indexed
    /\ line_index_memo' = Fill(line_index_memo, f, LineIndex(inputs[f]))
    /\ answer' = line_index_memo'[f].value
    /\ UNCHANGED <<inputs, revision, parser, parse_memo, symbols_memo,
                   outline_memo, repo_memo>>

RepoHit ==
    /\ repo_memo # Absent
    /\ repo_memo.key = RepoKey
    /\ answer' = RepoReply(repo_memo.value)
    /\ UNCHANGED <<inputs, revision, parser, memos>>

\* Each file's outline is asked for in turn and hits its own memo when fresh.
RepoBuild ==
    /\ repo_memo # Absent => repo_memo.key # RepoKey
    /\ outline_memo' = [f \in Files |->
          IF f \in Indexed THEN Outlined(f)[f] ELSE outline_memo[f]]
    /\ symbols_memo' = [f \in Files |->
          IF f \in Indexed /\ ~Hit(outline_memo, f)
          THEN Extracted(f)[f] ELSE symbols_memo[f]]
    /\ parse_memo' = [f \in Files |->
          IF f \in Indexed /\ ~Hit(outline_memo, f) /\ ~Hit(symbols_memo, f)
          THEN Parsed(f)[f] ELSE parse_memo[f]]
    /\ repo_memo' = [key |-> RepoKey,
                     value |-> [f \in Indexed |-> outline_memo'[f].value]]
    /\ answer' = RepoReply(repo_memo'.value)
    /\ UNCHANGED <<inputs, revision, parser, line_index_memo>>

\* Every derived query on a path that is not indexed.
QueryAbsent(f) ==
    /\ f \notin Indexed
    /\ answer' = DefaultReply
    /\ UNCHANGED <<inputs, revision, parser, memos>>

Write ==
    \/ \E p \in Parsers : SetParser(p)
    \/ \E f \in Files : \/ \E t \in Texts : SetText(f, t)
                        \/ RemoveText(f)

Query ==
    \/ \E f \in Files : \/ Parse(f)
                        \/ Symbols(f)
                        \/ OutlineOf(f)
                        \/ LineIndexOf(f)
                        \/ QueryAbsent(f)
    \/ RepoHit
    \/ RepoBuild

Next == Write \/ Query

Spec == Init /\ [][Next]_vars

-----------------------------------------------------------------------------
(* Properties. *)

Entries(values) == [hash : Hashes, value : values]

Trees   == [parser : Parsers, path : Files, text : Texts]
Tables  == [symbols : Trees]
Outlines == [outline : Tables]
Indexes == [lines : Texts]

\* Every variable has its type; a memo holds a value of the kind its query
\* returns (struct Db and struct Memo).
TypeOK ==
    /\ inputs \in [Files -> Texts \cup {Absent}]
    /\ revision \in 0..MaxRevision
    /\ parser \in Parsers
    /\ parse_memo \in [Files -> Entries(Trees) \cup {Absent}]
    /\ symbols_memo \in [Files -> Entries(Tables) \cup {Absent}]
    /\ outline_memo \in [Files -> Entries(Outlines) \cup {Absent}]
    /\ line_index_memo \in [Files -> Entries(Indexes) \cup {Absent}]

\* A memo that a query would return is what a computation from scratch would
\* return: lazy validation by hash, the parser swap and the removal of a file
\* never leave a valid-looking entry that was built from something else.
MemoSound ==
    /\ \A f \in Indexed :
        LET tree == Tree(parser, f, inputs[f]) IN
        /\ Hit(parse_memo, f) => parse_memo[f].value = tree
        /\ Hit(symbols_memo, f) => symbols_memo[f].value = SymbolTable(tree)
        /\ Hit(outline_memo, f) =>
               outline_memo[f].value = Outline(SymbolTable(tree))
        /\ Hit(line_index_memo, f) =>
               line_index_memo[f].value = LineIndex(inputs[f])
    /\ repo_memo # Absent /\ repo_memo.key = RepoKey =>
          repo_memo.value = [f \in Indexed |->
              Outline(SymbolTable(Tree(parser, f, inputs[f])))]

\* The memoized database implements the one that recomputes every answer: the
\* inputs are what both share, the memos and the revision are hidden.
Fresh == INSTANCE FreshCore WITH
    Files <- Files, Texts <- Texts, Parsers <- Parsers, Heuristic <- Heuristic,
    Absent <- Absent, inputs <- inputs, parser <- parser, answer <- answer
FreshSpec == Fresh!Spec

\* Invalidation is minimal: but for set_parser, a step that leaves a file's
\* text alone never drops or rebuilds a valid memo of that file, whatever it
\* does to the other files.
KeepsValidMemos ==
    [][~(\E p \in Parsers : SetParser(p)) =>
         \A f \in Indexed : inputs'[f] = inputs[f] =>
            /\ Hit(parse_memo, f) => parse_memo'[f] = parse_memo[f]
            /\ Hit(symbols_memo, f) => symbols_memo'[f] = symbols_memo[f]
            /\ Hit(outline_memo, f) => outline_memo'[f] = outline_memo[f]
            /\ Hit(line_index_memo, f) =>
                   line_index_memo'[f] = line_index_memo[f]
       ]_vars

=============================================================================
