-------------------------- MODULE DerivedIndexes --------------------------
(***************************************************************************)
(* The two whole-repository indexes the server keeps beside the warm core  *)
(* (crates/vyer-server/src/engine.rs): the token index, updated file by    *)
(* file by comparing content hashes, and the semantic index, rebuilt from  *)
(* the symbol tables.  Each is kept in a slot stamped with the revision it *)
(* was built at and reused while the core's revision equals the stamp.     *)
(***************************************************************************)
EXTENDS WarmCore

CONSTANTS
    Tokens,      \* lowercased identifiers of three bytes or more
    TokensOf,    \* text -> the tokens identifiers() finds in it
    Needles,     \* query terms
    HostsOf      \* needle -> the tokens it is a substring of

ASSUME TokenAssumption ==
    /\ TokensOf \in [Texts -> SUBSET Tokens]
    /\ HostsOf \in [Needles -> SUBSET Tokens]
    /\ Absent \notin [hash : Hashes, tokens : SUBSET Tokens]

VARIABLES
    token_index,      \* [rev, file_tokens, postings], Absent before first use
    semantic_index,   \* [rev, docs], Absent before first use
    candidates        \* what the last lexical plan returned

slots == <<token_index, semantic_index, candidates>>
indexVars == <<vars, slots>>

-----------------------------------------------------------------------------
NoFileTokens == [f \in Files |-> Absent]
NoPostings   == [k \in Tokens |-> {}]

UpdatedKeepingOldTokens(file_tokens, postings) ==
    [ rev |-> revision,
      file_tokens |-> [f \in Files |->
          IF f \in Indexed
          THEN [hash |-> HashOf[inputs[f]], tokens |-> TokensOf[inputs[f]]]
          ELSE Absent],
      postings |-> [k \in Tokens |->
          {f \in postings[k] : f \in Indexed}
          \cup {f \in Indexed : k \in TokensOf[inputs[f]]}] ]

UpdatedStampedLate(file_tokens, postings) ==
    [ rev |-> revision + 1,
      file_tokens |-> [f \in Files |->
          IF f \in Indexed
          THEN [hash |-> HashOf[inputs[f]], tokens |-> TokensOf[inputs[f]]]
          ELSE Absent],
      postings |-> [k \in Tokens |->
          {f \in Indexed : k \in TokensOf[inputs[f]]}] ]

\* update_token_index: forget the files that are gone, re-tokenize the files
\* whose hash differs from the one recorded, leave the others alone.
UpdatedTokenIndex(file_tokens, postings) ==
    LET gone == {f \in Files : file_tokens[f] # Absent /\ f \notin Indexed}
        changed == {f \in Indexed :
            file_tokens[f] = Absent \/ file_tokens[f].hash # HashOf[inputs[f]]}
        contributed(f, k) ==
            file_tokens[f] # Absent /\ k \in file_tokens[f].tokens
    IN  [ rev |-> revision,
          file_tokens |-> [f \in Files |->
              IF f \in gone THEN Absent
              ELSE IF f \in changed
              THEN [hash |-> HashOf[inputs[f]], tokens |-> TokensOf[inputs[f]]]
              ELSE file_tokens[f]],
          postings |-> [k \in Tokens |->
              (postings[k] \ {f \in gone \cup changed : contributed(f, k)})
              \cup {f \in changed : k \in TokensOf[inputs[f]]}] ]

EnsuredOnce ==
    IF token_index = Absent
    THEN UpdatedTokenIndex(NoFileTokens, NoPostings) ELSE token_index

\* ensure_token_index: nothing on an equal stamp, an update otherwise; the
\* first use updates an empty index.
EnsuredTokenIndex ==
    IF token_index = Absent
    THEN UpdatedTokenIndex(NoFileTokens, NoPostings)
    ELSE IF token_index.rev # revision
    THEN UpdatedTokenIndex(token_index.file_tokens, token_index.postings)
    ELSE token_index

\* postings_substring: the files of every token the needle is a part of.
FilesWith(postings, n) == UNION {postings[k] : k \in HostsOf[n]}

\* pruned_lex_files and and_candidate_files: the files worth scanning for a
\* query that requires every one of terms.
PlanLexFiles(terms) ==
    /\ token_index' = EnsuredTokenIndex
    /\ candidates' = {f \in Files :
          \A n \in terms : f \in FilesWith(token_index'.postings, n)}
    /\ UNCHANGED <<vars, semantic_index>>

\* build_semantic_index asks the core for the symbols of every file, which
\* fills the memos on the way.
SemanticIds ==
    LET reuse == semantic_index # Absent /\ semantic_index.rev = revision IN
    /\ parse_memo' = [f \in Files |->
          IF ~reuse /\ f \in Indexed /\ ~Hit(symbols_memo, f)
          THEN Parsed(f)[f] ELSE parse_memo[f]]
    /\ symbols_memo' = [f \in Files |->
          IF ~reuse /\ f \in Indexed THEN Extracted(f)[f] ELSE symbols_memo[f]]
    /\ semantic_index' =
          IF reuse THEN semantic_index
          ELSE [rev |-> revision,
                docs |-> [f \in Indexed |-> symbols_memo'[f].value]]
    /\ UNCHANGED <<inputs, revision, parser, outline_memo, line_index_memo,
                   repo_memo, answer, token_index, candidates>>

IndexInit ==
    /\ Init
    /\ token_index = Absent
    /\ semantic_index = Absent
    /\ candidates = {}

IndexNext ==
    \/ Next /\ UNCHANGED slots
    \/ \E terms \in (SUBSET Needles) \ {{}} : PlanLexFiles(terms)
    \/ SemanticIds

IndexSpec == IndexInit /\ [][IndexNext]_indexVars

-----------------------------------------------------------------------------
(* Properties. *)

FileTokens == [hash : Hashes, tokens : SUBSET Tokens]

\* The slots hold an index or nothing, stamped with a revision of the core.
IndexTypeOK ==
    /\ TypeOK
    /\ token_index # Absent =>
          token_index \in [rev : 0..MaxRevision,
                           file_tokens : [Files -> FileTokens \cup {Absent}],
                           postings : [Tokens -> SUBSET Files]]
    /\ semantic_index # Absent => semantic_index.rev \in 0..MaxRevision
    /\ candidates \in SUBSET Files

\* An index built from nothing at this instant.
ScratchPostings ==
    [k \in Tokens |-> {f \in Indexed : k \in TokensOf[inputs[f]]}]

\* The incremental token index is identical to a build from scratch whenever
\* its stamp says it is current (the claim of update_token_index's comment).
TokenIndexFresh ==
    token_index # Absent /\ token_index.rev = revision =>
        token_index.postings = ScratchPostings

\* The same of the semantic index, which also depends on the parser in use.
SemanticIndexFresh ==
    semantic_index # Absent /\ semantic_index.rev = revision =>
        semantic_index.docs =
            [f \in Indexed |-> SymbolTable(Tree(parser, f, inputs[f]))]

\* Pruning never loses a match: a plan returns every indexed file that holds,
\* for each term, a token the term is a part of (SCRY-038), and nothing that
\* is not indexed.
FullRecall ==
    [][UNCHANGED vars =>
          \A terms \in (SUBSET Needles) \ {{}} : PlanLexFiles(terms) =>
              candidates' = {f \in Indexed :
                  \A n \in terms : TokensOf[inputs[f]] \cap HostsOf[n] # {}}
      ]_indexVars

=============================================================================
