---------------------- MODULE DerivedIndexes_proofs ----------------------
(***************************************************************************)
(* Proofs about the warm core and about the indexes derived from it, for   *)
(* every set of files, texts, tokens and parsers and every collision-free  *)
(* hash. The indexes are read through the core, so its proofs come first   *)
(* and theirs use them.                                                    *)
(***************************************************************************)
EXTENDS DerivedIndexes, TLAPS

-----------------------------------------------------------------------------
(***************************************************************************)
(* The warm core. MemoSound speaks of the memos that would be served now;  *)
(* a stale memo can become valid again when a file's old text comes back,  *)
(* so the inductive invariant also says of a stale memo what it was built  *)
(* from.                                                                   *)
(***************************************************************************)

\* Every memo holds what some text of its file derives to under the parser in
\* use, together with that text's hash.
Provenance ==
    \A f \in Files :
        /\ parse_memo[f] # Absent => \E t \in Texts :
              parse_memo[f] = Memo(HashOf[t], Tree(parser, f, t))
        /\ symbols_memo[f] # Absent => \E t \in Texts :
              symbols_memo[f] =
                  Memo(HashOf[t], SymbolTable(Tree(parser, f, t)))
        /\ outline_memo[f] # Absent => \E t \in Texts :
              outline_memo[f] =
                  Memo(HashOf[t], Outline(SymbolTable(Tree(parser, f, t))))
        /\ line_index_memo[f] # Absent => \E t \in Texts :
              line_index_memo[f] = Memo(HashOf[t], LineIndex(t))

\* The texts a repository outline was built from.
RepoEntry(texts) ==
    LET files == {f \in Files : texts[f] # Absent} IN
    [ key |-> [f \in files |-> HashOf[texts[f]]],
      value |-> [f \in files |->
                    Outline(SymbolTable(Tree(parser, f, texts[f])))] ]

RepoProvenance ==
    repo_memo # Absent =>
        \E texts \in [Files -> Texts \cup {Absent}] :
            repo_memo = RepoEntry(texts)

IInv == TypeOK /\ Provenance /\ RepoProvenance

-----------------------------------------------------------------------------
(* What a query computes: the value of a filled memo is the derivation from *)
(* the current text, whether it was a hit or not.                           *)

LEMMA ParsedValue ==
    ASSUME TypeOK, Provenance, NEW f \in Indexed
    PROVE  /\ Parsed(f) \in [Files -> Entries(Trees) \cup {Absent}]
           /\ Parsed(f)[f] = Memo(HashOf[inputs[f]], Tree(parser, f, inputs[f]))
           /\ \A g \in Files : g # f => Parsed(f)[g] = parse_memo[g]
<1>1. f \in Files /\ inputs[f] \in Texts /\ HashOf[inputs[f]] \in Hashes
  BY HashAssumption DEF TypeOK, Indexed
<1>2. Tree(parser, f, inputs[f]) \in Trees
  BY <1>1 DEF TypeOK, Tree, Trees
<1>3. Memo(HashOf[inputs[f]], Tree(parser, f, inputs[f])) \in Entries(Trees)
  BY <1>1, <1>2 DEF Memo, Entries
<1>4. CASE Hit(parse_memo, f)
  <2>1. PICK t \in Texts : parse_memo[f] = Memo(HashOf[t], Tree(parser, f, t))
    BY <1>1, <1>4 DEF Provenance, Hit
  <2>2. t = inputs[f]
    BY <1>1, <1>4, <2>1, HashAssumption DEF Hit, Memo
  <2> QED
    BY <1>4, <2>1, <2>2 DEF Parsed, Fill, TypeOK
<1>5. CASE ~Hit(parse_memo, f)
  BY <1>1, <1>3, <1>5 DEF Parsed, Fill, TypeOK
<1> QED
  BY <1>4, <1>5

LEMMA ExtractedValue ==
    ASSUME TypeOK, Provenance, NEW f \in Indexed
    PROVE  /\ Extracted(f) \in [Files -> Entries(Tables) \cup {Absent}]
           /\ Extracted(f)[f] = Memo(HashOf[inputs[f]],
                                  SymbolTable(Tree(parser, f, inputs[f])))
           /\ \A g \in Files : g # f => Extracted(f)[g] = symbols_memo[g]
<1>1. f \in Files /\ inputs[f] \in Texts /\ HashOf[inputs[f]] \in Hashes
  BY HashAssumption DEF TypeOK, Indexed
<1>2. Parsed(f)[f].value = Tree(parser, f, inputs[f])
  <2>1. Parsed(f)[f] = Memo(HashOf[inputs[f]], Tree(parser, f, inputs[f]))
    BY ParsedValue
  <2> QED
    BY <2>1 DEF Memo
<1>3. SymbolTable(Tree(parser, f, inputs[f])) \in Tables
  BY <1>1 DEF TypeOK, Tree, Trees, SymbolTable, Tables
<1>4. Memo(HashOf[inputs[f]], SymbolTable(Tree(parser, f, inputs[f])))
         \in Entries(Tables)
  BY <1>1, <1>3 DEF Memo, Entries
<1>5. CASE Hit(symbols_memo, f)
  <2>1. PICK t \in Texts : symbols_memo[f] =
                 Memo(HashOf[t], SymbolTable(Tree(parser, f, t)))
    BY <1>1, <1>5 DEF Provenance, Hit
  <2>2. t = inputs[f]
    BY <1>1, <1>5, <2>1, HashAssumption DEF Hit, Memo
  <2> QED
    BY <1>5, <2>1, <2>2 DEF Extracted, Fill, TypeOK
<1>6. CASE ~Hit(symbols_memo, f)
  BY <1>1, <1>2, <1>4, <1>6 DEF Extracted, Fill, TypeOK
<1> QED
  BY <1>5, <1>6

LEMMA OutlinedValue ==
    ASSUME TypeOK, Provenance, NEW f \in Indexed
    PROVE  /\ Outlined(f) \in [Files -> Entries(Outlines) \cup {Absent}]
           /\ Outlined(f)[f] = Memo(HashOf[inputs[f]],
                        Outline(SymbolTable(Tree(parser, f, inputs[f]))))
           /\ \A g \in Files : g # f => Outlined(f)[g] = outline_memo[g]
<1>1. f \in Files /\ inputs[f] \in Texts /\ HashOf[inputs[f]] \in Hashes
  BY HashAssumption DEF TypeOK, Indexed
<1>2. Extracted(f)[f].value = SymbolTable(Tree(parser, f, inputs[f]))
  <2>1. Extracted(f)[f] =
            Memo(HashOf[inputs[f]], SymbolTable(Tree(parser, f, inputs[f])))
    BY ExtractedValue
  <2> QED
    BY <2>1 DEF Memo
<1>3. Outline(SymbolTable(Tree(parser, f, inputs[f]))) \in Outlines
  BY <1>1 DEF TypeOK, Tree, Trees, SymbolTable, Tables, Outline, Outlines
<1>4. Memo(HashOf[inputs[f]], Outline(SymbolTable(Tree(parser, f, inputs[f]))))
         \in Entries(Outlines)
  BY <1>1, <1>3 DEF Memo, Entries
<1>5. CASE Hit(outline_memo, f)
  <2>1. PICK t \in Texts : outline_memo[f] =
                 Memo(HashOf[t], Outline(SymbolTable(Tree(parser, f, t))))
    BY <1>1, <1>5 DEF Provenance, Hit
  <2>2. t = inputs[f]
    BY <1>1, <1>5, <2>1, HashAssumption DEF Hit, Memo
  <2> QED
    BY <1>5, <2>1, <2>2 DEF Outlined, Fill, TypeOK
<1>6. CASE ~Hit(outline_memo, f)
  BY <1>1, <1>2, <1>4, <1>6 DEF Outlined, Fill, TypeOK
<1> QED
  BY <1>5, <1>6

LEMMA LinesValue ==
    ASSUME TypeOK, Provenance, NEW f \in Indexed,
           NEW m, m = Fill(line_index_memo, f, LineIndex(inputs[f]))
    PROVE  /\ m \in [Files -> Entries(Indexes) \cup {Absent}]
           /\ m[f] = Memo(HashOf[inputs[f]], LineIndex(inputs[f]))
           /\ \A g \in Files : g # f => m[g] = line_index_memo[g]
<1>1. f \in Files /\ inputs[f] \in Texts /\ HashOf[inputs[f]] \in Hashes
  BY HashAssumption DEF TypeOK, Indexed
<1>2. Memo(HashOf[inputs[f]], LineIndex(inputs[f])) \in Entries(Indexes)
  BY <1>1 DEF Memo, Entries, LineIndex, Indexes
<1>3. CASE Hit(line_index_memo, f)
  <2>1. PICK t \in Texts :
            line_index_memo[f] = Memo(HashOf[t], LineIndex(t))
    BY <1>1, <1>3 DEF Provenance, Hit
  <2>2. t = inputs[f]
    BY <1>1, <1>3, <2>1, HashAssumption DEF Hit, Memo
  <2> QED
    BY <1>3, <2>1, <2>2 DEF Fill, TypeOK
<1>4. CASE ~Hit(line_index_memo, f)
  BY <1>1, <1>2, <1>4 DEF Fill, TypeOK
<1> QED
  BY <1>3, <1>4

-----------------------------------------------------------------------------
(* Invariance. *)

LEMMA InitInvariant == Init => IInv
BY CoreAssumption DEF Init, IInv, TypeOK, Provenance, RepoProvenance

\* The memos of a file keep their provenance when the step fills some of them
\* from the current text and leaves the parser alone.
LEMMA QueryProvenance ==
    ASSUME TypeOK, Provenance, parser' = parser,
           \A f \in Files :
               /\ parse_memo'[f] = parse_memo[f] \/
                     (f \in Indexed /\ parse_memo'[f] = Parsed(f)[f])
               /\ symbols_memo'[f] = symbols_memo[f] \/
                     (f \in Indexed /\ symbols_memo'[f] = Extracted(f)[f])
               /\ outline_memo'[f] = outline_memo[f] \/
                     (f \in Indexed /\ outline_memo'[f] = Outlined(f)[f])
               /\ line_index_memo'[f] = line_index_memo[f] \/
                     (f \in Indexed /\ line_index_memo'[f] =
                        Memo(HashOf[inputs[f]], LineIndex(inputs[f])))
    PROVE  Provenance'
<1> SUFFICES ASSUME NEW f \in Files
             PROVE
        /\ parse_memo'[f] # Absent => \E t \in Texts :
              parse_memo'[f] = Memo(HashOf[t], Tree(parser, f, t))
        /\ symbols_memo'[f] # Absent => \E t \in Texts :
              symbols_memo'[f] =
                  Memo(HashOf[t], SymbolTable(Tree(parser, f, t)))
        /\ outline_memo'[f] # Absent => \E t \in Texts :
              outline_memo'[f] =
                  Memo(HashOf[t], Outline(SymbolTable(Tree(parser, f, t))))
        /\ line_index_memo'[f] # Absent => \E t \in Texts :
              line_index_memo'[f] = Memo(HashOf[t], LineIndex(t))
  BY DEF Provenance, Tree, SymbolTable, Outline, LineIndex, Memo
<1>1. f \in Indexed => inputs[f] \in Texts
  BY DEF TypeOK, Indexed
<1>2. f \in Indexed => Parsed(f)[f] =
          Memo(HashOf[inputs[f]], Tree(parser, f, inputs[f]))
  BY ParsedValue
<1>3. f \in Indexed => Extracted(f)[f] =
          Memo(HashOf[inputs[f]], SymbolTable(Tree(parser, f, inputs[f])))
  BY ExtractedValue
<1>4. f \in Indexed => Outlined(f)[f] =
          Memo(HashOf[inputs[f]],
               Outline(SymbolTable(Tree(parser, f, inputs[f]))))
  BY OutlinedValue
<1> QED
  BY <1>1, <1>2, <1>3, <1>4 DEF Provenance

\* Steps that leave repo_memo and the parser alone keep its provenance.
LEMMA RepoUnchanged ==
    ASSUME RepoProvenance, UNCHANGED <<repo_memo, parser>>
    PROVE  RepoProvenance'
BY DEF RepoProvenance, RepoEntry, Tree, SymbolTable, Outline

LEMMA WriteInvariant == IInv /\ Write => IInv'
<1>1. ASSUME IInv, NEW p \in Parsers, SetParser(p)
      PROVE  IInv'
  BY <1>1, CoreAssumption
     DEF IInv, SetParser, TypeOK, Provenance, RepoProvenance, RepoEntry
<1>2. ASSUME IInv, NEW f \in Files, NEW t \in Texts, SetText(f, t)
      PROVE  IInv'
  <2>1. TypeOK'
    BY <1>2, CoreAssumption DEF IInv, SetText, TypeOK, memos
  <2>2. Provenance'
    BY <1>2 DEF IInv, SetText, Provenance, memos
  <2>3. RepoProvenance'
    BY <1>2, RepoUnchanged DEF IInv, SetText, memos
  <2> QED
    BY <2>1, <2>2, <2>3 DEF IInv
<1>3. ASSUME IInv, NEW f \in Files, RemoveText(f)
      PROVE  IInv'
  <2>1. TypeOK'
    BY <1>3, CoreAssumption DEF IInv, RemoveText, TypeOK
  <2>2. Provenance'
    BY <1>3 DEF IInv, RemoveText, TypeOK, Provenance
  <2>3. RepoProvenance'
    BY <1>3 DEF RemoveText, RepoProvenance
  <2> QED
    BY <2>1, <2>2, <2>3 DEF IInv
<1> QED
  BY <1>1, <1>2, <1>3 DEF Write

LEMMA FileQueryInvariant ==
    ASSUME IInv, NEW f \in Files,
           Parse(f) \/ Symbols(f) \/ OutlineOf(f) \/ LineIndexOf(f)
    PROVE  IInv'
<1> USE DEF IInv
<1>1. f \in Indexed /\ UNCHANGED <<inputs, revision, parser, repo_memo>>
  BY DEF Parse, Symbols, OutlineOf, LineIndexOf
<1>2. parse_memo' = parse_memo \/ parse_memo' = Parsed(f)
  BY DEF Parse, Symbols, OutlineOf, LineIndexOf
<1>3. symbols_memo' = symbols_memo \/ symbols_memo' = Extracted(f)
  BY DEF Parse, Symbols, OutlineOf, LineIndexOf
<1>4. outline_memo' = outline_memo \/ outline_memo' = Outlined(f)
  BY DEF Parse, Symbols, OutlineOf, LineIndexOf
<1>5. \/ line_index_memo' = line_index_memo
      \/ line_index_memo' = Fill(line_index_memo, f, LineIndex(inputs[f]))
  BY DEF Parse, Symbols, OutlineOf, LineIndexOf
<1>6. /\ parse_memo' \in [Files -> Entries(Trees) \cup {Absent}]
      /\ \A g \in Files : parse_memo'[g] = parse_memo[g] \/
             (g \in Indexed /\ parse_memo'[g] = Parsed(g)[g])
  BY <1>1, <1>2, ParsedValue DEF TypeOK
<1>7. /\ symbols_memo' \in [Files -> Entries(Tables) \cup {Absent}]
      /\ \A g \in Files : symbols_memo'[g] = symbols_memo[g] \/
             (g \in Indexed /\ symbols_memo'[g] = Extracted(g)[g])
  BY <1>1, <1>3, ExtractedValue DEF TypeOK
<1>8. /\ outline_memo' \in [Files -> Entries(Outlines) \cup {Absent}]
      /\ \A g \in Files : outline_memo'[g] = outline_memo[g] \/
             (g \in Indexed /\ outline_memo'[g] = Outlined(g)[g])
  BY <1>1, <1>4, OutlinedValue DEF TypeOK
<1>9. /\ line_index_memo' \in [Files -> Entries(Indexes) \cup {Absent}]
      /\ \A g \in Files : line_index_memo'[g] = line_index_memo[g] \/
             (g \in Indexed /\ line_index_memo'[g] =
                Memo(HashOf[inputs[g]], LineIndex(inputs[g])))
  BY <1>1, <1>5, LinesValue DEF TypeOK
<1>10. TypeOK'
  BY <1>1, <1>6, <1>7, <1>8, <1>9 DEF TypeOK
<1>11. Provenance'
  BY <1>1, <1>6, <1>7, <1>8, <1>9, QueryProvenance
<1>12. RepoProvenance'
  BY <1>1, RepoUnchanged
<1> QED
  BY <1>10, <1>11, <1>12

LEMMA RepoBuildInvariant == IInv /\ RepoBuild => IInv'
<1> SUFFICES ASSUME IInv, RepoBuild
             PROVE  IInv'
  OBVIOUS
<1> USE DEF IInv
<1>1. UNCHANGED <<inputs, revision, parser, line_index_memo>>
  BY DEF RepoBuild
<1>2. \A g \in Files : parse_memo'[g] = parse_memo[g] \/
             (g \in Indexed /\ parse_memo'[g] = Parsed(g)[g])
  BY DEF RepoBuild
<1>3. \A g \in Files : symbols_memo'[g] = symbols_memo[g] \/
             (g \in Indexed /\ symbols_memo'[g] = Extracted(g)[g])
  BY DEF RepoBuild
<1>4. \A g \in Files : outline_memo'[g] = outline_memo[g] \/
             (g \in Indexed /\ outline_memo'[g] = Outlined(g)[g])
  BY DEF RepoBuild
<1>5. TypeOK'
  <2>1. parse_memo' \in [Files -> Entries(Trees) \cup {Absent}]
    <3>1. \A g \in Indexed : Parsed(g)[g] \in Entries(Trees) \cup {Absent}
      BY ParsedValue DEF Indexed
    <3> QED
      BY <3>1 DEF RepoBuild, TypeOK
  <2>2. symbols_memo' \in [Files -> Entries(Tables) \cup {Absent}]
    <3>1. \A g \in Indexed : Extracted(g)[g] \in Entries(Tables) \cup {Absent}
      BY ExtractedValue DEF Indexed
    <3> QED
      BY <3>1 DEF RepoBuild, TypeOK
  <2>3. outline_memo' \in [Files -> Entries(Outlines) \cup {Absent}]
    <3>1. \A g \in Indexed : Outlined(g)[g] \in Entries(Outlines) \cup {Absent}
      BY OutlinedValue DEF Indexed
    <3> QED
      BY <3>1 DEF RepoBuild, TypeOK
  <2> QED
    BY <1>1, <2>1, <2>2, <2>3 DEF TypeOK
<1>6. Provenance'
  BY <1>1, <1>2, <1>3, <1>4, QueryProvenance
<1>7. RepoProvenance'
  <2>1. \A g \in Indexed : outline_memo'[g].value =
            Outline(SymbolTable(Tree(parser, g, inputs[g])))
    <3> SUFFICES ASSUME NEW g \in Indexed
                 PROVE  outline_memo'[g].value =
                            Outline(SymbolTable(Tree(parser, g, inputs[g])))
      OBVIOUS
    <3>1. Outlined(g)[g] = Memo(HashOf[inputs[g]],
                        Outline(SymbolTable(Tree(parser, g, inputs[g]))))
      BY OutlinedValue
    <3>2. outline_memo'[g] = Outlined(g)[g]
      BY DEF RepoBuild, Indexed
    <3> QED
      BY <3>1, <3>2 DEF Memo
  <2>2. repo_memo' = [key |-> RepoKey,
                      value |-> [g \in Indexed |-> outline_memo'[g].value]]
    BY DEF RepoBuild
  <2>3. repo_memo' = RepoEntry(inputs)
    BY <2>1, <2>2 DEF RepoEntry, RepoKey, Indexed
  <2>4. RepoEntry(inputs)' = RepoEntry(inputs)
    BY <1>1 DEF RepoEntry, Tree, SymbolTable, Outline
  <2> QED
    BY <1>1, <2>3, <2>4 DEF RepoProvenance, RepoEntry, TypeOK,
       Tree, SymbolTable, Outline
<1> QED
  BY <1>5, <1>6, <1>7

LEMMA NextInvariant == IInv /\ [Next]_vars => IInv'
<1> SUFFICES ASSUME IInv, [Next]_vars
             PROVE  IInv'
  OBVIOUS
<1>1. CASE Write
  BY <1>1, WriteInvariant
<1>2. CASE \E f \in Files :
             Parse(f) \/ Symbols(f) \/ OutlineOf(f) \/ LineIndexOf(f)
  BY <1>2, FileQueryInvariant
<1>3. CASE RepoBuild
  BY <1>3, RepoBuildInvariant
<1>4. CASE UNCHANGED <<inputs, revision, parser, memos>>
  <2>1. TypeOK'
    BY <1>4 DEF IInv, TypeOK, memos
  <2>2. Provenance'
    BY <1>4 DEF IInv, Provenance, memos
  <2>3. RepoProvenance'
    BY <1>4, RepoUnchanged DEF IInv, memos
  <2> QED
    BY <2>1, <2>2, <2>3 DEF IInv
<1> QED
  BY <1>1, <1>2, <1>3, <1>4 DEF Next, Query, RepoHit, QueryAbsent, vars

\* The core's state is well typed in every behaviour.
THEOREM TypeCorrect == Spec => []TypeOK
<1>1. IInv => TypeOK
  BY DEF IInv
<1> QED
  BY <1>1, InitInvariant, NextInvariant, PTL DEF Spec

-----------------------------------------------------------------------------
(* What the invariant gives: no wrong answer. *)

\* A repository outline served again was built from the present texts.
LEMMA RepoValue ==
    ASSUME IInv, repo_memo # Absent, repo_memo.key = RepoKey
    PROVE  repo_memo.value = [f \in Indexed |->
               Outline(SymbolTable(Tree(parser, f, inputs[f])))]
<1>1. PICK texts \in [Files -> Texts \cup {Absent}] :
          repo_memo = RepoEntry(texts)
  BY DEF IInv, RepoProvenance
<1> DEFINE files == {f \in Files : texts[f] # Absent}
<1>2. /\ repo_memo.key = [f \in files |-> HashOf[texts[f]]]
      /\ repo_memo.value = [f \in files |->
              Outline(SymbolTable(Tree(parser, f, texts[f])))]
  BY <1>1 DEF RepoEntry
<1>3. files = Indexed
  <2>1. DOMAIN repo_memo.key = files
    BY <1>2
  <2>2. DOMAIN RepoKey = Indexed
    BY DEF RepoKey
  <2> QED
    BY <2>1, <2>2
<1>4. \A f \in Indexed : texts[f] = inputs[f]
  <2> SUFFICES ASSUME NEW f \in Indexed
               PROVE  texts[f] = inputs[f]
    OBVIOUS
  <2>1. texts[f] \in Texts /\ inputs[f] \in Texts
    BY <1>3 DEF Indexed, IInv, TypeOK
  <2>2. HashOf[texts[f]] = repo_memo.key[f]
    BY <1>2, <1>3
  <2>3. HashOf[inputs[f]] = RepoKey[f]
    BY DEF RepoKey
  <2> QED
    BY <2>1, <2>2, <2>3, HashAssumption
<1> QED
  BY <1>2, <1>3, <1>4

LEMMA InvariantImpliesSound == IInv => MemoSound
<1> SUFFICES ASSUME IInv
             PROVE  MemoSound
  OBVIOUS
<1> USE DEF IInv
<1>1. ASSUME NEW f \in Indexed
      PROVE  LET tree == Tree(parser, f, inputs[f]) IN
        /\ Hit(parse_memo, f) => parse_memo[f].value = tree
        /\ Hit(symbols_memo, f) => symbols_memo[f].value = SymbolTable(tree)
        /\ Hit(outline_memo, f) =>
               outline_memo[f].value = Outline(SymbolTable(tree))
        /\ Hit(line_index_memo, f) =>
               line_index_memo[f].value = LineIndex(inputs[f])
  <2>1. Hit(parse_memo, f) =>
           parse_memo[f].value = Tree(parser, f, inputs[f])
    <3>1. Hit(parse_memo, f) => Parsed(f)[f] = parse_memo[f]
      BY DEF Parsed, Fill
    <3>2. Parsed(f)[f] = Memo(HashOf[inputs[f]], Tree(parser, f, inputs[f]))
      BY ParsedValue
    <3> QED
      BY <3>1, <3>2 DEF Memo
  <2>2. Hit(symbols_memo, f) =>
           symbols_memo[f].value = SymbolTable(Tree(parser, f, inputs[f]))
    <3>1. Hit(symbols_memo, f) => Extracted(f)[f] = symbols_memo[f]
      BY DEF Extracted, Fill
    <3>2. Extracted(f)[f] = Memo(HashOf[inputs[f]],
                                 SymbolTable(Tree(parser, f, inputs[f])))
      BY ExtractedValue
    <3> QED
      BY <3>1, <3>2 DEF Memo
  <2>3. Hit(outline_memo, f) => outline_memo[f].value =
           Outline(SymbolTable(Tree(parser, f, inputs[f])))
    <3>1. Hit(outline_memo, f) => Outlined(f)[f] = outline_memo[f]
      BY DEF Outlined, Fill
    <3>2. Outlined(f)[f] = Memo(HashOf[inputs[f]],
                        Outline(SymbolTable(Tree(parser, f, inputs[f]))))
      BY OutlinedValue
    <3> QED
      BY <3>1, <3>2 DEF Memo
  <2>4. Hit(line_index_memo, f) =>
           line_index_memo[f].value = LineIndex(inputs[f])
    <3>1. Fill(line_index_memo, f, LineIndex(inputs[f]))[f] =
             Memo(HashOf[inputs[f]], LineIndex(inputs[f]))
      BY LinesValue
    <3> QED
      BY <3>1 DEF Fill, Memo
  <2> QED
    BY <2>1, <2>2, <2>3, <2>4
<1> QED
  BY <1>1, RepoValue DEF MemoSound

\* Whatever sequence of writes, removals, parser swaps and queries came
\* before, a memo that would be served equals a computation from scratch.
THEOREM MemosAreSound == Spec => []MemoSound
BY InitInvariant, NextInvariant, InvariantImpliesSound, PTL DEF Spec

-----------------------------------------------------------------------------
(* The refinement. *)

LEMMA QueryAnswers ==
    ASSUME IInv, Query
    PROVE  Fresh!Ask
<1> USE DEF IInv
<1>1. ASSUME NEW f \in Files, Parse(f)
      PROVE  Fresh!Ask
  <2>1. f \in Indexed /\ answer' = Parsed(f)[f].value
    BY <1>1 DEF Parse
  <2>2. Parsed(f)[f] = Memo(HashOf[inputs[f]], Tree(parser, f, inputs[f]))
    BY <2>1, ParsedValue
  <2>3. answer' = Fresh!TreeOf(f)
    BY <2>1, <2>2 DEF Memo, Tree, Fresh!TreeOf, Fresh!Tree
  <2> QED
    BY <1>1, <2>1, <2>3 DEF Parse, Fresh!Ask, Indexed, Fresh!Indexed
<1>2. ASSUME NEW f \in Files, Symbols(f)
      PROVE  Fresh!Ask
  <2>1. f \in Indexed /\ answer' = Extracted(f)[f].value
    BY <1>2 DEF Symbols
  <2>2. Extracted(f)[f] = Memo(HashOf[inputs[f]],
                               SymbolTable(Tree(parser, f, inputs[f])))
    BY <2>1, ExtractedValue
  <2>3. answer' = Fresh!SymbolsOf(f)
    BY <2>1, <2>2 DEF Memo, Tree, SymbolTable, Fresh!SymbolsOf,
       Fresh!TreeOf, Fresh!Tree
  <2> QED
    BY <1>2, <2>1, <2>3 DEF Symbols, Fresh!Ask, Indexed, Fresh!Indexed
<1>3. ASSUME NEW f \in Files, OutlineOf(f)
      PROVE  Fresh!Ask
  <2>1. f \in Indexed /\ answer' = Outlined(f)[f].value
    BY <1>3 DEF OutlineOf
  <2>2. Outlined(f)[f] = Memo(HashOf[inputs[f]],
                     Outline(SymbolTable(Tree(parser, f, inputs[f]))))
    BY <2>1, OutlinedValue
  <2>3. answer' = Fresh!OutlineFor(f)
    BY <2>1, <2>2 DEF Memo, Tree, SymbolTable, Outline, Fresh!OutlineFor,
       Fresh!SymbolsOf, Fresh!TreeOf, Fresh!Tree
  <2> QED
    BY <1>3, <2>1, <2>3 DEF OutlineOf, Fresh!Ask, Indexed, Fresh!Indexed
<1>4. ASSUME NEW f \in Files, LineIndexOf(f)
      PROVE  Fresh!Ask
  <2>1. /\ f \in Indexed
        /\ answer' = Fill(line_index_memo, f, LineIndex(inputs[f]))[f].value
    BY <1>4 DEF LineIndexOf
  <2>2. Fill(line_index_memo, f, LineIndex(inputs[f]))[f] =
           Memo(HashOf[inputs[f]], LineIndex(inputs[f]))
    BY <2>1, LinesValue
  <2>3. answer' = Fresh!LinesOf(f)
    BY <2>1, <2>2 DEF Memo, LineIndex, Fresh!LinesOf
  <2> QED
    BY <1>4, <2>1, <2>3 DEF LineIndexOf, Fresh!Ask, Indexed, Fresh!Indexed
<1>5. ASSUME NEW f \in Files, QueryAbsent(f)
      PROVE  Fresh!Ask
  BY <1>5 DEF QueryAbsent, DefaultReply, Fresh!Ask, Indexed, Fresh!Indexed
<1>6. ASSUME RepoHit
      PROVE  Fresh!Ask
  <2>1. answer' = RepoReply([f \in Indexed |->
                      Outline(SymbolTable(Tree(parser, f, inputs[f])))])
    BY <1>6, RepoValue DEF RepoHit
  <2> QED
    BY <1>6, <2>1 DEF RepoHit, RepoReply, Tree, SymbolTable, Outline,
       Fresh!Ask, Indexed, Fresh!Indexed, Fresh!OutlineFor, Fresh!SymbolsOf,
       Fresh!TreeOf, Fresh!Tree
<1>7. ASSUME RepoBuild
      PROVE  Fresh!Ask
  <2>1. \A g \in Indexed : outline_memo'[g].value =
            Outline(SymbolTable(Tree(parser, g, inputs[g])))
    <3> SUFFICES ASSUME NEW g \in Indexed
                 PROVE  outline_memo'[g].value =
                            Outline(SymbolTable(Tree(parser, g, inputs[g])))
      OBVIOUS
    <3>1. Outlined(g)[g] = Memo(HashOf[inputs[g]],
                        Outline(SymbolTable(Tree(parser, g, inputs[g]))))
      BY OutlinedValue
    <3>2. outline_memo'[g] = Outlined(g)[g]
      BY <1>7 DEF RepoBuild, Indexed
    <3> QED
      BY <3>1, <3>2 DEF Memo
  <2>2. answer' = RepoReply([g \in Indexed |-> outline_memo'[g].value])
    BY <1>7 DEF RepoBuild
  <2>3. answer' = RepoReply([f \in Indexed |->
                      Outline(SymbolTable(Tree(parser, f, inputs[f])))])
    BY <2>1, <2>2
  <2> QED
    BY <1>7, <2>3 DEF RepoBuild, RepoReply, Tree, SymbolTable, Outline,
       Fresh!Ask, Indexed, Fresh!Indexed, Fresh!OutlineFor, Fresh!SymbolsOf,
       Fresh!TreeOf, Fresh!Tree
<1> QED
  BY <1>1, <1>2, <1>3, <1>4, <1>5, <1>6, <1>7 DEF Query

LEMMA WriteRefines ==
    ASSUME Write
    PROVE  Fresh!Write
BY DEF Write, SetParser, SetText, RemoveText, Fresh!Write

\* The memoized core implements the core that recomputes every answer: no
\* reader can tell the difference, for every set of files and texts.
THEOREM ImplementsFreshCore == Spec => FreshSpec
<1>1. Init => Fresh!Init
  BY DEF Init, Fresh!Init, DefaultReply
<1>2. IInv /\ [Next]_vars => [Fresh!Write \/ Fresh!Ask]_Fresh!vars
  BY QueryAnswers, WriteRefines DEF Next, vars, Fresh!vars
<1> QED
  BY <1>1, <1>2, InitInvariant, NextInvariant, PTL
     DEF Spec, FreshSpec, Fresh!Spec

-----------------------------------------------------------------------------
(* A valid memo stays.                                                        *)

\* A query fills what it misses and leaves every valid memo as it is.
LEMMA FillKeeps ==
    ASSUME NEW X, NEW m \in [Files -> X], NEW f \in Files, Hit(m, f), NEW g, NEW v
    PROVE  Fill(m, g, v)[f] = m[f]
BY DEF Fill

KeptMemos(f) ==
    /\ Hit(parse_memo, f) => parse_memo'[f] = parse_memo[f]
    /\ Hit(symbols_memo, f) => symbols_memo'[f] = symbols_memo[f]
    /\ Hit(outline_memo, f) => outline_memo'[f] = outline_memo[f]
    /\ Hit(line_index_memo, f) => line_index_memo'[f] = line_index_memo[f]

LEMMA QueriesKeepMemos ==
    ASSUME TypeOK, NEW f \in Files, NEW g
    PROVE  /\ Hit(parse_memo, f) => Parsed(g)[f] = parse_memo[f]
           /\ Hit(symbols_memo, f) => Extracted(g)[f] = symbols_memo[f]
           /\ Hit(outline_memo, f) => Outlined(g)[f] = outline_memo[f]
           /\ Hit(line_index_memo, f) =>
                  Fill(line_index_memo, g, LineIndex(inputs[g]))[f] = line_index_memo[f]
<1>1. Hit(parse_memo, f) => Parsed(g)[f] = parse_memo[f]
  BY FillKeeps DEF TypeOK, Parsed
<1>2. Hit(symbols_memo, f) => Extracted(g)[f] = symbols_memo[f]
  BY FillKeeps DEF TypeOK, Extracted
<1>3. Hit(outline_memo, f) => Outlined(g)[f] = outline_memo[f]
  BY FillKeeps DEF TypeOK, Outlined
<1>4. Hit(line_index_memo, f) =>
          Fill(line_index_memo, g, LineIndex(inputs[g]))[f] = line_index_memo[f]
  BY FillKeeps DEF TypeOK
<1> QED
  BY <1>1, <1>2, <1>3, <1>4

LEMMA NextKeepsMemos ==
    ASSUME TypeOK, [Next]_vars, ~(\E p \in Parsers : SetParser(p)),
           NEW f \in Indexed, inputs'[f] = inputs[f]
    PROVE  KeptMemos(f)
<1> f \in Files
  BY DEF Indexed
<1> USE QueriesKeepMemos
<1>1. CASE UNCHANGED vars
  BY <1>1 DEF vars, memos, KeptMemos
<1>2. ASSUME NEW g \in Files, NEW t \in Texts, SetText(g, t)
      PROVE  KeptMemos(f)
  BY <1>2 DEF SetText, memos, KeptMemos
<1>3. ASSUME NEW g \in Files, RemoveText(g)
      PROVE  KeptMemos(f)
  <2>1. g # f
    BY <1>3 DEF RemoveText, Indexed, TypeOK
  <2> QED
    BY <1>3, <2>1 DEF RemoveText, KeptMemos, TypeOK
<1>4. ASSUME NEW g \in Files, Parse(g)
      PROVE  KeptMemos(f)
  BY <1>4 DEF Parse, KeptMemos
<1>5. ASSUME NEW g \in Files, Symbols(g)
      PROVE  KeptMemos(f)
  BY <1>5 DEF Symbols, KeptMemos
<1>6. ASSUME NEW g \in Files, OutlineOf(g)
      PROVE  KeptMemos(f)
  BY <1>6 DEF OutlineOf, KeptMemos
<1>7. ASSUME NEW g \in Files, LineIndexOf(g)
      PROVE  KeptMemos(f)
  BY <1>7 DEF LineIndexOf, KeptMemos
<1>8. ASSUME NEW g \in Files, QueryAbsent(g)
      PROVE  KeptMemos(f)
  BY <1>8 DEF QueryAbsent, memos, KeptMemos
<1>9. CASE RepoHit
  BY <1>9 DEF RepoHit, memos, KeptMemos
<1>10. CASE RepoBuild
  BY <1>10 DEF RepoBuild, KeptMemos
<1> QED
  BY <1>1, <1>2, <1>3, <1>4, <1>5, <1>6, <1>7, <1>8, <1>9, <1>10 DEF Next, Write, Query

\* Invalidation is minimal (KeepsValidMemos): a query, and a change of another
\* file, leave the valid memos of a file as they are.
THEOREM ValidMemosAreKept == Spec => KeepsValidMemos
<1>1. ASSUME TypeOK, [Next]_vars
      PROVE  ~(\E p \in Parsers : SetParser(p)) =>
                 \A f \in Indexed : inputs'[f] = inputs[f] => KeptMemos(f)
  BY <1>1, NextKeepsMemos
<1> QED
  BY <1>1, TypeCorrect, PTL DEF Spec, KeepsValidMemos, KeptMemos

-----------------------------------------------------------------------------
(***************************************************************************)
(* The indexes. A slot that is not current was built from texts that are   *)
(* gone, and the next update compares hashes against them. The inductive   *)
(* invariant says that there are such texts, and that they are the present *)
(* ones if the stamp is the core's revision.                               *)
(***************************************************************************)

AllTexts == [Files -> Texts \cup {Absent}]

HeldIn(texts) == {f \in Files : texts[f] # Absent}

\* The token index built from nothing over texts.
TokensPerFile(texts) ==
    [f \in Files |->
        IF f \in HeldIn(texts)
        THEN [hash |-> HashOf[texts[f]], tokens |-> TokensOf[texts[f]]]
        ELSE Absent]

PostingsOver(texts) ==
    [k \in Tokens |-> {f \in HeldIn(texts) : k \in TokensOf[texts[f]]}]

BuiltFrom(index, texts) ==
    /\ index = [rev |-> index.rev,
                file_tokens |-> TokensPerFile(texts),
                postings |-> PostingsOver(texts)]

TokenInv ==
    token_index # Absent =>
        /\ token_index.rev \in 0..revision
        /\ \E texts \in AllTexts :
              /\ BuiltFrom(token_index, texts)
              /\ token_index.rev = revision => texts = inputs

PresentSymbols == [f \in Indexed |-> SymbolTable(Tree(parser, f, inputs[f]))]

SemanticInv ==
    semantic_index # Absent =>
        /\ semantic_index.rev \in 0..revision
        /\ semantic_index.rev = revision => semantic_index.docs = PresentSymbols

IndexIInv ==
    /\ IInv
    /\ TokenInv
    /\ SemanticInv
    /\ candidates \in SUBSET Files

-----------------------------------------------------------------------------
(* The incremental update gives what a build from nothing would. *)

\* A file's recorded hash says which text it was taken from.
LEMMA UpdateIsRebuild ==
    ASSUME TypeOK, NEW texts \in AllTexts
    PROVE  UpdatedTokenIndex(TokensPerFile(texts), PostingsOver(texts)) =
              [rev |-> revision,
               file_tokens |-> TokensPerFile(inputs),
               postings |-> PostingsOver(inputs)]
<1> DEFINE old == TokensPerFile(texts)
           posted == PostingsOver(texts)
           gone == {f \in Files : old[f] # Absent /\ f \notin Indexed}
           changed == {f \in Indexed :
                          old[f] = Absent \/ old[f].hash # HashOf[inputs[f]]}
           contributed(f, k) == old[f] # Absent /\ k \in old[f].tokens
<1>1. ASSUME NEW f \in Files, texts[f] # Absent
      PROVE  /\ old[f] = [hash |-> HashOf[texts[f]], tokens |-> TokensOf[texts[f]]]
             /\ old[f].hash = HashOf[texts[f]]
             /\ old[f].tokens = TokensOf[texts[f]]
             /\ old[f] # Absent
  <2>1. texts[f] \in Texts
    BY <1>1 DEF AllTexts
  <2>2. [hash |-> HashOf[texts[f]], tokens |-> TokensOf[texts[f]]]
            \in [hash : Hashes, tokens : SUBSET Tokens]
    BY <2>1, HashAssumption, TokenAssumption
  <2>3. old[f] = [hash |-> HashOf[texts[f]], tokens |-> TokensOf[texts[f]]]
    BY <1>1 DEF TokensPerFile, HeldIn
  <2> HIDE DEF old
  <2> QED
    BY <2>2, <2>3, TokenAssumption
<1>2. ASSUME NEW f \in Files, texts[f] = Absent
      PROVE  old[f] = Absent
  BY <1>2 DEF TokensPerFile, HeldIn
<1>3. \A f \in Files : f \in gone <=> texts[f] # Absent /\ inputs[f] = Absent
  BY <1>1, <1>2 DEF Indexed
<1>4. \A f \in Files : f \in changed <=> inputs[f] # Absent /\ texts[f] # inputs[f]
  <2> SUFFICES ASSUME NEW f \in Files
               PROVE  f \in changed <=> inputs[f] # Absent /\ texts[f] # inputs[f]
    OBVIOUS
  <2>1. CASE texts[f] = Absent
    BY <2>1, <1>2 DEF Indexed
  <2>2. CASE texts[f] # Absent
    <3>1. old[f].hash = HashOf[texts[f]] /\ old[f] # Absent
      BY <1>1, <2>2
    <3>2. texts[f] \in Texts /\ (inputs[f] # Absent => inputs[f] \in Texts)
      BY <2>2 DEF AllTexts, TypeOK
    <3> QED
      BY <3>1, <3>2, HashAssumption DEF Indexed
  <2> QED
    BY <2>1, <2>2
<1>5. \A f \in Files : \A k \in Tokens :
          contributed(f, k) <=> texts[f] # Absent /\ k \in TokensOf[texts[f]]
  <2> SUFFICES ASSUME NEW f \in Files, NEW k \in Tokens
               PROVE  contributed(f, k) <=> texts[f] # Absent /\ k \in TokensOf[texts[f]]
    OBVIOUS
  <2>1. CASE texts[f] = Absent
    BY <2>1, <1>2
  <2>2. CASE texts[f] # Absent
    <3>1. old[f].tokens = TokensOf[texts[f]] /\ old[f] # Absent
      BY <1>1, <2>2
    <3> QED
      BY <3>1, <2>2
  <2> QED
    BY <2>1, <2>2
<1>6. TokensPerFile(inputs) =
          [f \in Files |->
              IF f \in gone THEN Absent
              ELSE IF f \in changed
              THEN [hash |-> HashOf[inputs[f]], tokens |-> TokensOf[inputs[f]]]
              ELSE old[f]]
  <2> SUFFICES ASSUME NEW f \in Files
               PROVE  (IF inputs[f] # Absent
                       THEN [hash |-> HashOf[inputs[f]], tokens |-> TokensOf[inputs[f]]]
                       ELSE Absent)
                    = IF f \in gone THEN Absent
                      ELSE IF f \in changed
                      THEN [hash |-> HashOf[inputs[f]], tokens |-> TokensOf[inputs[f]]]
                      ELSE old[f]
    BY DEF TokensPerFile, HeldIn
  <2>1. CASE texts[f] = inputs[f]
    BY <2>1, <1>1, <1>2, <1>3, <1>4
  <2>2. CASE texts[f] # inputs[f]
    BY <2>2, <1>2, <1>3, <1>4
  <2> QED
    BY <2>1, <2>2
<1>7. PostingsOver(inputs) =
          [k \in Tokens |->
              (posted[k] \ {f \in gone \cup changed : contributed(f, k)})
              \cup {f \in changed : k \in TokensOf[inputs[f]]}]
  <2> SUFFICES ASSUME NEW k \in Tokens
               PROVE  {f \in HeldIn(inputs) : k \in TokensOf[inputs[f]]}
                    = (posted[k] \ {f \in gone \cup changed : contributed(f, k)})
                      \cup {f \in changed : k \in TokensOf[inputs[f]]}
    BY DEF PostingsOver
  <2>1. \A f : f \in posted[k] <=>
            f \in Files /\ texts[f] # Absent /\ k \in TokensOf[texts[f]]
    BY DEF PostingsOver, HeldIn
  <2>2. gone \subseteq Files /\ changed \subseteq Files
    BY DEF Indexed
  <2>3. ASSUME NEW f \in Files
        PROVE  f \in HeldIn(inputs) /\ k \in TokensOf[inputs[f]]
           <=> \/ f \in posted[k] /\ ~(f \in gone \cup changed /\ contributed(f, k))
               \/ f \in changed /\ k \in TokensOf[inputs[f]]
    BY <1>3, <1>4, <1>5, <2>1 DEF HeldIn
  <2> QED
    BY <2>1, <2>2, <2>3 DEF HeldIn
<1> QED
  BY <1>6, <1>7 DEF UpdatedTokenIndex

\* The first use updates an empty index.
LEMMA EmptyIsBuilt ==
    LET nothing == [f \in Files |-> Absent]
    IN  /\ nothing \in AllTexts
        /\ NoFileTokens = TokensPerFile(nothing)
        /\ NoPostings = PostingsOver(nothing)
BY DEF AllTexts, NoFileTokens, NoPostings, TokensPerFile, PostingsOver, HeldIn

\* Whatever the slot held, what the next query uses is built from the present.
LEMMA EnsuredIsCurrent ==
    ASSUME TypeOK, TokenInv
    PROVE  EnsuredTokenIndex = [rev |-> revision,
                                file_tokens |-> TokensPerFile(inputs),
                                postings |-> PostingsOver(inputs)]
<1>1. CASE token_index = Absent
  BY <1>1, EmptyIsBuilt, UpdateIsRebuild DEF EnsuredTokenIndex
<1>2. CASE token_index # Absent
  <2>1. PICK texts \in AllTexts : /\ BuiltFrom(token_index, texts)
                                  /\ token_index.rev = revision => texts = inputs
    BY <1>2 DEF TokenInv
  <2>2. token_index.file_tokens = TokensPerFile(texts) /\ token_index.postings = PostingsOver(texts)
    BY <2>1 DEF BuiltFrom
  <2>3. CASE token_index.rev = revision
    BY <1>2, <2>1, <2>3 DEF EnsuredTokenIndex, BuiltFrom
  <2>4. CASE token_index.rev # revision
    BY <1>2, <2>2, <2>4, UpdateIsRebuild DEF EnsuredTokenIndex
  <2> QED
    BY <2>3, <2>4
<1> QED
  BY <1>1, <1>2

-----------------------------------------------------------------------------
(* The invariant. *)

LEMMA IndexInitInvariant == IndexInit => IndexIInv
BY InitInvariant DEF IndexInit, IndexIInv, TokenInv, SemanticInv

\* A write raises the revision, so that no stamp is current after it; a query
\* of the core leaves everything the slots depend on alone.
LEMMA CoreStepKeepsSlots ==
    ASSUME IndexIInv, [Next]_vars, UNCHANGED slots
    PROVE  IndexIInv'
<1>1. TypeOK /\ revision \in Nat
  BY CoreAssumption DEF IndexIInv, IInv, TypeOK
<1>2. IInv'
  BY NextInvariant DEF IndexIInv
<1>3. \/ revision' = revision + 1
      \/ UNCHANGED <<inputs, revision, parser>>
  BY DEF Next, vars, Write, SetParser, SetText, RemoveText, Query, Parse, Symbols, OutlineOf,
         LineIndexOf, QueryAbsent, RepoHit, RepoBuild
<1>4. TokenInv'
  <2> SUFFICES ASSUME token_index # Absent
               PROVE  /\ token_index.rev \in 0..revision'
                      /\ \E texts \in AllTexts :
                            /\ BuiltFrom(token_index, texts)
                            /\ token_index.rev = revision' => texts = inputs'
    BY DEF slots, TokenInv, AllTexts, BuiltFrom, TokensPerFile, PostingsOver, HeldIn
  <2>1. PICK texts \in AllTexts : /\ BuiltFrom(token_index, texts)
                                  /\ token_index.rev = revision => texts = inputs
    BY DEF IndexIInv, TokenInv
  <2>2. token_index.rev \in 0..revision
    BY DEF IndexIInv, TokenInv
  <2> QED
    BY <1>1, <1>3, <2>1, <2>2
<1>5. SemanticInv'
  <2> SUFFICES ASSUME semantic_index # Absent
               PROVE  /\ semantic_index.rev \in 0..revision'
                      /\ semantic_index.rev = revision' => semantic_index.docs = PresentSymbols'
    BY DEF slots, SemanticInv
  <2>1. UNCHANGED <<inputs, parser>> => PresentSymbols' = PresentSymbols
    BY DEF PresentSymbols, Indexed, SymbolTable, Tree
  <2> QED
    BY <1>1, <1>3, <2>1 DEF IndexIInv, SemanticInv
<1> QED
  BY <1>2, <1>4, <1>5 DEF IndexIInv, slots

LEMMA PlanInvariant ==
    ASSUME IndexIInv, NEW terms \in SUBSET Needles, PlanLexFiles(terms)
    PROVE  IndexIInv'
<1>1. TypeOK /\ revision \in Nat
  BY CoreAssumption DEF IndexIInv, IInv, TypeOK
<1>2. UNCHANGED <<vars, semantic_index>> /\ UNCHANGED <<inputs, revision, parser, memos>>
  BY DEF PlanLexFiles, vars
<1>3. IInv'
  BY <1>2, NextInvariant DEF IndexIInv
<1>4. token_index' = [rev |-> revision,
                      file_tokens |-> TokensPerFile(inputs),
                      postings |-> PostingsOver(inputs)]
  BY <1>1, EnsuredIsCurrent DEF PlanLexFiles, IndexIInv
<1>5. TokenInv'
  <2>1. inputs \in AllTexts
    BY <1>1 DEF TypeOK, AllTexts
  <2>2. BuiltFrom(token_index', inputs)
    BY <1>4 DEF BuiltFrom
  <2>3. token_index'.rev = revision
    BY <1>4
  <2> DEFINE from(index, texts, now, at) ==
                 BuiltFrom(index, texts) /\ (index.rev = at => texts = now)
  <2>4. \E texts \in AllTexts : from(token_index', texts, inputs, revision)
    BY <2>1, <2>2
  <2>5. token_index'.rev \in 0..revision'
    BY <1>1, <1>2, <2>3
  <2> QED
    BY <1>2, <2>4, <2>5 DEF TokenInv, AllTexts, BuiltFrom, TokensPerFile, PostingsOver, HeldIn
<1>6. SemanticInv'
  BY <1>2 DEF IndexIInv, SemanticInv, PresentSymbols, Indexed, SymbolTable, Tree
<1>7. candidates' \in SUBSET Files
  BY DEF PlanLexFiles
<1> QED
  BY <1>3, <1>5, <1>6, <1>7 DEF IndexIInv

LEMMA SemanticInvariant ==
    ASSUME IndexIInv, SemanticIds
    PROVE  IndexIInv'
<1> DEFINE reuse == semantic_index # Absent /\ semantic_index.rev = revision
<1>1. TypeOK /\ Provenance /\ RepoProvenance /\ revision \in Nat
  BY CoreAssumption DEF IndexIInv, IInv, TypeOK
<1>2. UNCHANGED <<inputs, revision, parser, outline_memo, line_index_memo, repo_memo,
                  answer, token_index, candidates>>
  BY DEF SemanticIds
<1>3. /\ parse_memo' \in [Files -> Entries(Trees) \cup {Absent}]
      /\ \A g \in Files : parse_memo'[g] = parse_memo[g] \/
             (g \in Indexed /\ parse_memo'[g] = Parsed(g)[g])
  <2>1. \A g \in Indexed : Parsed(g)[g] \in Entries(Trees) \cup {Absent}
    BY <1>1, ParsedValue DEF Indexed
  <2> QED
    BY <1>1, <2>1 DEF SemanticIds, TypeOK
<1>4. /\ symbols_memo' \in [Files -> Entries(Tables) \cup {Absent}]
      /\ \A g \in Files : symbols_memo'[g] = symbols_memo[g] \/
             (g \in Indexed /\ symbols_memo'[g] = Extracted(g)[g])
      /\ \A g \in Indexed : ~reuse => symbols_memo'[g] = Extracted(g)[g]
  <2>1. \A g \in Indexed : Extracted(g)[g] \in Entries(Tables) \cup {Absent}
    BY <1>1, ExtractedValue DEF Indexed
  <2> QED
    BY <1>1, <2>1 DEF SemanticIds, TypeOK, Indexed
<1>5. IInv'
  <2>1. TypeOK'
    BY <1>1, <1>2, <1>3, <1>4 DEF TypeOK
  <2>2. Provenance'
    BY <1>1, <1>2, <1>3, <1>4, QueryProvenance
  <2>3. RepoProvenance'
    BY <1>1, <1>2, RepoUnchanged
  <2> QED
    BY <2>1, <2>2, <2>3 DEF IInv
<1>6. TokenInv'
  BY <1>2 DEF IndexIInv, TokenInv, AllTexts, BuiltFrom, TokensPerFile, PostingsOver, HeldIn
<1>7. SemanticInv'
  <2>1. PresentSymbols' = PresentSymbols
    BY <1>2 DEF PresentSymbols, Indexed, SymbolTable, Tree
  <2>2. CASE reuse
    BY <1>2, <2>1, <2>2 DEF SemanticIds, IndexIInv, SemanticInv
  <2>3. CASE ~reuse
    <3>1. \A g \in Indexed : symbols_memo'[g].value = SymbolTable(Tree(parser, g, inputs[g]))
      <4> SUFFICES ASSUME NEW g \in Indexed
                   PROVE  symbols_memo'[g].value = SymbolTable(Tree(parser, g, inputs[g]))
        OBVIOUS
      <4>1. Extracted(g)[g] = Memo(HashOf[inputs[g]], SymbolTable(Tree(parser, g, inputs[g])))
        BY <1>1, ExtractedValue
      <4> QED
        BY <1>4, <2>3, <4>1 DEF Memo
    <3>2. semantic_index' = [rev |-> revision, docs |-> [f \in Indexed |-> symbols_memo'[f].value]]
      BY <2>3 DEF SemanticIds
    <3>3. semantic_index'.docs = PresentSymbols
      BY <3>1, <3>2 DEF PresentSymbols
    <3> QED
      BY <1>1, <1>2, <2>1, <3>2, <3>3 DEF SemanticInv
  <2> QED
    BY <2>2, <2>3
<1> QED
  BY <1>2, <1>5, <1>6, <1>7 DEF IndexIInv

LEMMA IndexNextInvariant == IndexIInv /\ [IndexNext]_indexVars => IndexIInv'
<1> SUFFICES ASSUME IndexIInv, [IndexNext]_indexVars
             PROVE  IndexIInv'
  OBVIOUS
<1>1. CASE Next /\ UNCHANGED slots
  BY <1>1, CoreStepKeepsSlots
<1>2. CASE UNCHANGED indexVars
  BY <1>2, CoreStepKeepsSlots DEF indexVars
<1>3. ASSUME NEW terms \in (SUBSET Needles) \ {{}}, PlanLexFiles(terms)
      PROVE  IndexIInv'
  BY <1>3, PlanInvariant
<1>4. CASE SemanticIds
  BY <1>4, SemanticInvariant
<1> QED
  BY <1>1, <1>2, <1>3, <1>4 DEF IndexNext

-----------------------------------------------------------------------------
(* What it gives. *)

\* The slots hold well-typed indexes, stamped with a revision there has been.
THEOREM IndexesTyped == IndexSpec => []IndexTypeOK
<1>1. IndexIInv => IndexTypeOK
  <2> SUFFICES ASSUME IndexIInv
               PROVE  IndexTypeOK
    OBVIOUS
  <2>1. TypeOK /\ revision \in 0..MaxRevision /\ MaxRevision \in Nat
    BY CoreAssumption DEF IndexIInv, IInv, TypeOK
  <2>2. ASSUME token_index # Absent
        PROVE  token_index \in [rev : 0..MaxRevision,
                                file_tokens : [Files -> FileTokens \cup {Absent}],
                                postings : [Tokens -> SUBSET Files]]
    <3>1. PICK texts \in AllTexts : BuiltFrom(token_index, texts)
      BY <2>2 DEF IndexIInv, TokenInv
    <3>2. \A f \in HeldIn(texts) : texts[f] \in Texts
      BY DEF HeldIn, AllTexts
    <3>3. TokensPerFile(texts) \in [Files -> FileTokens \cup {Absent}]
      BY <3>2, HashAssumption, TokenAssumption DEF TokensPerFile, FileTokens, HeldIn
    <3>4. PostingsOver(texts) \in [Tokens -> SUBSET Files]
      BY DEF PostingsOver, HeldIn
    <3>5. token_index.rev \in 0..MaxRevision
      BY <2>1, <2>2 DEF IndexIInv, TokenInv
    <3> QED
      BY <3>1, <3>3, <3>4, <3>5 DEF BuiltFrom
  <2>3. semantic_index # Absent => semantic_index.rev \in 0..MaxRevision
    BY <2>1 DEF IndexIInv, SemanticInv
  <2> QED
    BY <2>1, <2>2, <2>3 DEF IndexTypeOK, IndexIInv
<1> QED
  BY <1>1, IndexInitInvariant, IndexNextInvariant, PTL DEF IndexSpec

\* However the texts changed between two queries, updating file by file gives
\* the index a build from nothing would.
THEOREM TokenIndexIsFresh == IndexSpec => []TokenIndexFresh
<1>1. IndexIInv => TokenIndexFresh
  <2> SUFFICES ASSUME IndexIInv, token_index # Absent, token_index.rev = revision
               PROVE  token_index.postings = ScratchPostings
    BY DEF TokenIndexFresh
  <2>1. BuiltFrom(token_index, inputs)
    BY DEF IndexIInv, TokenInv
  <2>2. token_index.postings = PostingsOver(inputs)
    BY <2>1 DEF BuiltFrom
  <2> QED
    BY <2>2 DEF PostingsOver, HeldIn, ScratchPostings, Indexed
<1> QED
  BY <1>1, IndexInitInvariant, IndexNextInvariant, PTL DEF IndexSpec

\* A semantic index that is served holds the symbols of the present texts
\* under the present parser.
THEOREM SemanticIndexIsFresh == IndexSpec => []SemanticIndexFresh
<1>1. IndexIInv => SemanticIndexFresh
  BY DEF IndexIInv, SemanticInv, SemanticIndexFresh, PresentSymbols
<1> QED
  BY <1>1, IndexInitInvariant, IndexNextInvariant, PTL DEF IndexSpec

\* A memo that would be served is right also when the indexes fill memos on
\* their own.
THEOREM MemosStaySound == IndexSpec => []MemoSound
<1>1. IndexIInv => MemoSound
  BY InvariantImpliesSound DEF IndexIInv
<1> QED
  BY <1>1, IndexInitInvariant, IndexNextInvariant, PTL DEF IndexSpec

\* The files a plan returns are those that hold all its terms, in every
\* behaviour: pruning by a postings list loses nothing.
THEOREM PlansHaveFullRecall == IndexSpec => FullRecall
<1>1. ASSUME IndexIInv, UNCHANGED vars,
             NEW terms \in (SUBSET Needles) \ {{}}, PlanLexFiles(terms)
      PROVE  candidates' = {f \in Indexed :
                 \A n \in terms : TokensOf[inputs[f]] \cap HostsOf[n] # {}}
  <2>1. TypeOK
    BY <1>1 DEF IndexIInv, IInv
  <2>2. token_index'.postings = PostingsOver(inputs)
    BY <1>1, <2>1, EnsuredIsCurrent DEF PlanLexFiles, IndexIInv
  <2>3. ASSUME NEW f \in Files, NEW n \in terms
        PROVE  f \in FilesWith(PostingsOver(inputs), n)
           <=> f \in Indexed /\ TokensOf[inputs[f]] \cap HostsOf[n] # {}
    <3>1. n \in Needles
      BY <1>1
    <3>2. HostsOf[n] \subseteq Tokens
      BY <3>1, TokenAssumption
    <3>3. \A k \in Tokens :
              f \in PostingsOver(inputs)[k] <=> f \in Indexed /\ k \in TokensOf[inputs[f]]
      BY DEF PostingsOver, HeldIn, Indexed
    <3>4. f \in FilesWith(PostingsOver(inputs), n)
              <=> \E k \in HostsOf[n] : f \in PostingsOver(inputs)[k]
      BY DEF FilesWith
    <3> QED
      BY <3>2, <3>3, <3>4
  <2>4. candidates' = {f \in Files : \A n \in terms : f \in FilesWith(PostingsOver(inputs), n)}
    BY <1>1, <2>2 DEF PlanLexFiles
  <2>5. PICK n \in terms : TRUE
    BY <1>1
  <2> QED
    BY <2>3, <2>4, <2>5 DEF Indexed
<1>2. IndexIInv /\ [IndexNext]_indexVars =>
          (UNCHANGED vars => \A terms \in (SUBSET Needles) \ {{}} : PlanLexFiles(terms) =>
              candidates' = {f \in Indexed :
                  \A n \in terms : TokensOf[inputs[f]] \cap HostsOf[n] # {}})
  BY <1>1
<1> QED
  BY <1>2, IndexInitInvariant, IndexNextInvariant, PTL DEF IndexSpec, FullRecall

\* Building the semantic index fills memos but never drops a valid one.
LEMMA SemanticKeepsMemos ==
    ASSUME TypeOK, SemanticIds, NEW f \in Files
    PROVE  KeptMemos(f)
<1>1. UNCHANGED <<outline_memo, line_index_memo>>
  BY DEF SemanticIds
<1>2. Hit(parse_memo, f) => parse_memo'[f] = parse_memo[f]
  BY QueriesKeepMemos DEF SemanticIds
<1>3. Hit(symbols_memo, f) => symbols_memo'[f] = symbols_memo[f]
  BY QueriesKeepMemos DEF SemanticIds
<1> QED
  BY <1>1, <1>2, <1>3 DEF KeptMemos

\* Invalidation stays minimal when the indexes take the core through its
\* queries: a valid memo goes only with a change of its own file or a parser
\* swap.
THEOREM IndexesKeepMemos == IndexSpec => KeepsValidMemos
<1>1. ASSUME IndexIInv, [IndexNext]_indexVars
      PROVE  [~(\E p \in Parsers : SetParser(p)) =>
                  \A f \in Indexed : inputs'[f] = inputs[f] => KeptMemos(f)]_vars
  <2> SUFFICES ASSUME ~(\E p \in Parsers : SetParser(p)), ~UNCHANGED vars,
                      NEW f \in Indexed, inputs'[f] = inputs[f]
               PROVE  KeptMemos(f)
    BY DEF vars
  <2>1. TypeOK /\ f \in Files
    BY <1>1 DEF IndexIInv, IInv, Indexed
  <2>2. CASE Next
    BY <2>1, <2>2, NextKeepsMemos
  <2>3. CASE SemanticIds
    BY <2>1, <2>3, SemanticKeepsMemos
  <2>4. CASE UNCHANGED indexVars
    BY <2>4 DEF indexVars
  <2>5. ASSUME NEW terms \in (SUBSET Needles) \ {{}}, PlanLexFiles(terms)
        PROVE  FALSE
    BY <2>5 DEF PlanLexFiles
  <2> QED
    BY <1>1, <2>2, <2>3, <2>4, <2>5 DEF IndexNext
<1> QED
  BY <1>1, IndexInitInvariant, IndexNextInvariant, PTL DEF IndexSpec, KeepsValidMemos, KeptMemos

\* The core still answers every query as if from scratch while the indexes
\* fill its memos: keeping them is invisible to its readers.
THEOREM IndexedCoreIsFresh == IndexSpec => FreshSpec
<1>1. IndexInit => Fresh!Init
  BY DEF IndexInit, Init, Fresh!Init, DefaultReply
<1>2. IndexIInv /\ [IndexNext]_indexVars => [Fresh!Write \/ Fresh!Ask]_Fresh!vars
  <2> SUFFICES ASSUME IndexIInv, [IndexNext]_indexVars
               PROVE  [Fresh!Write \/ Fresh!Ask]_Fresh!vars
    OBVIOUS
  <2>1. CASE Next
    BY <2>1, QueryAnswers, WriteRefines DEF Next, IndexIInv
  <2>2. CASE UNCHANGED <<inputs, parser, answer>>
    BY <2>2 DEF Fresh!vars
  <2>3. ASSUME NEW terms \in (SUBSET Needles) \ {{}}, PlanLexFiles(terms)
        PROVE  UNCHANGED <<inputs, parser, answer>>
    BY <2>3 DEF PlanLexFiles, vars
  <2> QED
    BY <2>1, <2>2, <2>3 DEF IndexNext, SemanticIds, indexVars, vars
<1> QED
  BY <1>1, <1>2, IndexInitInvariant, IndexNextInvariant, PTL
     DEF IndexSpec, FreshSpec, Fresh!Spec

=============================================================================
