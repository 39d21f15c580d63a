----------------------------- MODULE Text_proofs -----------------------------
(***************************************************************************)
(* Proofs about what the tools read off the text of a repository, for any  *)
(* files, lines and symbols: an impact and a call graph are the symbols    *)
(* within reach, the guards protect what is referenced as far as they see, *)
(* an anchored edit is of its one place, and a boolean search keeps the    *)
(* lines that its terms describe.                                          *)
(* The traversals go level by level; a lemma describes the levels, and one *)
(* by induction what each level has found.                                 *)
(***************************************************************************)
EXTENDS Navigation, Matching, Recursion, SequenceTheorems

\* One level of a traversal upwards.
LevelUp(path, w, d) ==
    LET new == (UNION {{s \in SymbolsFor(path) : n \in MentionedIn(s) \ {s.name}} : n \in w.frontier})
                    \ SeenIn(w.found)
        next == {s.name : s \in new} \ w.names
    IN  [found |-> w.found \cup {Found(s, d) : s \in new},
         names |-> w.names \cup next, frontier |-> next]

\* The levels of an impact.
LEMMA ImpactStepwise ==
    ASSUME NEW path, NEW target
    PROVE  \E w : /\ w[0] = [found |-> {}, names |-> {target}, frontier |-> {target}]
                  /\ \A d \in 1..MaxDepth : w[d] = LevelUp(path, w[d - 1], d)
                  /\ Impact(path, target) = w[MaxDepth].found
<1> DEFINE Named == {target} \cup {s.name : s \in SymbolsFor(path)}
           Reached == {Found(s, d) : s \in SymbolsFor(path), d \in 0..MaxDepth}
           X == [found : SUBSET Reached, names : SUBSET Named, frontier : SUBSET Named]
           x == [found |-> {}, names |-> {target}, frontier |-> {target}]
           step == [d \in 1..MaxDepth |-> [w \in X |-> LevelUp(path, w, d)]]
           Right(f) == f = [d \in 0..MaxDepth |-> IF d = 0 THEN x ELSE LevelUp(path, f[d - 1], d)]
           iter == CHOOSE f : Right(f)
<1>1. MaxDepth \in Nat
  BY NavigationAssumption
<1>2. Impact(path, target) = iter[MaxDepth].found
  BY DEF Impact, LevelUp
<1>3. IsSteps(MaxDepth, X, step)
  <2> SUFFICES ASSUME NEW d \in 1..MaxDepth, NEW w \in X
               PROVE  LevelUp(path, w, d) \in X
    BY DEF IsSteps
  <2> DEFINE new == (UNION {{s \in SymbolsFor(path) : n \in MentionedIn(s) \ {s.name}} : n \in w.frontier})
                        \ SeenIn(w.found)
             next == {s.name : s \in new} \ w.names
  <2>1. new \subseteq SymbolsFor(path)
    OBVIOUS
  <2>2. LevelUp(path, w, d) = [found |-> w.found \cup {Found(s, d) : s \in new},
                              names |-> w.names \cup next, frontier |-> next]
    BY DEF LevelUp
  <2> HIDE DEF new
  <2>3. {Found(s, d) : s \in new} \subseteq Reached
    BY <1>1, <2>1
  <2>4. next \subseteq Named
    BY <2>1
  <2> HIDE DEF next, Named, Reached
  <2> QED
    BY <2>2, <2>3, <2>4
<1>4. \A w \in X, d \in 1..MaxDepth : step[d][w] = LevelUp(path, w, d)
  OBVIOUS
<1>5. x \in X
  OBVIOUS
<1> HIDE DEF X, x, step, iter
<1>6. PICK f \in [0..MaxDepth -> X] : Iterates(MaxDepth, x, step, f)
  BY <1>1, <1>3, <1>5, RecursiveFunction DEF HasIterates
<1>7. Right(f)
  <2>1. ASSUME NEW d \in 1..MaxDepth
        PROVE  f[d] = LevelUp(path, f[d - 1], d)
    <3>1. d - 1 \in 0..MaxDepth
      BY <1>1
    <3> QED
      BY <1>4, <1>6, <3>1 DEF Iterates
  <2>2. f[0] = x
    BY <1>6 DEF Iterates
  <2>3. \A d \in 0..MaxDepth : d = 0 \/ d \in 1..MaxDepth
    BY <1>1
  <2> QED
    BY <2>1, <2>2, <2>3
<1>8. Right(iter)
  BY <1>7 DEF iter
<1>9. iter[0] = x /\ \A d \in 1..MaxDepth : iter[d] = LevelUp(path, iter[d - 1], d)
  <2>1. 0 \in 0..MaxDepth /\ \A d \in 1..MaxDepth : d \in 0..MaxDepth /\ d # 0
    BY <1>1
  <2> QED
    BY <1>8, <2>1
<1> QED
  BY <1>2, <1>9 DEF x

CallsOf(s) == CalledIn(s) \ {s.name}

\* One level of a traversal downwards.
LevelDown(path, w, d) ==
    LET new == {s \in SymbolsFor(path) : s.name \in w.frontier} \ SeenIn(w.found)
        next == (UNION {CallsOf(s) : s \in new}) \ w.names
    IN  [found |-> w.found \cup {Found(s, d) : s \in new},
         names |-> w.names \cup next, frontier |-> next]

Called(path, target) == UNION {CallsOf(s) : s \in {x \in SymbolsFor(path) : x.name \in {target}}}

\* The levels of a call graph.
LEMMA CallgraphStepwise ==
    ASSUME NEW path, NEW target
    PROVE  \E w : /\ w[0] = [found |-> {}, names |-> {target}, frontier |-> Called(path, target)]
                  /\ \A d \in 1..MaxDepth : w[d] = LevelDown(path, w[d - 1], d)
                  /\ Callgraph(path, target) = w[MaxDepth].found
<1> DEFINE Named == {target} \cup UNION {CallsOf(s) : s \in SymbolsFor(path)}
           Reached == {Found(s, d) : s \in SymbolsFor(path), d \in 0..MaxDepth}
           X == [found : SUBSET Reached, names : SUBSET Named, frontier : SUBSET Named]
           x == [found |-> {}, names |-> {target}, frontier |-> Called(path, target)]
           step == [d \in 1..MaxDepth |-> [w \in X |-> LevelDown(path, w, d)]]
           Right(f) == f = [d \in 0..MaxDepth |-> IF d = 0 THEN x ELSE LevelDown(path, f[d - 1], d)]
           iter == CHOOSE f : Right(f)
<1>1. MaxDepth \in Nat
  BY NavigationAssumption
<1>2. Callgraph(path, target) = iter[MaxDepth].found
  BY DEF Callgraph, LevelDown, Called, CallsOf
<1>3. IsSteps(MaxDepth, X, step)
  <2> SUFFICES ASSUME NEW d \in 1..MaxDepth, NEW w \in X
               PROVE  LevelDown(path, w, d) \in X
    BY DEF IsSteps
  <2> DEFINE new == {s \in SymbolsFor(path) : s.name \in w.frontier} \ SeenIn(w.found)
             next == (UNION {CallsOf(s) : s \in new}) \ w.names
  <2>1. new \subseteq SymbolsFor(path)
    OBVIOUS
  <2>2. LevelDown(path, w, d) = [found |-> w.found \cup {Found(s, d) : s \in new},
                             names |-> w.names \cup next, frontier |-> next]
    BY DEF LevelDown
  <2> HIDE DEF new
  <2>3. {Found(s, d) : s \in new} \subseteq Reached
    BY <1>1, <2>1
  <2>4. next \subseteq Named
    BY <2>1
  <2> HIDE DEF next, Named, Reached
  <2> QED
    BY <2>2, <2>3, <2>4
<1>4. \A w \in X, d \in 1..MaxDepth : step[d][w] = LevelDown(path, w, d)
  OBVIOUS
<1>5. x \in X
  <2>1. Called(path, target) \subseteq Named
    BY DEF Called
  <2> HIDE DEF Reached
  <2> QED
    BY <2>1
<1> HIDE DEF X, x, step, iter
<1>6. PICK f \in [0..MaxDepth -> X] : Iterates(MaxDepth, x, step, f)
  BY <1>1, <1>3, <1>5, RecursiveFunction DEF HasIterates
<1>7. Right(f)
  <2>1. ASSUME NEW d \in 1..MaxDepth
        PROVE  f[d] = LevelDown(path, f[d - 1], d)
    <3>1. d - 1 \in 0..MaxDepth
      BY <1>1
    <3> QED
      BY <1>4, <1>6, <3>1 DEF Iterates
  <2>2. f[0] = x
    BY <1>6 DEF Iterates
  <2>3. \A d \in 0..MaxDepth : d = 0 \/ d \in 1..MaxDepth
    BY <1>1
  <2> QED
    BY <2>1, <2>2, <2>3
<1>8. Right(iter)
  BY <1>7 DEF iter
<1>9. iter[0] = x /\ \A d \in 1..MaxDepth : iter[d] = LevelDown(path, iter[d - 1], d)
  <2>1. 0 \in 0..MaxDepth /\ \A d \in 1..MaxDepth : d \in 0..MaxDepth /\ d # 0
    BY <1>1
  <2> QED
    BY <1>8, <2>1
<1> QED
  BY <1>2, <1>9 DEF x

\* A symbol mentions one of the names.
MentionsOf(s, ns) == ns \cap (MentionedIn(s) \ {s.name}) # {}

LEMMA NamesUpStepwise ==
    ASSUME NEW path, NEW n
    PROVE  /\ NamesUp(path, n)[0] = {n}
           /\ \A d \in 1..MaxDepth :
                  NamesUp(path, n)[d] =
                      {s.name : s \in {x \in SymbolsFor(path) : MentionsOf(x, NamesUp(path, n)[d - 1])}}
<1> DEFINE X == SUBSET ({n} \cup {s.name : s \in SymbolsFor(path)})
           Next(ns) == {s.name : s \in {x \in SymbolsFor(path) : MentionsOf(x, ns)}}
           step == [d \in 1..MaxDepth |-> [ns \in X |-> Next(ns)]]
           Right(f) == f = [d \in 0..MaxDepth |-> IF d = 0 THEN {n} ELSE Next(f[d - 1])]
           iter == CHOOSE f : Right(f)
           x == {n}
<1>1. MaxDepth \in Nat
  BY NavigationAssumption
<1>2. NamesUp(path, n) = iter
  BY DEF NamesUp, MentionsOf
<1>3. IsSteps(MaxDepth, X, step)
  BY DEF IsSteps
<1>4. \A ns \in X, d \in 1..MaxDepth : step[d][ns] = Next(ns)
  OBVIOUS
<1>5. x \in X
  OBVIOUS
<1> HIDE DEF X, x, step, iter, Next
<1>6. PICK f \in [0..MaxDepth -> X] : Iterates(MaxDepth, x, step, f)
  BY <1>1, <1>3, <1>5, RecursiveFunction DEF HasIterates
<1>7. Right(f)
  <2>1. ASSUME NEW d \in 1..MaxDepth
        PROVE  f[d] = Next(f[d - 1])
    <3>1. d - 1 \in 0..MaxDepth
      BY <1>1
    <3> QED
      BY <1>4, <1>6, <3>1 DEF Iterates
  <2>2. f[0] = {n}
    BY <1>6 DEF Iterates, x
  <2>3. \A d \in 0..MaxDepth : d = 0 \/ d \in 1..MaxDepth
    BY <1>1
  <2> QED
    BY <2>1, <2>2, <2>3
<1>8. Right(iter)
  BY <1>7 DEF iter
<1>9. iter[0] = {n} /\ \A d \in 1..MaxDepth : iter[d] = Next(iter[d - 1])
  <2>1. 0 \in 0..MaxDepth /\ \A d \in 1..MaxDepth : d \in 0..MaxDepth /\ d # 0
    BY <1>1
  <2> QED
    BY <1>8, <2>1
<1> QED
  BY <1>2, <1>9 DEF Next

\* A symbol is called by one of the others.
CalledBy(s, xs, n) == \E x \in xs : s.name \in CalledIn(x) \ {x.name, n}

LEMMA SymbolsDownStepwise ==
    ASSUME NEW path, NEW n
    PROVE  /\ SymbolsDown(path, n)[0] = {s \in SymbolsFor(path) : s.name = n}
           /\ \A d \in 1..MaxDepth :
                  SymbolsDown(path, n)[d] =
                      {s \in SymbolsFor(path) : CalledBy(s, SymbolsDown(path, n)[d - 1], n)}
<1> DEFINE X == SUBSET SymbolsFor(path)
           Next(xs) == {s \in SymbolsFor(path) : CalledBy(s, xs, n)}
           x == {s \in SymbolsFor(path) : s.name = n}
           step == [d \in 1..MaxDepth |-> [xs \in X |-> Next(xs)]]
           Right(f) == f = [d \in 0..MaxDepth |-> IF d = 0 THEN x ELSE Next(f[d - 1])]
           iter == CHOOSE f : Right(f)
<1>1. MaxDepth \in Nat
  BY NavigationAssumption
<1>2. SymbolsDown(path, n) = iter
  BY DEF SymbolsDown, CalledBy
<1>3. IsSteps(MaxDepth, X, step)
  BY DEF IsSteps
<1>4. \A xs \in X, d \in 1..MaxDepth : step[d][xs] = Next(xs)
  OBVIOUS
<1>5. x \in X
  OBVIOUS
<1> HIDE DEF X, x, step, iter, Next
<1>6. PICK f \in [0..MaxDepth -> X] : Iterates(MaxDepth, x, step, f)
  BY <1>1, <1>3, <1>5, RecursiveFunction DEF HasIterates
<1>7. Right(f)
  <2>1. ASSUME NEW d \in 1..MaxDepth
        PROVE  f[d] = Next(f[d - 1])
    <3>1. d - 1 \in 0..MaxDepth
      BY <1>1
    <3> QED
      BY <1>4, <1>6, <3>1 DEF Iterates
  <2>2. f[0] = x
    BY <1>6 DEF Iterates
  <2>3. \A d \in 0..MaxDepth : d = 0 \/ d \in 1..MaxDepth
    BY <1>1
  <2> QED
    BY <2>1, <2>2, <2>3
<1>8. Right(iter)
  BY <1>7 DEF iter
<1>9. iter[0] = x /\ \A d \in 1..MaxDepth : iter[d] = Next(iter[d - 1])
  <2>1. 0 \in 0..MaxDepth /\ \A d \in 1..MaxDepth : d \in 0..MaxDepth /\ d # 0
    BY <1>1
  <2> QED
    BY <1>8, <2>1
<1> QED
  BY <1>2, <1>9 DEF Next, x

-----------------------------------------------------------------------------

UpAt(path, n, s, d) == MentionsOf(s, NamesUp(path, n)[d - 1])

FirstUp(path, n, s, d) == UpAt(path, n, s, d) /\ \A e \in 1..(d - 1) : ~UpAt(path, n, s, e)

NamesWithin(path, n, d) == UNION {NamesUp(path, n)[e] : e \in 0..d}

\* What an impact has after d levels.
ImpactLevel(path, n, w, d) ==
    /\ \A x \in w.found : \E s \in SymbolsFor(path), e \in 1..d : x = Found(s, e)
    /\ \A s \in SymbolsFor(path), e \in 1..d : Found(s, e) \in w.found <=> FirstUp(path, n, s, e)
    /\ \A s \in SymbolsFor(path) : s \in SeenIn(w.found) <=> \E e \in 1..d : UpAt(path, n, s, e)
    /\ w.names = NamesWithin(path, n, d)
    /\ w.frontier = w.names \ NamesWithin(path, n, d - 1)

LEMMA FoundIsPair ==
    ASSUME NEW s, NEW d, NEW t, NEW e
    PROVE  /\ Found(s, d) = Found(t, e) <=> s = t /\ d = e
           /\ Found(s, d).symbol = s /\ Found(s, d).depth = d
<1>1. Found(s, d).symbol = s /\ Found(s, d).depth = d /\ Found(t, e).symbol = t /\ Found(t, e).depth = e
  BY DEF Found
<1> QED
  BY <1>1

LEMMA ImpactLevelStep ==
    ASSUME NEW path, NEW n, NEW d \in Nat, d < MaxDepth, NEW w, ImpactLevel(path, n, w, d)
    PROVE  ImpactLevel(path, n, LevelUp(path, w, d + 1), d + 1)
<1> DEFINE Sym == SymbolsFor(path)
           up == NamesUp(path, n)
           new == (UNION {{s \in Sym : k \in MentionedIn(s) \ {s.name}} : k \in w.frontier}) \ SeenIn(w.found)
           next == {s.name : s \in new} \ w.names
           v == LevelUp(path, w, d + 1)
<1> USE DEF ImpactLevel
<1>1. /\ v.found = w.found \cup {Found(s, d + 1) : s \in new}
      /\ v.names = w.names \cup next
      /\ v.frontier = next
  BY DEF LevelUp
<1>2. MaxDepth \in Nat /\ d + 1 \in 1..MaxDepth /\ d + 1 - 1 = d /\ 1..(d + 1) = 1..d \cup {d + 1}
      /\ 0..(d + 1) = 0..d \cup {d + 1} /\ 0..d = 0..(d - 1) \cup {d} /\ d + 1 \notin 1..d
  BY NavigationAssumption
<1>3. up[d + 1] = {s.name : s \in {x \in Sym : UpAt(path, n, x, d + 1)}}
  BY <1>2, NamesUpStepwise DEF UpAt
<1>4. \A e \in 1..d : up[e] = {s.name : s \in {x \in Sym : UpAt(path, n, x, e)}}
  <2>1. \A e \in 1..d : e \in 1..MaxDepth
    BY <1>2
  <2> QED
    BY <2>1, NamesUpStepwise DEF UpAt
<1>5. new = {s \in Sym : MentionsOf(s, w.frontier)} \ SeenIn(w.found)
  BY DEF MentionsOf
<1> HIDE DEF new, next, v
<1>6. ASSUME NEW s \in Sym, s \notin SeenIn(w.found)
      PROVE  MentionsOf(s, w.frontier) <=> UpAt(path, n, s, d + 1)
  <2>1. UpAt(path, n, s, d + 1) <=> MentionsOf(s, up[d])
    BY <1>2 DEF UpAt
  <2>2. w.frontier \subseteq up[d]
    BY <1>2 DEF NamesWithin
  <2>3. ASSUME NEW k \in up[d], k \in MentionedIn(s) \ {s.name}
        PROVE  k \in w.frontier
    <3>1. SUFFICES ASSUME k \in NamesWithin(path, n, d - 1)
                   PROVE  FALSE
      BY <1>2, <2>3 DEF NamesWithin
    <3>2. PICK e \in 0..(d - 1) : k \in up[e]
      BY <3>1 DEF NamesWithin
    <3>3. e + 1 \in 1..d /\ e + 1 - 1 = e
      OBVIOUS
    <3>4. UpAt(path, n, s, e + 1)
      BY <2>3, <3>2, <3>3 DEF UpAt, MentionsOf
    <3> QED
      BY <1>6, <3>3, <3>4
  <2> QED
    BY <2>1, <2>2, <2>3 DEF MentionsOf
<1>7. \A s \in Sym : s \in new <=> UpAt(path, n, s, d + 1) /\ \A e \in 1..d : ~UpAt(path, n, s, e)
  BY <1>5, <1>6
<1>8. \A s \in Sym : s \in new <=> FirstUp(path, n, s, d + 1)
  BY <1>2, <1>7 DEF FirstUp
<1>9. new \subseteq Sym
  BY <1>5
<1>10. \A x \in v.found : \E s \in Sym, e \in 1..(d + 1) : x = Found(s, e)
  BY <1>1, <1>2, <1>9
<1>11. \A s \in Sym, e \in 1..(d + 1) : Found(s, e) \in v.found <=> FirstUp(path, n, s, e)
  <2> SUFFICES ASSUME NEW s \in Sym, NEW e \in 1..(d + 1)
               PROVE  Found(s, e) \in v.found <=> FirstUp(path, n, s, e)
    OBVIOUS
  <2>1. CASE e \in 1..d
    <3>1. Found(s, e) \notin {Found(t, d + 1) : t \in new}
      BY <1>2, <2>1, FoundIsPair
    <3> QED
      BY <1>1, <2>1, <3>1
  <2>2. CASE e = d + 1
    <3>1. Found(s, e) \notin w.found
      BY <1>2, <2>2, FoundIsPair
    <3>2. Found(s, e) \in {Found(t, d + 1) : t \in new} <=> s \in new
      BY <2>2, FoundIsPair
    <3> QED
      BY <1>1, <1>8, <2>2, <3>1, <3>2
  <2> QED
    BY <1>2, <2>1, <2>2
<1>12. \A s \in Sym : s \in SeenIn(v.found) <=> s \in SeenIn(w.found) \/ s \in new
  BY <1>1, FoundIsPair DEF SeenIn
<1>13. \A s \in Sym : s \in SeenIn(v.found) <=> \E e \in 1..(d + 1) : UpAt(path, n, s, e)
  BY <1>2, <1>7, <1>12
<1>14. NamesWithin(path, n, d + 1) = NamesWithin(path, n, d) \cup up[d + 1]
  BY <1>2 DEF NamesWithin
<1>15. v.names = NamesWithin(path, n, d + 1)
  <2>1. {s.name : s \in new} \subseteq up[d + 1]
    BY <1>3, <1>7, <1>9
  <2>2. ASSUME NEW k \in up[d + 1], k \notin w.names
        PROVE  k \in {s.name : s \in new}
    <3>1. PICK s \in Sym : UpAt(path, n, s, d + 1) /\ k = s.name
      BY <1>3
    <3>2. ASSUME NEW e \in 1..d, UpAt(path, n, s, e)
          PROVE  FALSE
      <4>1. k \in up[e] /\ e \in 0..d
        BY <1>4, <3>1, <3>2
      <4> QED
        BY <2>2, <4>1 DEF NamesWithin
    <3> QED
      BY <1>7, <3>1, <3>2
  <2> QED
    BY <1>1, <1>14, <2>1, <2>2 DEF next
<1>16. v.frontier = v.names \ NamesWithin(path, n, d)
  BY <1>1 DEF next
<1> QED
  BY <1>2, <1>10, <1>11, <1>13, <1>15, <1>16 DEF v

\* An impact is every symbol that mentions reach, at its least depth.
LEMMA ImpactIsExact ==
    ASSUME NEW path, NEW n
    PROVE  /\ \A x \in Impact(path, n) :
                  \E s \in SymbolsFor(path), e \in 1..MaxDepth : x = Found(s, e)
           /\ \A s \in SymbolsFor(path), e \in 1..MaxDepth :
                  Found(s, e) \in Impact(path, n) <=> FirstUp(path, n, s, e)
           /\ \A s \in SymbolsFor(path) :
                  s \in SeenIn(Impact(path, n)) <=> \E e \in 1..MaxDepth : UpAt(path, n, s, e)
<1>1. PICK w : /\ w[0] = [found |-> {}, names |-> {n}, frontier |-> {n}]
               /\ \A d \in 1..MaxDepth : w[d] = LevelUp(path, w[d - 1], d)
               /\ Impact(path, n) = w[MaxDepth].found
  BY ImpactStepwise
<1>2. MaxDepth \in Nat
  BY NavigationAssumption
<1> DEFINE S == {d \in Nat : d <= MaxDepth => ImpactLevel(path, n, w[d], d)}
<1>3. 0 \in S
  <2>1. NamesWithin(path, n, 0) = {n} /\ NamesWithin(path, n, 0 - 1) = {}
    <3>1. 0..0 = {0} /\ 0..(0 - 1) = {}
      OBVIOUS
    <3> QED
      BY <3>1, NamesUpStepwise DEF NamesWithin
  <2>2. 1..0 = {} /\ SeenIn({}) = {}
    BY DEF SeenIn
  <2>3. w[0].found = {} /\ w[0].names = {n} /\ w[0].frontier = {n}
    BY <1>1
  <2> QED
    BY <2>1, <2>2, <2>3 DEF ImpactLevel
<1>4. ASSUME NEW d \in Nat, d \in S
      PROVE  d + 1 \in S
  <2> SUFFICES ASSUME d + 1 <= MaxDepth
               PROVE  ImpactLevel(path, n, w[d + 1], d + 1)
    OBVIOUS
  <2>1. d <= MaxDepth /\ d < MaxDepth /\ d + 1 \in 1..MaxDepth /\ d + 1 - 1 = d
    BY <1>2
  <2>2. ImpactLevel(path, n, w[d], d)
    BY <1>4, <2>1
  <2>3. w[d + 1] = LevelUp(path, w[d], d + 1)
    BY <1>1, <2>1
  <2> QED
    BY <2>1, <2>2, <2>3, ImpactLevelStep
<1>5. MaxDepth \in S
  <2> HIDE DEF S
  <2> QED
    BY <1>2, <1>3, <1>4, NaturalInduction
<1>6. ImpactLevel(path, n, w[MaxDepth], MaxDepth)
  BY <1>2, <1>5
<1> QED
  BY <1>1, <1>6 DEF ImpactLevel

-----------------------------------------------------------------------------

DownAt(path, n, s, d) == s \in SymbolsDown(path, n)[d]

FirstDown(path, n, s, d) == DownAt(path, n, s, d) /\ \A e \in 1..(d - 1) : ~DownAt(path, n, s, e)

\* What a call graph has after d levels.  The frontier holds the names of the
\* next level, and maybe names of symbols that have been seen.
CallgraphLevel(path, n, w, d) ==
    /\ \A x \in w.found : \E s \in SymbolsFor(path), e \in 1..d : x = Found(s, e)
    /\ \A s \in SymbolsFor(path), e \in 1..d : Found(s, e) \in w.found <=> FirstDown(path, n, s, e)
    /\ \A s \in SymbolsFor(path) : s \in SeenIn(w.found) <=> \E e \in 1..d : DownAt(path, n, s, e)
    /\ n \in w.names
    /\ \A k \in w.names : k = n \/ \E e \in 1..d : \E x \in SymbolsDown(path, n)[e] : k \in CallsOf(x)
    /\ \A s \in SymbolsFor(path) \ SeenIn(w.found) :
           s.name \in w.frontier <=> CalledBy(s, SymbolsDown(path, n)[d], n)

LEMMA CallgraphLevelStep ==
    ASSUME NEW path, NEW n, NEW d \in Nat, d < MaxDepth, NEW w, CallgraphLevel(path, n, w, d)
    PROVE  CallgraphLevel(path, n, LevelDown(path, w, d + 1), d + 1)
<1> DEFINE Sym == SymbolsFor(path)
           down == SymbolsDown(path, n)
           new == {s \in Sym : s.name \in w.frontier} \ SeenIn(w.found)
           next == (UNION {CallsOf(s) : s \in new}) \ w.names
           v == LevelDown(path, w, d + 1)
<1> USE DEF CallgraphLevel
<1>1. /\ v.found = w.found \cup {Found(s, d + 1) : s \in new}
      /\ v.names = w.names \cup next
      /\ v.frontier = next
  BY DEF LevelDown
<1>2. MaxDepth \in Nat /\ d + 1 \in 1..MaxDepth /\ d + 1 - 1 = d /\ 1..(d + 1) = 1..d \cup {d + 1}
      /\ d + 1 \notin 1..d
  BY NavigationAssumption
<1>3. \A e \in 1..(d + 1) : down[e] = {s \in Sym : CalledBy(s, down[e - 1], n)}
  <2>1. \A e \in 1..(d + 1) : e \in 1..MaxDepth
    BY <1>2
  <2> QED
    BY <2>1, SymbolsDownStepwise
<1>4. \A s \in Sym, e \in 1..d : CalledBy(s, down[e], n) => s \in down[e + 1]
  <2>1. \A e \in 1..d : e + 1 \in 1..(d + 1) /\ e + 1 - 1 = e
    OBVIOUS
  <2> QED
    BY <1>3, <2>1
<1> HIDE DEF v
<1>5. new \subseteq Sym
  OBVIOUS
<1>6. \A s \in Sym : s \in new <=> DownAt(path, n, s, d + 1) /\ \A e \in 1..d : ~DownAt(path, n, s, e)
  <2>1. down[d + 1] = {s \in Sym : CalledBy(s, down[d], n)}
    BY <1>2, <1>3
  <2> QED
    BY <2>1 DEF DownAt
<1> HIDE DEF new
<1>7. \A s \in Sym : s \in new <=> FirstDown(path, n, s, d + 1)
  BY <1>2, <1>6 DEF FirstDown
<1>8. \A x \in v.found : \E s \in Sym, e \in 1..(d + 1) : x = Found(s, e)
  BY <1>1, <1>2, <1>5
<1>9. \A s \in Sym, e \in 1..(d + 1) : Found(s, e) \in v.found <=> FirstDown(path, n, s, e)
  <2> SUFFICES ASSUME NEW s \in Sym, NEW e \in 1..(d + 1)
               PROVE  Found(s, e) \in v.found <=> FirstDown(path, n, s, e)
    OBVIOUS
  <2>1. CASE e \in 1..d
    <3>1. Found(s, e) \notin {Found(t, d + 1) : t \in new}
      BY <1>2, <2>1, FoundIsPair
    <3> QED
      BY <1>1, <2>1, <3>1
  <2>2. CASE e = d + 1
    <3>1. Found(s, e) \notin w.found
      BY <1>2, <2>2, FoundIsPair
    <3>2. Found(s, e) \in {Found(t, d + 1) : t \in new} <=> s \in new
      BY <2>2, FoundIsPair
    <3> QED
      BY <1>1, <1>7, <2>2, <3>1, <3>2
  <2> QED
    BY <1>2, <2>1, <2>2
<1>10. \A s \in Sym : s \in SeenIn(v.found) <=> s \in SeenIn(w.found) \/ s \in new
  BY <1>1, FoundIsPair DEF SeenIn
<1>11. \A s \in Sym : s \in SeenIn(v.found) <=> \E e \in 1..(d + 1) : DownAt(path, n, s, e)
  BY <1>2, <1>6, <1>10
<1>12. n \in v.names
  BY <1>1
<1>13. ASSUME NEW k \in v.names, k # n
       PROVE  \E e \in 1..(d + 1) : \E x \in down[e] : k \in CallsOf(x)
  <2>1. CASE k \in w.names
    BY <1>2, <1>13, <2>1
  <2>2. CASE k \in next
    <3>1. PICK x \in new : k \in CallsOf(x)
      BY <2>2
    <3>2. x \in down[d + 1] /\ d + 1 \in 1..(d + 1)
      BY <1>2, <1>5, <1>6 DEF DownAt
    <3> QED
      BY <3>1, <3>2
  <2> QED
    BY <1>1, <1>13, <2>1, <2>2
<1>14. ASSUME NEW s \in Sym \ SeenIn(v.found)
       PROVE  s.name \in v.frontier <=> CalledBy(s, down[d + 1], n)
  <2>1. \A e \in 1..(d + 1) : s \notin down[e]
    BY <1>11 DEF DownAt
  <2>2. ASSUME s.name \in next
        PROVE  CalledBy(s, down[d + 1], n)
    <3>1. PICK x \in new : s.name \in CallsOf(x)
      BY <2>2
    <3>2. x \in down[d + 1]
      BY <1>5, <1>6 DEF DownAt
    <3>3. s.name # n
      BY <2>2
    <3> QED
      BY <3>1, <3>2, <3>3 DEF CalledBy, CallsOf
  <2>3. ASSUME CalledBy(s, down[d + 1], n)
        PROVE  s.name \in next
    <3>1. PICK x \in down[d + 1] : s.name \in CalledIn(x) \ {x.name, n}
      BY <2>3 DEF CalledBy
    <3>2. x \in Sym
      BY <1>2, <1>3, <3>1
    <3>3. ASSUME NEW e \in 1..d, x \in down[e]
          PROVE  FALSE
      <4>1. CalledBy(s, down[e], n)
        BY <3>1, <3>3 DEF CalledBy
      <4>2. s \in down[e + 1] /\ e + 1 \in 1..(d + 1)
        BY <1>4, <4>1
      <4> QED
        BY <2>1, <4>2
    <3>4. x \in new
      BY <1>6, <3>1, <3>2, <3>3 DEF DownAt
    <3>5. ASSUME s.name \in w.names
          PROVE  FALSE
      <4>1. PICK e \in 1..d : \E y \in down[e] : s.name \in CallsOf(y)
        BY <3>1, <3>5
      <4>2. PICK y \in down[e] : s.name \in CallsOf(y)
        BY <4>1
      <4>3. CalledBy(s, down[e], n)
        BY <3>1, <4>2 DEF CalledBy, CallsOf
      <4>4. s \in down[e + 1] /\ e + 1 \in 1..(d + 1)
        BY <1>4, <4>3
      <4> QED
        BY <2>1, <4>4
    <3> QED
      BY <3>1, <3>4, <3>5 DEF CallsOf
  <2> QED
    BY <1>1, <2>2, <2>3
<1> QED
  BY <1>8, <1>9, <1>11, <1>12, <1>13, <1>14 DEF v

\* A call graph is every symbol that calls reach, at its least depth.
LEMMA CallgraphIsExact ==
    ASSUME NEW path, NEW n
    PROVE  /\ \A x \in Callgraph(path, n) :
                  \E s \in SymbolsFor(path), e \in 1..MaxDepth : x = Found(s, e)
           /\ \A s \in SymbolsFor(path), e \in 1..MaxDepth :
                  Found(s, e) \in Callgraph(path, n) <=> FirstDown(path, n, s, e)
           /\ \A s \in SymbolsFor(path) :
                  s \in SeenIn(Callgraph(path, n)) <=> \E e \in 1..MaxDepth : DownAt(path, n, s, e)
<1>1. PICK w : /\ w[0] = [found |-> {}, names |-> {n}, frontier |-> Called(path, n)]
               /\ \A d \in 1..MaxDepth : w[d] = LevelDown(path, w[d - 1], d)
               /\ Callgraph(path, n) = w[MaxDepth].found
  BY CallgraphStepwise
<1>2. MaxDepth \in Nat
  BY NavigationAssumption
<1> DEFINE S == {d \in Nat : d <= MaxDepth => CallgraphLevel(path, n, w[d], d)}
<1>3. 0 \in S
  <2>1. 1..0 = {} /\ SeenIn({}) = {}
    BY DEF SeenIn
  <2>2. w[0].found = {} /\ w[0].names = {n} /\ w[0].frontier = Called(path, n)
    BY <1>1
  <2>3. \A s \in SymbolsFor(path) :
            s.name \in Called(path, n) <=> CalledBy(s, SymbolsDown(path, n)[0], n)
    BY SymbolsDownStepwise DEF Called, CallsOf, CalledBy
  <2> QED
    BY <2>1, <2>2, <2>3 DEF CallgraphLevel
<1>4. ASSUME NEW d \in Nat, d \in S
      PROVE  d + 1 \in S
  <2> SUFFICES ASSUME d + 1 <= MaxDepth
               PROVE  CallgraphLevel(path, n, w[d + 1], d + 1)
    OBVIOUS
  <2>1. d <= MaxDepth /\ d < MaxDepth /\ d + 1 \in 1..MaxDepth /\ d + 1 - 1 = d
    BY <1>2
  <2>2. CallgraphLevel(path, n, w[d], d)
    BY <1>4, <2>1
  <2>3. w[d + 1] = LevelDown(path, w[d], d + 1)
    BY <1>1, <2>1
  <2> QED
    BY <2>1, <2>2, <2>3, CallgraphLevelStep
<1>5. MaxDepth \in S
  <2> HIDE DEF S
  <2> QED
    BY <1>2, <1>3, <1>4, NaturalInduction
<1>6. CallgraphLevel(path, n, w[MaxDepth], MaxDepth)
  BY <1>2, <1>5
<1> QED
  BY <1>1, <1>6 DEF CallgraphLevel

-----------------------------------------------------------------------------
(* What is called from below is impacted from above. *)

NamesUpShift(path, m, k, d) == NamesUp(path, k)[d] \subseteq NamesUp(path, m)[d + 1]

LEMMA OneMoreMention ==
    ASSUME NEW path, NEW m, NEW k, k \in NamesUp(path, m)[1]
    PROVE  \A d \in 0..(MaxDepth - 1) : NamesUpShift(path, m, k, d)
<1>1. MaxDepth \in Nat /\ MaxDepth >= 1
  BY NavigationAssumption
<1> DEFINE S == {d \in Nat : d <= MaxDepth - 1 => NamesUpShift(path, m, k, d)}
<1>2. 0 \in S
  <2>1. 0 + 1 = 1
    OBVIOUS
  <2> QED
    BY <2>1, NamesUpStepwise DEF NamesUpShift
<1>3. ASSUME NEW d \in Nat, d \in S
      PROVE  d + 1 \in S
  <2> SUFFICES ASSUME d + 1 <= MaxDepth - 1
               PROVE  NamesUpShift(path, m, k, d + 1)
    OBVIOUS
  <2>1. d <= MaxDepth - 1 /\ d + 1 \in 1..MaxDepth /\ d + 1 + 1 \in 1..MaxDepth
        /\ d + 1 - 1 = d /\ d + 1 + 1 - 1 = d + 1
    BY <1>1
  <2>2. NamesUp(path, k)[d] \subseteq NamesUp(path, m)[d + 1]
    BY <1>3, <2>1 DEF NamesUpShift
  <2>3. \A s : MentionsOf(s, NamesUp(path, k)[d]) => MentionsOf(s, NamesUp(path, m)[d + 1])
    BY <2>2 DEF MentionsOf
  <2>4. NamesUp(path, k)[d + 1] = {s.name : s \in {x \in SymbolsFor(path) : MentionsOf(x, NamesUp(path, k)[d])}}
    BY <2>1, NamesUpStepwise
  <2>5. NamesUp(path, m)[d + 1 + 1] = {s.name : s \in {x \in SymbolsFor(path) : MentionsOf(x, NamesUp(path, m)[d + 1])}}
    BY <2>1, NamesUpStepwise
  <2> QED
    BY <2>3, <2>4, <2>5 DEF NamesUpShift
<1>4. Nat \subseteq S
  <2> HIDE DEF S
  <2> QED
    BY <1>2, <1>3, NaturalInduction
<1>5. \A d \in 0..(MaxDepth - 1) : d \in Nat /\ d <= MaxDepth - 1
  BY <1>1
<1> QED
  BY <1>4, <1>5

\* The chain of calls from a name down to a symbol, read upwards.
LEMMA CalledIsImpacted ==
    ASSUME NEW path, NEW n
    PROVE  \A d \in 0..MaxDepth : \A s \in SymbolsDown(path, n)[d] : n \in NamesUp(path, s.name)[d]
<1>1. MaxDepth \in Nat
  BY NavigationAssumption
<1> DEFINE Back(d) == \A s \in SymbolsDown(path, n)[d] : n \in NamesUp(path, s.name)[d]
           S == {d \in Nat : d <= MaxDepth => Back(d)}
<1>2. 0 \in S
  BY SymbolsDownStepwise, NamesUpStepwise
<1>3. ASSUME NEW d \in Nat, d \in S
      PROVE  d + 1 \in S
  <2> SUFFICES ASSUME d + 1 <= MaxDepth, NEW s \in SymbolsDown(path, n)[d + 1]
               PROVE  n \in NamesUp(path, s.name)[d + 1]
    OBVIOUS
  <2>1. d <= MaxDepth /\ d + 1 \in 1..MaxDepth /\ d + 1 - 1 = d /\ d \in 0..(MaxDepth - 1)
        /\ 1 \in 1..MaxDepth /\ 1 - 1 = 0
    BY <1>1
  <2>2. CalledBy(s, SymbolsDown(path, n)[d], n)
    BY <2>1, SymbolsDownStepwise
  <2>3. PICK x \in SymbolsDown(path, n)[d] : s.name \in CalledIn(x) \ {x.name, n}
    BY <2>2 DEF CalledBy
  <2>4. n \in NamesUp(path, x.name)[d]
    BY <1>3, <2>1, <2>3
  <2>5. x \in SymbolsFor(path)
    <3>1. CASE d = 0
      BY <2>3, <3>1, SymbolsDownStepwise
    <3>2. CASE d # 0
      <4>1. d \in 1..MaxDepth
        BY <2>1, <3>2
      <4> QED
        BY <2>3, <4>1, SymbolsDownStepwise
    <3> QED
      BY <3>1, <3>2
  <2>6. MentionsOf(x, {s.name})
    BY <2>3 DEF MentionsOf, MentionedIn, CalledIn
  <2>7. x.name \in NamesUp(path, s.name)[1]
    <3>1. NamesUp(path, s.name)[1] =
              {t.name : t \in {y \in SymbolsFor(path) : MentionsOf(y, {s.name})}}
      <4>1. NamesUp(path, s.name)[0] = {s.name}
        BY NamesUpStepwise
      <4>2. NamesUp(path, s.name)[1] =
                {t.name : t \in {y \in SymbolsFor(path) : MentionsOf(y, NamesUp(path, s.name)[1 - 1])}}
        BY <2>1, NamesUpStepwise
      <4>3. \A y : MentionsOf(y, NamesUp(path, s.name)[1 - 1]) <=> MentionsOf(y, {s.name})
        BY <2>1, <4>1
      <4> QED
        BY <4>2, <4>3
    <3> QED
      BY <2>5, <2>6, <3>1
  <2> QED
    BY <2>1, <2>4, <2>7, OneMoreMention DEF NamesUpShift
<1>4. Nat \subseteq S
  <2> HIDE DEF S
  <2> QED
    BY <1>2, <1>3, NaturalInduction
<1>5. \A d \in 0..MaxDepth : d \in Nat /\ d <= MaxDepth
  BY <1>1
<1> QED
  BY <1>4, <1>5

LEMMA ReachExact == ReachIsExact
<1> SUFFICES ASSUME NEW path \in Files \cup {NoFile}, NEW n \in Names, NEW s \in SymbolsFor(path)
             PROVE  /\ \A d \in 1..MaxDepth :
                        /\ Found(s, d) \in Impact(path, n) <=> FirstUp(path, n, s, d)
                        /\ Found(s, d) \in Callgraph(path, n) <=> FirstDown(path, n, s, d)
                    /\ s \in SeenIn(Callgraph(path, n)) =>
                            \E x \in Impact(path, s.name) : x.symbol.name = n
  BY DEF ReachIsExact, FirstUp, FirstDown, UpAt, DownAt, MentionsOf
<1>1. ASSUME s \in SeenIn(Callgraph(path, n))
      PROVE  \E x \in Impact(path, s.name) : x.symbol.name = n
  <2>1. PICK d \in 1..MaxDepth : s \in SymbolsDown(path, n)[d]
    BY <1>1, CallgraphIsExact DEF DownAt
  <2>2. n \in NamesUp(path, s.name)[d]
    BY <2>1, CalledIsImpacted
  <2>3. PICK t \in SymbolsFor(path) : t.name = n /\ UpAt(path, s.name, t, d)
    BY <2>2, NamesUpStepwise DEF UpAt
  <2>4. t \in SeenIn(Impact(path, s.name))
    BY <2>3, ImpactIsExact
  <2> QED
    BY <2>3, <2>4 DEF SeenIn
<1> QED
  BY <1>1, ImpactIsExact, CallgraphIsExact

-----------------------------------------------------------------------------
(* Repositories as they are written *)

NavInv ==
    /\ symbols \subseteq {s \in [file : Files, name : Names, start : Lines, end : Lines] : s.start <= s.end}
    /\ mentions \subseteq [file : Files, line : Lines, name : Names, kind : {"call", "use", "prose"}]

LEMMA NavInitInvariant == NavInit => NavInv
BY DEF NavInit, NavInv

LEMMA NavNextInvariant ==
    ASSUME NavInv, [NavNext]_navVars
    PROVE  NavInv'
<1> USE DEF NavInv
<1>1. ASSUME NEW f \in Files, NEW n \in Names, NEW a \in Lines, NEW b \in Lines, WriteSymbol(f, n, a, b)
      PROVE  NavInv'
  BY <1>1 DEF WriteSymbol
<1>2. ASSUME NEW f \in Files, NEW n \in Names, NEW l \in Lines, NEW k \in {"call", "use", "prose"},
             WriteMention(f, l, n, k)
      PROVE  NavInv'
  BY <1>2 DEF WriteMention
<1>3. CASE UNCHANGED navVars
  BY <1>3 DEF navVars
<1> QED
  BY <1>1, <1>2, <1>3 DEF NavNext

\* A mention in code has a place, and a symbol contains its own declaration.
LEMMA PlacesInCode ==
    ASSUME NavInv
    PROVE  /\ \A m \in InCode : m.file \in Files /\ m.line \in Lines /\ m.name \in Names
           /\ \A s \in symbols : s.file \in Files /\ s.start \in Lines /\ s.name \in Names
           /\ \A s \in symbols : s.start \in s.start..s.end
           /\ \A s \in symbols : /\ Declared(s) \in InCode
                                 /\ Declared(s).file = s.file
                                 /\ Declared(s).line = s.start
                                 /\ Declared(s).name = s.name
<1>1. \A s \in symbols : /\ s.file \in Files /\ s.start \in Lines /\ s.name \in Names
                         /\ s.end \in Lines /\ s.start <= s.end
  BY DEF NavInv
<1>2. \A s \in symbols : s.start \in s.start..s.end
  <2> SUFFICES ASSUME NEW s \in symbols
               PROVE  s.start \in s.start..s.end
    OBVIOUS
  <2>1. s.start \in Nat /\ s.end \in Nat /\ s.start <= s.end
    BY <1>1, NavigationAssumption
  <2> QED
    BY <2>1
<1>3. \A s \in symbols : /\ Declared(s) \in InCode
                         /\ Declared(s).file = s.file
                         /\ Declared(s).line = s.start
                         /\ Declared(s).name = s.name
  BY DEF Declared, InCode
<1>4. \A m \in mentions : m.file \in Files /\ m.line \in Lines /\ m.name \in Names
  BY DEF NavInv
<1>5. \A m \in InCode : m \in mentions \/ \E s \in symbols : m = Declared(s)
  BY DEF InCode
<1> QED
  BY <1>1, <1>2, <1>3, <1>4, <1>5

\* Where no file has more lines with a name than a search returns, it returns
\* all that are in code.
LEMMA CompleteHits ==
    ASSUME NavInv, NEW n \in Names, Complete(n), NEW f \in Files, NEW l \in CodeIdentLinesOf(f, n)
    PROVE  l \in SearchHits(f, n)
<1> DEFINE written == WrittenLines(f, n)
           before == {k \in written : k < l}
<1>1. written \subseteq Lines
  <2> SUFFICES ASSUME NEW m \in InCode \cup mentions
               PROVE  m.line \in Lines
    BY DEF WrittenLines
  <2> QED
    BY PlacesInCode DEF NavInv
<1>2. l \in written
  <2>1. PICK m \in InCode : m.file = f /\ m.name = n /\ m.line = l
    BY DEF CodeIdentLinesOf
  <2>2. n \in Alike[n]
    BY NavigationAssumption
  <2> QED
    BY <2>1, <2>2 DEF WrittenLines
<1>3. IsFiniteSet(written) /\ Cardinality(written) <= MaxHits
  <2>1. IsFiniteSet(written)
    BY <1>1, FS_Subset, NavigationAssumption
  <2> QED
    BY <2>1 DEF Complete
<1> HIDE DEF written
<1>4. before \in SUBSET written /\ l \notin before
  <2>1. l \in Nat
    BY <1>1, <1>2, NavigationAssumption
  <2> QED
    BY <2>1
<1> HIDE DEF before
<1>5. Cardinality(before) < MaxHits
  <2>1. /\ IsFiniteSet(before)
        /\ Cardinality(before) <= Cardinality(written)
        /\ Cardinality(before) = Cardinality(written) => before = written
    BY <1>3, <1>4, FS_Subset
  <2>2. Cardinality(before) # Cardinality(written)
    BY <1>2, <1>4, <2>1
  <2>3. Cardinality(before) \in Nat /\ Cardinality(written) \in Nat /\ MaxHits \in Nat
    BY <1>3, <2>1, FS_CardinalityType, NavigationAssumption
  <2> QED
    BY <1>3, <2>1, <2>2, <2>3
<1> QED
  BY <1>2, <1>5 DEF SearchHits, written, before

RenamedBy(edit, f, m) == IF f \in edit.edits /\ m = edit.name THEN edit.to ELSE m

\* Two renames, one after the other.
LEMMA NameAfterTwo ==
    ASSUME NEW a \in RenameEdits, NEW b \in RenameEdits, NEW f \in Files, NEW m \in Names
    PROVE  NameAfter(<<a, b>>, f, m) = RenamedBy(b, f, RenamedBy(a, f, m))
<1> DEFINE batch == <<a, b>>
           step == [i \in 1..2 |-> [k \in Names |-> RenamedBy(batch[i], f, k)]]
           Right(g) == g = [s \in SUBSET (1..2) |->
                          IF s = {} THEN m ELSE RenamedBy(batch[Max(s)], f, g[s \ {Max(s)}])]
           iter == CHOOSE g : Right(g)
<1>1. Len(batch) = 2 /\ DOMAIN batch = 1..2 /\ batch[1] = a /\ batch[2] = b
  OBVIOUS
<1>2. \A i \in 1..2 : batch[i] \in RenameEdits
  BY <1>1
<1> HIDE DEF batch
<1>3. IsSteps(2, Names, step)
  BY <1>2 DEF IsSteps, RenamedBy, RenameEdits
<1>4. \A k \in Names, i \in 1..2 : step[i][k] = RenamedBy(batch[i], f, k)
  OBVIOUS
<1>5. NameAfter(batch, f, m) = iter[1..2]
  BY <1>1 DEF NameAfter, FoldLeft, MapThenFoldSet, RenamedBy
<1> HIDE DEF step, iter
<1>6. PICK h \in [SUBSET (1..2) -> Names] : Collects(2, m, step, h)
  BY <1>3, RecursionOnPositions DEF HasCollection
<1>7. Right(h)
  <2>1. ASSUME NEW s \in SUBSET (1..2), s # {}
        PROVE  h[s] = RenamedBy(batch[Max(s)], f, h[s \ {Max(s)}])
    BY <1>4, <1>6, <2>1, MaxOfPositions DEF Collects
  <2>2. h[{}] = m
    BY <1>6 DEF Collects
  <2> QED
    BY <2>1, <2>2
<1>8. Right(iter)
  BY <1>7 DEF iter
<1>9. Follows(2, Names, m, step, iter)
  <2>1. iter[{}] = m
    BY <1>8
  <2>2. ASSUME NEW s \in SUBSET (1..2), s # {}, iter[s \ {Max(s)}] \in Names
        PROVE  iter[s] = step[Max(s)][iter[s \ {Max(s)}]]
    BY <1>4, <1>8, <2>2, MaxOfPositions
  <2> QED
    BY <2>1, <2>2 DEF Follows
<1>10. PICK g \in [0..2 -> Names] : Iterates(2, m, step, g) /\ g[2] = iter[1..2]
  <2>1. EndsLike(2, Names, m, step, iter[1..2])
    BY <1>3, <1>9, FoldByPrefixes
  <2> QED
    BY <2>1 DEF EndsLike
<1>11. /\ g[1] = RenamedBy(a, f, m)
       /\ g[2] = RenamedBy(b, f, g[1])
  <2>1. g[0] = m /\ g[1] = step[1][g[1 - 1]] /\ g[2] = step[2][g[2 - 1]]
    BY <1>10 DEF Iterates
  <2>2. 1 - 1 = 0 /\ 2 - 1 = 1 /\ g[1] \in Names
    OBVIOUS
  <2> QED
    BY <1>1, <1>4, <2>1, <2>2
<1> QED
  BY <1>5, <1>10, <1>11 DEF batch

LEMMA ProtectedByGuards ==
    ASSUME NavInv
    PROVE  GuardsProtect
<1>1. ASSUME NEW s \in symbols, MayDelete(s.name), Complete(s.name),
             NEW m \in InCode, m.name = s.name, ~Inside(m, s)
      PROVE  \E t \in symbols \ {s} : t.name = m.name
  <2>1. m.file \in Files /\ m.line \in Lines
    BY PlacesInCode
  <2>2. m.line \in CodeIdentLinesOf(m.file, s.name) \cap SearchHits(m.file, s.name)
    <3>1. m.line \in CodeIdentLinesOf(m.file, s.name)
      BY <1>1 DEF CodeIdentLinesOf
    <3> QED
      BY <1>1, <2>1, <3>1, CompleteHits, PlacesInCode
  <2>3. m.line \in DefLines(m.file, s.name)
    <3>1. <<m.file, m.line>> \notin ExternalRefs(s.name)
      BY <1>1 DEF MayDelete
    <3> QED
      BY <2>1, <2>2, <3>1 DEF ExternalRefs
  <2>4. PICK t \in symbols : t.file = m.file /\ t.name = s.name /\ t.start = m.line
    BY <2>3 DEF DefLines
  <2>5. t # s
    BY <1>1, <2>4, PlacesInCode DEF Inside
  <2> QED
    BY <1>1, <2>4, <2>5
<1>2. ASSUME NEW s \in symbols, NEW t \in symbols, s.name # t.name,
             NEW a \in RenameEdits, NEW b \in RenameEdits, MayRename(a), MayRename(b),
             Together(a, s, t), Together(b, s, t), NoRace(a, b)
      PROVE  KeptApart(a, b, s, t)
  <2>1. /\ s.file \in Files /\ t.file \in Files
        /\ s.name \in Names /\ t.name \in Names
    BY PlacesInCode
  <2>2. /\ NameAfter(<<a, b>>, s.file, s.name) = RenamedBy(b, s.file, RenamedBy(a, s.file, s.name))
        /\ NameAfter(<<a, b>>, t.file, t.name) = RenamedBy(b, t.file, RenamedBy(a, t.file, t.name))
    BY <2>1, NameAfterTwo
  <2>3. /\ s.file \in a.edits => a.to # s.name
        /\ t.file \in a.edits => a.to # t.name
        /\ s.file \in b.edits => b.to # s.name
        /\ t.file \in b.edits => b.to # t.name
    BY <1>2 DEF MayRename, RenameEdits
  <2>4. RenamedBy(b, s.file, RenamedBy(a, s.file, s.name)) # RenamedBy(b, t.file, RenamedBy(a, t.file, t.name))
    BY <1>2, <2>3 DEF RenamedBy, Together, NoRace
  <2> QED
    BY <2>2, <2>4 DEF KeptApart
<1> QED
  BY <1>1, <1>2 DEF GuardsProtect

\* Impact and call graph are complete, at least depths, to every bound.
THEOREM ReachAlwaysExact == NavSpec => []ReachIsExact
BY ReachExact, PTL

\* Deletes that the guard allows leave nothing in code that means the symbol,
\* where the search behind the guard sees every line of it; and two renames of a
\* batch that do not race keep different names apart where they reach together.
THEOREM GuardsAlwaysProtect == NavSpec => []GuardsProtect
<1>1. NavInv /\ [NavNext]_navVars => NavInv'
  BY NavNextInvariant
<1>2. NavInv => GuardsProtect
  BY ProtectedByGuards
<1> QED
  BY <1>1, <1>2, NavInitInvariant, PTL DEF NavSpec

(***************************************************************************)
(* The anchor of an edit.  The search goes on after each place it finds,   *)
(* and finds them all as no place lies within another; the edit changes no *)
(* end of a line, so that the characters of the other lines stay together. *)
(***************************************************************************)

\* The characters of a text and of what stands for the replacement: strings,
\* but the provers take no literal for one.
Chars == STRING \cup {"X", "a", "b"}

\* What a search from a place finds: the least place where the word is, or one
\* past the end.
LEMMA FindIsLeast ==
    ASSUME NEW t \in Seq(Chars), NEW w \in Seq(Chars), NEW i \in Nat \ {0}
    PROVE  /\ Find(t, i, w) \in Nat
           /\ Find(t, i, w) <= Len(t) => Find(t, i, w) >= i /\ Matches(t, Find(t, i, w), w)
           /\ \A k \in i..Len(t) : Matches(t, k, w) => Find(t, i, w) <= k
           /\ Find(t, i, w) > Len(t) => \A k \in i..Len(t) : ~Matches(t, k, w)
<1> DEFINE n == Len(t)
           S == {k \in i..n : Matches(t, k, w)} \cup {n + 1}
           p == Min(S)
<1>1. n \in Nat
  BY LenProperties
<1>2. p \in S /\ \A k \in S : p <= k
  <2>1. S \in SUBSET Nat /\ S # {}
    BY <1>1
  <2> HIDE DEF S
  <2> QED
    BY <2>1, MinIsIn
<1>3. Find(t, i, w) = p
  BY DEF Find
<1> HIDE DEF p
<1>4. \A k \in i..n : Matches(t, k, w) => k \in S
  OBVIOUS
<1>5. p \in Nat /\ (p <= n => p >= i /\ Matches(t, p, w))
  BY <1>1, <1>2
<1> HIDE DEF S
<1>6. \A k \in i..n : Matches(t, k, w) => p <= k
  BY <1>2, <1>4
<1> QED
  BY <1>1, <1>3, <1>5, <1>6 DEF n

\* A word that does not overlap itself is nowhere within one of its places.
LEMMA ApartFromItself ==
    ASSUME NEW t \in Seq(Chars), NEW w \in Seq(Chars), ~SelfOverlaps(w),
           NEW p \in Nat \ {0}, NEW q \in Nat \ {0}, Matches(t, p, w), Matches(t, q, w), p < q
    PROVE  p + Len(w) <= q
<1> SUFFICES ASSUME q < p + Len(w)
             PROVE  FALSE
  <2>1. Len(w) \in Nat
    BY LenProperties
  <2> QED
    BY <2>1
<1> DEFINE m == Len(w)
           k == p + m - q
<1>1. m \in Nat /\ DOMAIN w = 1..m
  BY LenProperties
<1>2. k \in 1..(m - 1)
  BY <1>1
<1>3. /\ \A j \in 1..m : t[p + j - 1] = w[j]
      /\ \A j \in 1..m : t[q + j - 1] = w[j]
  BY <1>1 DEF Matches
<1>4. \A j \in 1..k : w[1 + j - 1] = w[m - k + 1 + j - 1]
  <2> SUFFICES ASSUME NEW j \in 1..k
               PROVE  w[1 + j - 1] = w[m - k + 1 + j - 1]
    OBVIOUS
  <2>1. /\ j \in 1..m /\ m - k + j \in 1..m /\ q + j - 1 = p + (m - k + j) - 1
        /\ 1 + j - 1 = j /\ m - k + 1 + j - 1 = m - k + j
    BY <1>1, <1>2
  <2> HIDE DEF k, m
  <2> QED
    BY <1>3, <2>1
<1> HIDE DEF k
<1>5. SameParts(w, 1, k, w, m - k + 1, m, k)
  BY <1>1, <1>2, <1>4 DEF SameParts
<1>6. Part(w, 1, k) = Part(w, m - k + 1, m)
  BY <1>5, EqualParts
<1> QED
  BY <1>2, <1>6 DEF SelfOverlaps, Part

\* The places of a word from one place on.
PlacesFrom(t, w, i) == {k \in i..Len(t) : Matches(t, k, w)}

\* The search that goes on after each place finds them all.
LEMMA HitsAreAll ==
    ASSUME NEW t \in Seq(Chars), NEW w \in Seq(Chars), w # <<>>, ~SelfOverlaps(w),
           NEW lo, NEW hi
    PROVE  AnchorHits(t, w, lo, hi) = {p \in PlacesFrom(t, w, 1) : LineAt(t, p) \in lo..hi}
<1> DEFINE n == Len(t)
           m == Len(w)
           N == n + m + 1
           step(f) == [i \in 1..N |-> IF Find(t, i, w) > n THEN {}
                                      ELSE {Find(t, i, w)} \cup f[Find(t, i, w) + m]]
           found == CHOOSE f : f = step(f)
           places == [i \in 1..N |-> PlacesFrom(t, w, i)]
<1>1. n \in Nat /\ m \in Nat /\ m > 0 /\ N \in Nat
  <2>1. Len(t) \in Nat /\ Len(w) \in Nat /\ Len(w) # 0
    BY EmptySeq, LenProperties
  <2> QED
    BY <2>1
<1>2. ASSUME NEW i \in 1..N
      PROVE  /\ Find(t, i, w) \in Nat
             /\ Find(t, i, w) > n => PlacesFrom(t, w, i) = {}
             /\ Find(t, i, w) <= n =>
                    /\ Find(t, i, w) + m \in 1..N /\ i < Find(t, i, w) + m
                    /\ PlacesFrom(t, w, i) = {Find(t, i, w)} \cup PlacesFrom(t, w, Find(t, i, w) + m)
  <2> DEFINE p == Find(t, i, w)
  <2>1. i \in Nat \ {0}
    BY <1>1
  <2>2. /\ p \in Nat
        /\ p <= n => p >= i /\ Matches(t, p, w)
        /\ \A k \in i..n : Matches(t, k, w) => p <= k
        /\ p > n => \A k \in i..n : ~Matches(t, k, w)
    BY <2>1, FindIsLeast
  <2> HIDE DEF p
  <2>3. p > n => PlacesFrom(t, w, i) = {}
    BY <2>2 DEF PlacesFrom
  <2>4. ASSUME p <= n
        PROVE  /\ p + m \in 1..N /\ i < p + m
               /\ PlacesFrom(t, w, i) = {p} \cup PlacesFrom(t, w, p + m)
    <3>1. p \in i..n /\ Matches(t, p, w) /\ p \in Nat \ {0}
      BY <1>1, <2>1, <2>2, <2>4
    <3>2. p + m \in 1..N /\ i < p + m
      BY <1>1, <2>1, <3>1
    <3>3. \A k \in i..n : Matches(t, k, w) => k = p \/ k \in (p + m)..n
      <4> SUFFICES ASSUME NEW k \in i..n, Matches(t, k, w), k # p
                   PROVE  k \in (p + m)..n
        OBVIOUS
      <4>1. p < k /\ k \in Nat \ {0}
        BY <2>1, <2>2
      <4>2. p + m <= k
        BY <3>1, <4>1, ApartFromItself
      <4> QED
        BY <1>1, <4>1, <4>2
    <3>4. \A k \in (p + m)..n : k \in i..n
      BY <1>1, <2>1, <3>1
    <3>5. PlacesFrom(t, w, i) = {p} \cup PlacesFrom(t, w, p + m)
      BY <3>1, <3>3, <3>4 DEF PlacesFrom
    <3> QED
      BY <3>2, <3>5
  <2> QED
    BY <2>2, <2>3, <2>4 DEF p
<1>3. AnchorHits(t, w, lo, hi) = {p \in found[1] : LineAt(t, p) \in lo..hi}
  BY DEF AnchorHits
<1> HIDE DEF n, m, N
<1>4. places = step(places)
  <2>1. \A i \in 1..N : PlacesFrom(t, w, i) = IF Find(t, i, w) > n THEN {}
                            ELSE {Find(t, i, w)} \cup places[Find(t, i, w) + m]
    <3> SUFFICES ASSUME NEW i \in 1..N
                 PROVE  PlacesFrom(t, w, i) = IF Find(t, i, w) > n THEN {}
                            ELSE {Find(t, i, w)} \cup places[Find(t, i, w) + m]
      OBVIOUS
    <3>1. CASE Find(t, i, w) > n
      BY <1>2, <3>1
    <3>2. CASE ~(Find(t, i, w) > n)
      <4>1. Find(t, i, w) <= n
        BY <1>1, <1>2, <3>2
      <4> QED
        BY <1>2, <3>2, <4>1
    <3> QED
      BY <3>1, <3>2
  <2> QED
    BY <2>1
<1>5. found = step(found)
  <2> HIDE DEF places, step
  <2> QED
    BY <1>4
<1> HIDE DEF found
<1>6. \A i \in 1..N : found[i] = IF Find(t, i, w) > n THEN {}
                                 ELSE {Find(t, i, w)} \cup found[Find(t, i, w) + m]
  BY <1>5, Zenon
<1> HIDE DEF step, places
<1>7. \A i \in 1..N : found[i] = PlacesFrom(t, w, i)
  <2> DEFINE D == {i \in 1..N : found[i] # PlacesFrom(t, w, i)}
  <2> SUFFICES ASSUME D # {}
               PROVE  FALSE
    OBVIOUS
  <2>1. D \in SUBSET (0..N)
    BY <1>1
  <2>2. PICK i \in D : \A k \in D : k <= i
    <3> HIDE DEF D
    <3> QED
      BY <1>1, <2>1, GreatestNatural
  <2>3. i \in 1..N /\ found[i] # PlacesFrom(t, w, i)
    OBVIOUS
  <2>4. CASE Find(t, i, w) > n
    BY <1>2, <1>6, <2>3, <2>4
  <2>5. CASE ~(Find(t, i, w) > n)
    <3> DEFINE j == Find(t, i, w) + m
    <3>1. Find(t, i, w) <= n
      BY <1>1, <1>2, <2>3, <2>5
    <3>2. j \in 1..N /\ i < j /\ PlacesFrom(t, w, i) = {Find(t, i, w)} \cup PlacesFrom(t, w, j)
      BY <1>2, <2>3, <3>1
    <3>3. found[i] = {Find(t, i, w)} \cup found[j]
      BY <1>6, <2>3, <2>5
    <3> HIDE DEF j
    <3>4. j \notin D
      BY <1>1, <2>2, <2>3, <3>2
    <3> QED
      BY <2>3, <3>2, <3>3, <3>4
  <2> QED
    BY <2>4, <2>5
<1>8. 1 \in 1..N
  BY <1>1 DEF N
<1> QED
  BY <1>3, <1>7, <1>8

\* Where lines end before a place.
Ends(t, i) == {k \in 1..(i - 1) : t[k] = "\n"}

\* Lines are counted by numbers, one more after each end of a line.
LEMMA LinesCount ==
    ASSUME NEW t, NEW i \in Nat \ {0}
    PROVE  /\ LineAt(t, i) \in Nat \ {0}
           /\ t[i] = "\n" => LineAt(t, i + 1) = LineAt(t, i) + 1
           /\ t[i] # "\n" => LineAt(t, i + 1) = LineAt(t, i)
<1>1. IsFiniteSet(Ends(t, i))
  <2>1. 1 \in Int /\ i - 1 \in Int
    OBVIOUS
  <2>2. IsFiniteSet(1..(i - 1))
    BY <2>1, FS_Interval
  <2>3. Ends(t, i) \in SUBSET (1..(i - 1))
    BY DEF Ends
  <2> QED
    BY <2>2, <2>3, FS_Subset
<1>2. LineAt(t, i) = 1 + Cardinality(Ends(t, i)) /\ LineAt(t, i + 1) = 1 + Cardinality(Ends(t, i + 1))
  BY DEF LineAt, Ends
<1>3. Cardinality(Ends(t, i)) \in Nat
  BY <1>1, FS_CardinalityType
<1>4. ASSUME t[i] = "\n"
      PROVE  Cardinality(Ends(t, i + 1)) = Cardinality(Ends(t, i)) + 1
  <2>1. Ends(t, i + 1) = Ends(t, i) \cup {i} /\ i \notin Ends(t, i)
    BY <1>4 DEF Ends
  <2> QED
    BY <1>1, <2>1, FS_AddElement
<1>5. ASSUME t[i] # "\n"
      PROVE  Ends(t, i + 1) = Ends(t, i)
  BY <1>5 DEF Ends
<1> QED
  BY <1>2, <1>3, <1>4, <1>5

\* A later place is on no earlier line.
LEMMA LinesRise ==
    ASSUME NEW t, NEW i \in Nat \ {0}, NEW j \in Nat \ {0}, i <= j
    PROVE  LineAt(t, i) <= LineAt(t, j)
<1>1. IsFiniteSet(Ends(t, j)) /\ Ends(t, i) \in SUBSET Ends(t, j)
  <2>1. 1 \in Int /\ j - 1 \in Int
    OBVIOUS
  <2>2. IsFiniteSet(1..(j - 1))
    BY <2>1, FS_Interval
  <2>3. Ends(t, j) \in SUBSET (1..(j - 1)) /\ Ends(t, i) \in SUBSET Ends(t, j)
    BY DEF Ends
  <2> QED
    BY <2>2, <2>3, FS_Subset
<1>2. /\ Cardinality(Ends(t, i)) <= Cardinality(Ends(t, j))
      /\ Cardinality(Ends(t, i)) \in Nat /\ Cardinality(Ends(t, j)) \in Nat
  BY <1>1, FS_Subset, FS_CardinalityType
<1>3. LineAt(t, i) = 1 + Cardinality(Ends(t, i)) /\ LineAt(t, j) = 1 + Cardinality(Ends(t, j))
  BY DEF LineAt, Ends
<1> QED
  BY <1>2, <1>3

\* new is t with the m characters from p on replaced by one that, like them,
\* ends no line.
ReplacedAt(t, new, p, m) ==
    /\ t \in Seq(Chars) /\ new \in Seq(Chars) /\ m \in Nat \ {0} /\ p \in Nat \ {0}
    /\ p + m - 1 <= Len(t) /\ Len(new) = Len(t) - m + 1
    /\ \A k \in 1..(p - 1) : new[k] = t[k]
    /\ \A k \in (p + 1)..Len(new) : new[k] = t[k + m - 1]
    /\ new[p] # "\n" /\ \A k \in p..(p + m - 1) : t[k] # "\n"

\* Before the place the lines are the same, and after it those of the
\* characters they were before.
LEMMA LinesStay ==
    ASSUME NEW t, NEW new, NEW p, NEW m, ReplacedAt(t, new, p, m)
    PROVE  /\ \A k \in 1..p : LineAt(new, k) = LineAt(t, k)
           /\ \A k \in p..(p + m) : LineAt(t, k) = LineAt(t, p)
           /\ \A k \in (p + 1)..(Len(new) + 1) : LineAt(new, k) = LineAt(t, k + m - 1)
<1>1. /\ p \in Nat \ {0} /\ m \in Nat \ {0} /\ Len(t) \in Nat /\ Len(new) \in Nat
      /\ p + m - 1 <= Len(t) /\ Len(new) = Len(t) - m + 1
  BY LenProperties DEF ReplacedAt
<1>2. \A k \in 1..p : LineAt(new, k) = LineAt(t, k)
  <2> SUFFICES ASSUME NEW k \in 1..p
               PROVE  LineAt(new, k) = LineAt(t, k)
    OBVIOUS
  <2>1. \A j \in 1..(k - 1) : new[j] = t[j]
    BY <1>1 DEF ReplacedAt
  <2>2. {j \in 1..(k - 1) : new[j] = "\n"} = {j \in 1..(k - 1) : t[j] = "\n"}
    BY <2>1
  <2> QED
    BY <2>2 DEF LineAt
<1>3. \A k \in p..(p + m) : LineAt(t, k) = LineAt(t, p)
  <2> SUFFICES ASSUME NEW k \in p..(p + m)
               PROVE  LineAt(t, k) = LineAt(t, p)
    OBVIOUS
  <2>1. \A j \in p..(k - 1) : t[j] # "\n"
    BY <1>1 DEF ReplacedAt
  <2>2. \A j \in 1..(k - 1) : j \in 1..(p - 1) \/ j \in p..(k - 1)
    BY <1>1
  <2>3. \A j \in 1..(p - 1) : j \in 1..(k - 1)
    BY <1>1
  <2>4. {j \in 1..(k - 1) : t[j] = "\n"} = {j \in 1..(p - 1) : t[j] = "\n"}
    BY <2>1, <2>2, <2>3
  <2> QED
    BY <2>4 DEF LineAt
<1>4. \A k \in (p + 1)..(Len(new) + 1) : LineAt(new, k) = LineAt(t, k + m - 1)
  <2> DEFINE Same == {j \in Nat : p + 1 + j <= Len(new) + 1
                                    => LineAt(new, p + 1 + j) = LineAt(t, p + m + j)}
  <2>1. 0 \in Same
    <3>1. LineAt(new, p + 1) = LineAt(new, p)
      BY <1>1, LinesCount DEF ReplacedAt
    <3>2. LineAt(new, p) = LineAt(t, p) /\ LineAt(t, p + m) = LineAt(t, p)
      BY <1>1, <1>2, <1>3
    <3>3. p + 1 + 0 = p + 1 /\ p + m + 0 = p + m
      BY <1>1
    <3> QED
      BY <3>1, <3>2, <3>3
  <2>2. ASSUME NEW j \in Nat, j \in Same
        PROVE  j + 1 \in Same
    <3> SUFFICES ASSUME p + 1 + (j + 1) <= Len(new) + 1
                 PROVE  LineAt(new, p + 1 + (j + 1)) = LineAt(t, p + m + (j + 1))
      OBVIOUS
    <3> DEFINE x == p + 1 + j
               y == p + m + j
    <3>1. LineAt(new, x) = LineAt(t, y)
      BY <1>1, <2>2
    <3>2. x \in (p + 1)..Len(new) /\ y = x + m - 1 /\ x \in Nat \ {0} /\ y \in Nat \ {0}
      BY <1>1
    <3>3. new[x] = t[y]
      BY <3>2 DEF ReplacedAt
    <3>4. x + 1 = p + 1 + (j + 1) /\ y + 1 = p + m + (j + 1)
      BY <1>1
    <3> HIDE DEF x, y
    <3>5. /\ LineAt(new, x) \in Nat \ {0} /\ LineAt(t, y) \in Nat \ {0}
          /\ new[x] = "\n" => LineAt(new, x + 1) = LineAt(new, x) + 1
          /\ new[x] # "\n" => LineAt(new, x + 1) = LineAt(new, x)
          /\ t[y] = "\n" => LineAt(t, y + 1) = LineAt(t, y) + 1
          /\ t[y] # "\n" => LineAt(t, y + 1) = LineAt(t, y)
      BY <3>2, LinesCount
    <3>6. LineAt(new, x + 1) = LineAt(t, y + 1)
      BY <3>1, <3>3, <3>5
    <3> QED
      BY <3>4, <3>6
  <2> HIDE DEF Same
  <2>3. Nat \subseteq Same
    BY <2>1, <2>2, NaturalInduction
  <2> SUFFICES ASSUME NEW k \in (p + 1)..(Len(new) + 1)
               PROVE  LineAt(new, k) = LineAt(t, k + m - 1)
    OBVIOUS
  <2> DEFINE j == k - (p + 1)
  <2>4. j \in Nat /\ p + 1 + j = k /\ p + m + j = k + m - 1 /\ k <= Len(new) + 1
    BY <1>1
  <2> HIDE DEF j
  <2>5. p + 1 + j <= Len(new) + 1 => LineAt(new, p + 1 + j) = LineAt(t, p + m + j)
    BY <2>3, <2>4 DEF Same
  <2> QED
    BY <2>4, <2>5
<1> QED
  BY <1>2, <1>3, <1>4

\* u has at S, d places further on, what s has at S and between.
SameAt(s, u, S, T, d, c, e) ==
    /\ s \in Seq(Chars) /\ u \in Seq(Chars) /\ d \in Nat /\ c \in Nat /\ e \in Nat
    /\ S \in SUBSET (c..e) /\ T = {k + d : k \in S}
    /\ \A k \in c..e : k \in 1..Len(s) /\ k + d \in 1..Len(u) /\ u[k + d] = s[k]

\* Then both select the same there.
LEMMA SelectionsAgree ==
    ASSUME NEW s, NEW u, NEW S, NEW T, NEW d, NEW c, NEW e, SameAt(s, u, S, T, d, c, e)
    PROVE  SelectSeqAt(s, S) = SelectSeqAt(u, T)
<1>1. CASE S = {}
  <2>1. T = {}
    BY <1>1 DEF SameAt
  <2> QED
    BY <1>1, <2>1 DEF SelectSeqAt
<1>2. CASE S # {}
  <2> DEFINE a == Min(S)
             b == Max(S)
  <2>1. /\ d \in Nat /\ c \in Nat /\ e \in Nat /\ S \in SUBSET (c..e) /\ T = {k + d : k \in S}
        /\ Len(s) \in Nat /\ Len(u) \in Nat
    BY LenProperties DEF SameAt
  <2>2. a \in S /\ b \in S /\ \A k \in S : a <= k /\ k <= b
    <3>1. S \in SUBSET Nat /\ S \in SUBSET (0..e)
      BY <2>1
    <3> QED
      BY <1>2, <2>1, <3>1, MinIsIn, MaxIsIn
  <2> HIDE DEF a, b
  <2>3. Min(T) = a + d /\ Max(T) = b + d
    <3>1. /\ T \in SUBSET Int /\ a + d \in T /\ b + d \in T
          /\ \A k \in T : a + d <= k /\ k <= b + d
      BY <2>1, <2>2
    <3> QED
      BY <3>1, LeastIsMin, GreatestIsMax
  <2>4. a \in c..e /\ b \in c..e /\ a <= b
    BY <2>1, <2>2
  <2> DEFINE n == b - a + 1
             x == a + d
             y == b + d
  <2>5. /\ n \in Nat
        /\ a \in 1..(Len(s) + 1) /\ b = a + n - 1 /\ b <= Len(s)
        /\ x \in 1..(Len(u) + 1) /\ y = x + n - 1 /\ y <= Len(u)
    <3>1. a \in 1..Len(s) /\ b \in 1..Len(s) /\ a + d \in 1..Len(u) /\ b + d \in 1..Len(u)
      BY <2>4 DEF SameAt
    <3> QED
      BY <2>1, <2>4, <3>1
  <2>6. \A i \in 1..n : s[a + i - 1] = u[x + i - 1]
    <3> SUFFICES ASSUME NEW i \in 1..n
                 PROVE  s[a + i - 1] = u[x + i - 1]
      OBVIOUS
    <3>1. a + i - 1 \in c..e /\ a + i - 1 + d = x + i - 1
      BY <2>1, <2>4
    <3> HIDE DEF x
    <3> QED
      BY <3>1 DEF SameAt
  <2> HIDE DEF n, x, y
  <2>7. SameParts(s, a, b, u, x, y, n)
    BY <2>5, <2>6 DEF SameParts
  <2>8. Part(s, a, b) = Part(u, x, y)
    BY <2>7, EqualParts DEF SameAt
  <2>9. T # {}
    BY <1>2, <2>1
  <2> QED
    BY <1>2, <2>3, <2>8, <2>9 DEF SelectSeqAt, Part, x, y, a, b
<1> QED
  BY <1>1, <1>2

\* The characters of a line.
LineSet(t, n) == {p \in DOMAIN t : LineAt(t, p) = n}

\* The other lines are as they were.
LEMMA OtherLinesStay ==
    ASSUME NEW t, NEW new, NEW p, NEW m, ReplacedAt(t, new, p, m),
           NEW n \in Nat, n # LineAt(t, p)
    PROVE  SelectSeqAt(new, LineSet(new, n)) = SelectSeqAt(t, LineSet(t, n))
<1> DEFINE S == LineSet(new, n)
           T == LineSet(t, n)
           L == LineAt(t, p)
<1>1. /\ p \in Nat \ {0} /\ m \in Nat \ {0} /\ Len(t) \in Nat /\ Len(new) \in Nat
      /\ p + m - 1 <= Len(t) /\ Len(new) = Len(t) - m + 1
      /\ DOMAIN t = 1..Len(t) /\ DOMAIN new = 1..Len(new)
  BY LenProperties DEF ReplacedAt
<1>2. /\ \A k \in 1..p : LineAt(new, k) = LineAt(t, k)
      /\ \A k \in p..(p + m) : LineAt(t, k) = L
      /\ \A k \in (p + 1)..(Len(new) + 1) : LineAt(new, k) = LineAt(t, k + m - 1)
  BY LinesStay
<1>3. /\ \A k \in Nat \ {0} : LineAt(t, k) \in Nat /\ LineAt(new, k) \in Nat
      /\ \A j, k \in Nat \ {0} : j <= k => LineAt(t, j) <= LineAt(t, k)
      /\ \A j, k \in Nat \ {0} : j <= k => LineAt(new, j) <= LineAt(new, k)
  BY LinesCount, LinesRise
<1>4. L \in Nat /\ LineAt(new, p) = L
  BY <1>1, <1>2, <1>3
<1>5. CASE n < L
  <2>1. /\ \A k \in S : k \in 1..(p - 1) /\ LineAt(t, k) = n
        /\ \A k \in T : k \in 1..(p - 1) /\ LineAt(t, k) = n
    <3>1. ASSUME NEW k \in S
          PROVE  k \in 1..(p - 1) /\ LineAt(t, k) = n
      <4>1. k \in 1..Len(new) /\ LineAt(new, k) = n
        BY <1>1 DEF LineSet
      <4>2. ~(p <= k)
        BY <1>1, <1>3, <1>4, <1>5, <4>1
      <4>3. k \in 1..(p - 1) /\ k \in 1..p
        BY <1>1, <4>1, <4>2
      <4> QED
        BY <1>2, <4>1, <4>3
    <3>2. ASSUME NEW k \in T
          PROVE  k \in 1..(p - 1) /\ LineAt(t, k) = n
      <4>1. k \in 1..Len(t) /\ LineAt(t, k) = n
        BY <1>1 DEF LineSet
      <4>2. ~(p <= k)
        BY <1>1, <1>3, <1>4, <1>5, <4>1
      <4> QED
        BY <1>1, <4>1, <4>2
    <3> QED
      BY <3>1, <3>2
  <2>2. \A k \in 1..(p - 1) : /\ k \in 1..p /\ k \in 1..Len(new) /\ k \in 1..Len(t)
                              /\ k + 0 = k /\ new[k] = t[k] /\ LineAt(new, k) = LineAt(t, k)
    BY <1>1, <1>2 DEF ReplacedAt
  <2>3. S = T
    <3>1. \A k \in S : k \in T
      BY <1>1, <2>1, <2>2 DEF LineSet
    <3>2. \A k \in T : k \in S
      BY <1>1, <2>1, <2>2 DEF LineSet
    <3> QED
      BY <3>1, <3>2
  <2> HIDE DEF S, T
  <2>4. T = {k + 0 : k \in S}
    <3>1. \A k \in S : k + 0 = k
      BY <2>1
    <3> QED
      BY <2>3, <3>1
  <2>5. SameAt(new, t, S, T, 0, 1, p - 1)
    <3>1. 0 \in Nat /\ 1 \in Nat /\ p - 1 \in Nat
      BY <1>1
    <3>2. S \in SUBSET (1..(p - 1))
      BY <2>1
    <3> QED
      BY <2>2, <2>4, <3>1, <3>2 DEF SameAt, ReplacedAt
  <2>6. SelectSeqAt(new, S) = SelectSeqAt(t, T)
    BY <2>5, SelectionsAgree
  <2> QED
    BY <2>6 DEF S, T
<1>6. CASE n > L
  <2> DEFINE d == m - 1
  <2>1. \A k \in S : k \in (p + 1)..Len(new) /\ LineAt(t, k + d) = n
    <3> SUFFICES ASSUME NEW k \in S
                 PROVE  k \in (p + 1)..Len(new) /\ LineAt(t, k + d) = n
      OBVIOUS
    <3>1. k \in 1..Len(new) /\ LineAt(new, k) = n
      BY <1>1 DEF LineSet
    <3>2. ~(k <= p)
      <4>1. k \in Nat \ {0}
        BY <3>1
      <4>2. k <= p => LineAt(new, k) <= L
        BY <1>1, <1>3, <1>4, <4>1
      <4> HIDE DEF L
      <4> QED
        BY <1>4, <1>6, <3>1, <4>2
    <3>3. k \in (p + 1)..Len(new) /\ k \in (p + 1)..(Len(new) + 1) /\ k + m - 1 = k + d
      BY <1>1, <3>1, <3>2
    <3> QED
      BY <1>2, <3>1, <3>3
  <2>2. \A k \in T : k - d \in (p + 1)..Len(new) /\ LineAt(t, k) = n /\ k \in Nat
    <3> SUFFICES ASSUME NEW k \in T
                 PROVE  k - d \in (p + 1)..Len(new) /\ LineAt(t, k) = n /\ k \in Nat
      OBVIOUS
    <3>1. k \in 1..Len(t) /\ LineAt(t, k) = n
      BY <1>1 DEF LineSet
    <3>2. ~(k <= p + d)
      <4>1. p + d \in p..(p + m) /\ p + d \in Nat \ {0}
        BY <1>1
      <4>2. LineAt(t, p + d) = L
        BY <1>2, <4>1
      <4> HIDE DEF d
      <4> QED
        BY <1>3, <1>4, <1>6, <3>1, <4>1, <4>2
    <3>3. k - d \in (p + 1)..Len(new)
      BY <1>1, <3>1, <3>2
    <3> QED
      BY <3>1, <3>3
  <2>3. \A k \in (p + 1)..Len(new) : /\ k \in 1..Len(new) /\ k + d \in 1..Len(t)
                                     /\ t[k + d] = new[k] /\ LineAt(new, k) = LineAt(t, k + d)
    <3> SUFFICES ASSUME NEW k \in (p + 1)..Len(new)
                 PROVE  /\ k \in 1..Len(new) /\ k + d \in 1..Len(t)
                        /\ t[k + d] = new[k] /\ LineAt(new, k) = LineAt(t, k + d)
      OBVIOUS
    <3>1. /\ k \in 1..Len(new) /\ k + d \in 1..Len(t) /\ k + m - 1 = k + d
          /\ k \in (p + 1)..(Len(new) + 1)
      BY <1>1
    <3> HIDE DEF d
    <3> QED
      BY <1>2, <3>1 DEF ReplacedAt
  <2>4. T = {k + d : k \in S}
    <3>1. \A k \in S : k + d \in T
      BY <1>1, <2>1, <2>3 DEF LineSet
    <3>2. ASSUME NEW k \in T
          PROVE  \E j \in S : k = j + d
      <4>1. /\ k - d \in (p + 1)..Len(new) /\ LineAt(t, k) = n /\ k \in Nat
            /\ k - d + d = k
        BY <1>1, <2>2
      <4> DEFINE j == k - d
      <4> HIDE DEF d, j
      <4>2. j \in 1..Len(new) /\ LineAt(new, j) = LineAt(t, j + d) /\ j + d = k
        BY <2>3, <4>1 DEF j
      <4>3. j \in S
        BY <1>1, <4>1, <4>2 DEF LineSet
      <4> QED
        BY <4>2, <4>3
    <3> HIDE DEF S, T
    <3> QED
      BY <3>1, <3>2
  <2>5. SameAt(new, t, S, T, d, p + 1, Len(new))
    <3>1. d \in Nat /\ p + 1 \in Nat /\ Len(new) \in Nat
      BY <1>1
    <3>2. S \in SUBSET ((p + 1)..Len(new))
      BY <2>1
    <3> HIDE DEF d, S, T
    <3> QED
      BY <2>3, <2>4, <3>1, <3>2 DEF SameAt, ReplacedAt
  <2> HIDE DEF S, T, d
  <2>6. SelectSeqAt(new, S) = SelectSeqAt(t, T)
    BY <2>5, SelectionsAgree
  <2> QED
    BY <2>6 DEF S, T
<1>7. n < L \/ n > L
  BY <1>4
<1> QED
  BY <1>5, <1>6, <1>7

\* The character of a match, by the word.
LEMMA NoLineEnds ==
    ASSUME NEW t \in Seq(Chars), NEW w \in Seq(Chars), ~Holds(w, <<"\n">>),
           NEW p \in Nat \ {0}, Matches(t, p, w)
    PROVE  \A k \in p..(p + Len(w) - 1) : t[k] # "\n"
<1>1. Len(w) \in Nat /\ DOMAIN w = 1..Len(w)
  BY LenProperties
<1>2. \A i \in 1..Len(w) : w[i] # "\n"
  <2> SUFFICES ASSUME NEW i \in 1..Len(w), w[i] = "\n"
               PROVE  FALSE
    OBVIOUS
  <2> DEFINE one == <<"\n">>
  <2>1. Len(one) = 1 /\ DOMAIN one = 1..1 /\ one[1] = "\n"
    OBVIOUS
  <2>2. \A k \in DOMAIN one : k = 1 /\ i + k - 1 = i
    BY <2>1
  <2>3. i \in 1..(Len(w) + 1) /\ i + 1 - 1 <= Len(w)
    BY <1>1
  <2> HIDE DEF one
  <2>4. Matches(w, i, one)
    BY <2>1, <2>2, <2>3 DEF Matches
  <2> QED
    BY <2>3, <2>4 DEF Holds, one
<1> SUFFICES ASSUME NEW k \in p..(p + Len(w) - 1)
             PROVE  t[k] # "\n"
  OBVIOUS
<1>3. k - p + 1 \in 1..Len(w) /\ p + (k - p + 1) - 1 = k
  BY <1>1
<1> QED
  BY <1>1, <1>2, <1>3 DEF Matches

\* The text with the word at p replaced.
Edited(t, w, p) == SubSeq(t, 1, p - 1) \o <<"X">> \o SubSeq(t, p + Len(w), Len(t))

\* The edit of the only place replaces it.
LEMMA EditReplaces ==
    ASSUME NEW t \in Seq(Chars), NEW w \in Seq(Chars), w # <<>>, ~Holds(w, <<"\n">>),
           NEW p \in 1..Len(t), Matches(t, p, w)
    PROVE  ReplacedAt(t, Edited(t, w, p), p, Len(w)) /\ Edited(t, w, p) # <<>>
<1> DEFINE new == Edited(t, w, p)
           m == Len(w)
           n == Len(t)
           a == SubSeq(t, 1, p - 1)
           x == <<"X">>
           c == SubSeq(t, p + m, n)
           ax == a \o x
<1>1. /\ n \in Nat /\ m \in Nat \ {0} /\ p \in Nat \ {0} /\ p <= n /\ p + m - 1 <= n
  <2>1. Len(t) \in Nat /\ Len(w) \in Nat /\ Len(w) # 0
    BY EmptySeq, LenProperties
  <2> QED
    BY <2>1 DEF Matches
<1>2. \A k \in p..(p + m - 1) : t[k] # "\n"
  BY <1>1, NoLineEnds
<1>3. a \in Seq(Chars) /\ Len(a) = p - 1 /\ \A k \in 1..(p - 1) : a[k] = t[k]
  <2>1. /\ 1 \in 1..(n + 1) /\ p - 1 \in (1 - 1)..n /\ p - 1 - 1 + 1 = p - 1
        /\ \A k \in 1..(p - 1) : 1 + k - 1 = k
    BY <1>1
  <2>2. a \in Seq(Chars) /\ Len(a) = p - 1 - 1 + 1 /\ \A k \in 1..(p - 1 - 1 + 1) : a[k] = t[1 + k - 1]
    BY <2>1, PartOf
  <2> HIDE DEF a
  <2> QED
    BY <2>1, <2>2
<1>4. /\ c \in Seq(Chars) /\ Len(c) = n - (p + m) + 1
      /\ \A k \in 1..(n - (p + m) + 1) : c[k] = t[p + m + k - 1]
  <2>1. p + m \in 1..(n + 1) /\ n \in (p + m - 1)..n
    BY <1>1
  <2> QED
    BY <2>1, PartOf
<1>5. x \in Seq(Chars) /\ Len(x) = 1 /\ x[1] = "X" /\ x[1] # "\n"
  <2>1. "X" # "\n"
    OBVIOUS
  <2>2. x \in Seq(Chars)
    <3>1. "X" \in Chars
      BY DEF Chars
    <3>2. \A e \in Chars : <<e>> \in Seq(Chars)
      OBVIOUS
    <3> QED
      BY <3>1, <3>2
  <2>3. Len(x) = 1 /\ x[1] = "X"
    OBVIOUS
  <2> QED
    BY <2>1, <2>2, <2>3
<1> HIDE DEF m, n, a, x, c, new
<1>6. /\ ax \in Seq(Chars) /\ Len(ax) = Len(a) + Len(x)
      /\ \A k \in 1..(Len(a) + Len(x)) : ax[k] = IF k <= Len(a) THEN a[k] ELSE x[k - Len(a)]
  BY <1>3, <1>5, ConcatProperties
<1> HIDE DEF ax
<1>7. /\ Len(ax) = p /\ ax[p] = "X" /\ \A k \in 1..(p - 1) : ax[k] = t[k]
  <2>1. Len(ax) = p /\ \A k \in 1..p : ax[k] = IF k <= p - 1 THEN a[k] ELSE x[k - (p - 1)]
    BY <1>1, <1>3, <1>5, <1>6
  <2>2. p \in 1..p /\ ~(p <= p - 1) /\ p - (p - 1) = 1 /\ \A k \in 1..(p - 1) : k \in 1..p /\ k <= p - 1
    BY <1>1
  <2> QED
    BY <1>3, <1>5, <2>1, <2>2
<1>8. new = ax \o c
  BY DEF new, Edited, ax, a, x, c, m, n
<1>9. /\ new \in Seq(Chars) /\ Len(new) = Len(ax) + Len(c)
      /\ \A k \in 1..(Len(ax) + Len(c)) : new[k] = IF k <= Len(ax) THEN ax[k] ELSE c[k - Len(ax)]
  <2> DEFINE y == ax \o c
  <2>1. /\ y \in Seq(Chars) /\ Len(y) = Len(ax) + Len(c)
        /\ \A k \in 1..(Len(ax) + Len(c)) : y[k] = IF k <= Len(ax) THEN ax[k] ELSE c[k - Len(ax)]
    BY <1>4, <1>6, ConcatProperties
  <2> HIDE DEF y
  <2> QED
    BY <1>8, <2>1 DEF y
<1>10. Len(new) = n - m + 1 /\ Len(new) \in Nat /\ p <= Len(new)
  BY <1>1, <1>4, <1>7, <1>9
<1>11. \A k \in 1..Len(new) : new[k] = IF k <= p THEN ax[k] ELSE c[k - p]
  BY <1>7, <1>9
<1>12. \A k \in 1..(p - 1) : new[k] = t[k]
  <2>1. \A k \in 1..(p - 1) : k \in 1..Len(new) /\ k <= p
    BY <1>1, <1>10
  <2> QED
    BY <1>7, <1>11, <2>1
<1>13. new[p] # "\n"
  <2>1. p \in 1..Len(new) /\ p <= p
    BY <1>1, <1>10
  <2>2. new[p] = x[1]
    BY <1>5, <1>7, <1>11, <2>1
  <2> QED
    BY <1>5, <2>2
<1>14. \A k \in (p + 1)..Len(new) : new[k] = t[k + m - 1]
  <2> SUFFICES ASSUME NEW k \in (p + 1)..Len(new)
               PROVE  new[k] = t[k + m - 1]
    OBVIOUS
  <2>1. /\ k \in 1..Len(new) /\ ~(k <= p) /\ k - p \in 1..(n - (p + m) + 1)
        /\ p + m + (k - p) - 1 = k + m - 1
    BY <1>1, <1>10
  <2> QED
    BY <1>4, <1>11, <2>1
<1>15. new # <<>>
  BY <1>1, <1>10, EmptySeq, <1>9
<1>16. p + m - 1 <= Len(t) /\ Len(new) = Len(t) - m + 1
  BY <1>1, <1>10 DEF n
<1> QED
  BY <1>1, <1>2, <1>9, <1>12, <1>13, <1>14, <1>15, <1>16 DEF ReplacedAt, m, new

\* The places of the anchor in its scope.
AnchorPlaces(t, w, lo, hi) == {p \in DOMAIN t : Matches(t, p, w) /\ LineAt(t, p) \in lo..hi}

\* An anchored edit is of the one place, and leaves the other lines.
LEMMA AnchoredAtOne ==
    ASSUME NEW t \in Seq(Chars), NEW w \in Seq(Chars), ~SelfOverlaps(w), ~Holds(w, <<"\n">>),
           NEW lo, NEW hi, NEW n \in Nat
    PROVE  /\ (Anchored(t, w, <<"X">>, lo, hi) # NoEdit)
                  = (w # <<>> /\ Cardinality(AnchorPlaces(t, w, lo, hi)) = 1)
           /\ Anchored(t, w, <<"X">>, lo, hi) # NoEdit =>
                  \/ n \in lo..hi
                  \/ SelectSeqAt(Anchored(t, w, <<"X">>, lo, hi),
                                 LineSet(Anchored(t, w, <<"X">>, lo, hi), n))
                        = SelectSeqAt(t, LineSet(t, n))
<1> DEFINE new == Anchored(t, w, <<"X">>, lo, hi)
           S == AnchorPlaces(t, w, lo, hi)
<1>1. CASE w = <<>>
  <2>1. Cardinality({}) # 1
    BY FS_EmptySet
  <2>2. new = NoEdit
    BY <1>1, <2>1 DEF Anchored
  <2> QED
    BY <1>1, <2>2
<1>2. CASE w # <<>>
  <2>1. DOMAIN t = 1..Len(t) /\ Len(t) \in Nat
    BY LenProperties
  <2>2. AnchorHits(t, w, lo, hi) = S
    <3>1. AnchorHits(t, w, lo, hi) = {p \in PlacesFrom(t, w, 1) : LineAt(t, p) \in lo..hi}
      BY <1>2, HitsAreAll
    <3> QED
      BY <2>1, <3>1 DEF PlacesFrom, AnchorPlaces
  <2> HIDE DEF S
  <2>3. CASE Cardinality(S) # 1
    <3>1. new = NoEdit
      BY <1>2, <2>2, <2>3 DEF Anchored
    <3> HIDE DEF new
    <3> QED
      BY <1>2, <2>3, <3>1 DEF new, S
  <2>4. CASE Cardinality(S) = 1
    <3>1. IsFiniteSet(S) /\ S \in SUBSET (1..Len(t))
      <4>1. 1 \in Int /\ Len(t) \in Int
        BY <2>1
      <4>2. S \in SUBSET (1..Len(t))
        BY <2>1 DEF S, AnchorPlaces
      <4> QED
        BY <4>1, <4>2, FS_Interval, FS_Subset
    <3>2. PICK p : S = {p}
      BY <2>4, <3>1, FS_Singleton
    <3>3. p \in 1..Len(t) /\ Matches(t, p, w) /\ LineAt(t, p) \in lo..hi
      <4>1. p \in S
        BY <3>2
      <4> QED
        BY <2>1, <4>1 DEF S, AnchorPlaces
    <3>4. Min(S) = p
      <4>1. S \in SUBSET Int /\ p \in S /\ \A k \in S : p <= k
        BY <3>2, <3>3
      <4> QED
        BY <4>1, LeastIsMin
    <3>5. new = Edited(t, w, p)
      <4>1. S # {}
        BY <3>2
      <4> QED
        BY <1>2, <2>2, <2>4, <3>4, <4>1 DEF Anchored, AnchoredFirst, Edited
    <3> HIDE DEF new
    <3>6. ReplacedAt(t, new, p, Len(w)) /\ new # <<>>
      BY <1>2, <3>3, <3>5, EditReplaces
    <3>7. n \notin lo..hi => SelectSeqAt(new, LineSet(new, n)) = SelectSeqAt(t, LineSet(t, n))
      BY <3>3, <3>6, OtherLinesStay
    <3> QED
      BY <1>2, <2>4, <3>6, <3>7 DEF new, S, NoEdit
  <2> QED
    BY <2>3, <2>4
<1> QED
  BY <1>1, <1>2

\* A request for an anchor is a text.
AnchorInv == task = "anchor" => "anchor" \in DOMAIN Samples /\ request \in Seq(STRING)

LEMMA AnchorInitInvariant == MatchInit => AnchorInv
<1>1. <<>> \in Seq(STRING)
  OBVIOUS
<1> QED
  BY <1>1, MatchingAssumption DEF MatchInit, AnchorInv

LEMMA AnchorNextInvariant == AnchorInv /\ [MatchNext]_matchVars => AnchorInv'
<1> SUFFICES ASSUME AnchorInv, [MatchNext]_matchVars, task' = "anchor"
             PROVE  "anchor" \in DOMAIN Samples /\ request' \in Seq(STRING)
  BY DEF AnchorInv
<1>1. CASE UNCHANGED matchVars
  BY <1>1 DEF AnchorInv, matchVars
<1>2. ASSUME NEW token \in Tokens[task], Extend(token)
      PROVE  "anchor" \in DOMAIN Samples /\ request' \in Seq(STRING)
  <2>1. task = "anchor" /\ request' = Append(request, token)
    BY <1>2 DEF Extend
  <2>2. "anchor" \in DOMAIN Samples /\ request \in Seq(STRING)
    BY <2>1 DEF AnchorInv
  <2>3. token \in STRING
    BY <1>2, <2>1, <2>2, MatchingAssumption
  <2> QED
    BY <2>1, <2>2, <2>3, AppendProperties
<1> QED
  BY <1>1, <1>2 DEF MatchNext

LEMMA OnceWhereAnchored == AnchorInv => AnchoredOnce
<1> SUFFICES ASSUME AnchorInv, task = "anchor", ~SelfOverlaps(request), ~Holds(request, <<"\n">>),
                    NEW t \in Samples[task],
                    NEW lo \in 1..LineAt(t, Len(t) + 1), NEW hi \in 1..LineAt(t, Len(t) + 1),
                    NEW n \in 1..LineAt(t, Len(t) + 1)
             PROVE  LET new == Anchored(t, request, <<"X">>, lo, hi)
                        places == {p \in DOMAIN t : Matches(t, p, request) /\ LineAt(t, p) \in lo..hi}
                        line(x) == SelectSeqAt(x, {p \in DOMAIN x : LineAt(x, p) = n})
                    IN  /\ (new # NoEdit) = (request # <<>> /\ Cardinality(places) = 1)
                        /\ new # NoEdit => n \in lo..hi \/ line(new) = line(t)
  BY DEF AnchoredOnce
<1>1. request \in Seq(Chars) /\ t \in Seq(Chars) /\ n \in Nat
  <2>1. request \in Seq(STRING) /\ t \in Seq(STRING)
    BY MatchingAssumption DEF AnchorInv
  <2>2. STRING \subseteq Chars
    BY DEF Chars
  <2>3. request \in Seq(Chars) /\ t \in Seq(Chars)
    BY <2>1, <2>2, SeqMonotonic
  <2>4. Len(t) + 1 \in Nat \ {0}
    BY <2>3, LenProperties
  <2>5. LineAt(t, Len(t) + 1) \in Nat
    BY <2>4, LinesCount
  <2> QED
    BY <2>3, <2>5
<1> DEFINE new == Anchored(t, request, <<"X">>, lo, hi)
<1>2. /\ (new # NoEdit) = (request # <<>> /\ Cardinality(AnchorPlaces(t, request, lo, hi)) = 1)
      /\ new # NoEdit => \/ n \in lo..hi
                         \/ SelectSeqAt(new, LineSet(new, n)) = SelectSeqAt(t, LineSet(t, n))
  BY <1>1, AnchoredAtOne
<1> HIDE DEF new
<1> QED
  BY <1>2 DEF new, AnchorPlaces, LineSet

\* An anchored edit is made only where the anchor names one place of its
\* scope, and leaves the lines outside of it, for texts, anchors and scopes of
\* any length.
THEOREM AnchorsAlwaysOnce == MatchSpec => []AnchoredOnce
<1>1. AnchorInv => AnchoredOnce
  BY OnceWhereAnchored
<1> QED
  BY <1>1, AnchorInitInvariant, AnchorNextInvariant, PTL DEF MatchSpec

(***************************************************************************)
(* Boolean search.  A word of one line is on a line just if it starts      *)
(* there: the index of line starts counts the lines as they are, what is   *)
(* between two characters of a line is on the line, and case moves no end  *)
(* of a line.  Within the limit the operands are those that are not empty; *)
(* a count goes on after each place, but what it passes over is on the     *)
(* line of that place, and a later line is never an earlier one again.     *)
(***************************************************************************)

\* The starts of lines up to a place.
StartsTo(t, i) == {s \in LineStarts(t) : s <= i}

\* The line that the index of line starts gives for a character is the line it
\* is on, one of those that the index has.
LEMMA LinesIndexed ==
    ASSUME NEW t \in Seq(Chars)
    PROVE  /\ IsFiniteSet(LineStarts(t)) /\ Cardinality(LineStarts(t)) \in Nat
           /\ Cardinality(LineStarts(t)) <= Len(t) + 1
           /\ \A p \in DOMAIN t : /\ LineOf(LineStarts(t), p) = LineAt(t, p)
                                  /\ LineAt(t, p) \in 1..Cardinality(LineStarts(t))
<1> DEFINE n == Len(t)
           S == LineStarts(t)
<1>1. n \in Nat /\ DOMAIN t = 1..n
  BY LenProperties
<1>2. S \in SUBSET (1..(n + 1)) /\ 1 \in S
  BY <1>1 DEF LineStarts
<1>3. IsFiniteSet(S) /\ Cardinality(S) \in Nat /\ Cardinality(S) <= n + 1
  <2>1. 1 \in Int /\ n + 1 \in Int /\ 1 <= n + 1 /\ n + 1 - 1 + 1 = n + 1
    BY <1>1
  <2>2. IsFiniteSet(1..(n + 1)) /\ Cardinality(1..(n + 1)) = n + 1
    BY <2>1, FS_Interval
  <2> HIDE DEF S, n
  <2> QED
    BY <1>2, <2>2, FS_Subset, FS_CardinalityType
<1>4. \A i \in 1..n : /\ i + 1 \in S <=> i < n /\ t[i] = "\n"
  BY <1>1 DEF LineStarts
<1> HIDE DEF S
<1>5. \A i \in Nat : IsFiniteSet(StartsTo(t, i)) /\ Cardinality(StartsTo(t, i)) \in Nat
                     /\ Cardinality(StartsTo(t, i)) <= Cardinality(S)
  <2> SUFFICES ASSUME NEW i \in Nat
               PROVE  /\ IsFiniteSet(StartsTo(t, i)) /\ Cardinality(StartsTo(t, i)) \in Nat
                      /\ Cardinality(StartsTo(t, i)) <= Cardinality(S)
    OBVIOUS
  <2>1. StartsTo(t, i) \in SUBSET S
    BY DEF StartsTo, S
  <2> QED
    BY <1>3, <2>1, FS_Subset, FS_CardinalityType
<1> DEFINE Good == {i \in Nat : i + 1 <= n =>
                        Cardinality(StartsTo(t, i + 1)) = LineAt(t, i + 1)}
<1>6. 0 \in Good
  <2>1. StartsTo(t, 1) = {1}
    BY <1>2 DEF StartsTo, S
  <2>2. {k \in 1..(1 - 1) : t[k] = "\n"} = {}
    OBVIOUS
  <2>3. Cardinality({1}) = 1 /\ Cardinality({}) = 0
    BY FS_Singleton, FS_EmptySet
  <2>4. LineAt(t, 1) = 1
    BY <2>2, <2>3 DEF LineAt
  <2>5. Cardinality(StartsTo(t, 1)) = 1
    BY <2>1, <2>3
  <2>6. 0 + 1 = 1
    OBVIOUS
  <2> QED
    BY <2>4, <2>5, <2>6
<1>7. ASSUME NEW i \in Nat, i \in Good
      PROVE  i + 1 \in Good
  <2> DEFINE j == i + 1
  <2> SUFFICES ASSUME j + 1 <= n
               PROVE  Cardinality(StartsTo(t, j + 1)) = LineAt(t, j + 1)
    OBVIOUS
  <2>1. j \in Nat \ {0} /\ j \in 1..n /\ j < n
    BY <1>1
  <2>2. Cardinality(StartsTo(t, j)) = LineAt(t, j)
    BY <1>1, <1>7, <2>1
  <2> HIDE DEF j
  <2>3. CASE t[j] = "\n"
    <3>1. j + 1 \in S
      BY <1>4, <2>1, <2>3
    <3>2. StartsTo(t, j + 1) = StartsTo(t, j) \cup {j + 1} /\ j + 1 \notin StartsTo(t, j)
      BY <1>2, <2>1, <3>1 DEF StartsTo, S
    <3>3. Cardinality(StartsTo(t, j + 1)) = Cardinality(StartsTo(t, j)) + 1
      BY <1>5, <2>1, <3>2, FS_AddElement
    <3>4. LineAt(t, j + 1) = LineAt(t, j) + 1
      BY <2>1, <2>3, LinesCount
    <3> QED
      BY <2>2, <3>3, <3>4
  <2>4. CASE t[j] # "\n"
    <3>1. j + 1 \notin S
      BY <1>4, <2>1, <2>4
    <3>2. StartsTo(t, j + 1) = StartsTo(t, j)
      BY <1>2, <2>1, <3>1 DEF StartsTo, S
    <3>3. LineAt(t, j + 1) = LineAt(t, j)
      BY <2>1, <2>4, LinesCount
    <3> QED
      BY <2>2, <3>2, <3>3
  <2> QED
    BY <2>3, <2>4
<1>8. Nat \subseteq Good
  <2> HIDE DEF Good
  <2> QED
    BY <1>6, <1>7, NaturalInduction
<1>9. ASSUME NEW p \in 1..n
      PROVE  /\ LineOf(S, p) = LineAt(t, p)
             /\ LineAt(t, p) \in 1..Cardinality(S)
  <2>1. p - 1 \in Good /\ p - 1 + 1 = p /\ p <= n /\ p \in Nat \ {0}
    BY <1>1, <1>8
  <2>2. Cardinality(StartsTo(t, p)) = LineAt(t, p)
    BY <2>1
  <2>3. LineAt(t, p) \in Nat \ {0}
    BY <2>1, LinesCount
  <2>4. LineOf(S, p) = Cardinality(StartsTo(t, p))
    BY DEF LineOf, StartsTo, S
  <2> HIDE DEF Good
  <2> QED
    BY <1>3, <1>5, <2>1, <2>2, <2>3, <2>4
<1> QED
  BY <1>1, <1>3, <1>9 DEF S

\* Without the end of a line between them, two places are on the same line.
LEMMA SameLine ==
    ASSUME NEW t, NEW p \in Nat \ {0}, NEW q \in Nat, p <= q, \A k \in p..(q - 1) : t[k] # "\n"
    PROVE  LineAt(t, q) = LineAt(t, p)
<1>1. {k \in 1..(q - 1) : t[k] = "\n"} = {k \in 1..(p - 1) : t[k] = "\n"}
  OBVIOUS
<1> QED
  BY <1>1 DEF LineAt

\* A line, without its end.
OnLine(t, x) == {p \in DOMAIN t : LineAt(t, p) = x /\ t[p] # "\n"}

\* What is between two characters of a line is on the line.
LEMMA LinesAreWhole ==
    ASSUME NEW t \in Seq(Chars), NEW x, NEW a \in OnLine(t, x), NEW b \in OnLine(t, x),
           NEW k \in a..b
    PROVE  k \in OnLine(t, x)
<1>1. DOMAIN t = 1..Len(t) /\ Len(t) \in Nat
  BY LenProperties
<1>2. /\ a \in 1..Len(t) /\ LineAt(t, a) = x
      /\ b \in 1..Len(t) /\ LineAt(t, b) = x /\ t[b] # "\n"
  BY <1>1 DEF OnLine
<1>3. k \in 1..Len(t) /\ a <= k /\ k <= b
  BY <1>2
<1>4. LineAt(t, a) \in Nat /\ LineAt(t, k) \in Nat /\ LineAt(t, b) \in Nat
  BY <1>2, <1>3, LinesCount
<1>5. LineAt(t, a) <= LineAt(t, k) /\ LineAt(t, k) <= LineAt(t, b)
  BY <1>2, <1>3, LinesRise
<1>6. LineAt(t, k) = x
  BY <1>2, <1>4, <1>5
<1>7. ASSUME t[k] = "\n"
      PROVE  FALSE
  <2>1. k # b
    BY <1>2, <1>7
  <2>2. k + 1 \in Nat \ {0} /\ k + 1 <= b /\ k \in Nat \ {0} /\ b \in Nat \ {0}
    BY <1>2, <1>3, <2>1
  <2>3. LineAt(t, k + 1) = LineAt(t, k) + 1
    BY <1>7, <2>2, LinesCount
  <2>4. LineAt(t, k + 1) <= LineAt(t, b)
    BY <2>2, LinesRise
  <2> QED
    BY <1>2, <1>4, <1>6, <2>3, <2>4
<1> QED
  BY <1>1, <1>3, <1>6, <1>7 DEF OnLine

\* A word of one line is on a line just if it starts there somewhere.
LEMMA FoundOnLine ==
    ASSUME NEW t \in Seq(Chars), NEW w \in Seq(Chars), w # <<>>, ~Holds(w, <<"\n">>), NEW x
    PROVE  Holds(SelectSeqAt(t, OnLine(t, x)), w)
               <=> \E p \in DOMAIN t : LineAt(t, p) = x /\ Matches(t, p, w)
<1> DEFINE n == Len(t)
           m == Len(w)
           S == OnLine(t, x)
<1>1. n \in Nat /\ DOMAIN t = 1..n
  BY LenProperties
<1>2. m \in Nat /\ m > 0 /\ DOMAIN w = 1..m
  <2>1. Len(w) \in Nat /\ Len(w) # 0 /\ DOMAIN w = 1..Len(w)
    BY EmptySeq, LenProperties
  <2> QED
    BY <2>1
<1>3. \A p \in 1..n : Matches(t, p, w) => p + m - 1 <= n /\ \A k \in p..(p + m - 1) : k \in S <=> LineAt(t, p) = x
  <2> SUFFICES ASSUME NEW p \in 1..n, Matches(t, p, w)
               PROVE  p + m - 1 <= n /\ \A k \in p..(p + m - 1) : k \in S <=> LineAt(t, p) = x
    OBVIOUS
  <2>1. p + m - 1 <= n
    BY DEF Matches
  <2>2. \A k \in p..(p + m - 1) : t[k] # "\n"
    BY <1>1, NoLineEnds
  <2>3. ASSUME NEW k \in p..(p + m - 1)
        PROVE  k \in S <=> LineAt(t, p) = x
    <3>1. k \in 1..n /\ k \in Nat /\ p <= k /\ p \in Nat \ {0} /\ \A j \in p..(k - 1) : j \in p..(p + m - 1)
      BY <1>1, <1>2, <2>1
    <3>2. LineAt(t, k) = LineAt(t, p)
      BY <2>2, <3>1, SameLine
    <3> QED
      BY <1>1, <2>2, <3>1, <3>2 DEF OnLine
  <2> QED
    BY <2>1, <2>3
<1>4. CASE S = {}
  <2>1. SelectSeqAt(t, S) = <<>>
    BY <1>4 DEF SelectSeqAt
  <2>2. ~Holds(<<>>, w)
    <3>1. \A i \in 1..(Len(<<>>) + 1) : ~(i + m - 1 <= Len(<<>>))
      BY <1>2
    <3> QED
      BY <3>1 DEF Holds, Matches
  <2>3. \A p \in 1..n : Matches(t, p, w) => LineAt(t, p) # x
    <3> SUFFICES ASSUME NEW p \in 1..n, Matches(t, p, w)
                 PROVE  LineAt(t, p) # x
      OBVIOUS
    <3>1. p \in p..(p + m - 1)
      BY <1>2
    <3> QED
      BY <1>3, <1>4, <3>1
  <2> QED
    BY <1>1, <2>1, <2>2, <2>3
<1>5. CASE S # {}
  <2> DEFINE a == Min(S)
             b == Max(S)
             u == SubSeq(t, a, b)
  <2>1. a \in S /\ b \in S /\ \A k \in S : a <= k /\ k <= b
    <3>1. S \in SUBSET Nat /\ S \in SUBSET (0..n)
      BY <1>1 DEF OnLine
    <3> HIDE DEF S
    <3> QED
      BY <1>1, <1>5, <3>1, MinIsIn, MaxIsIn
  <2>2. SelectSeqAt(t, S) = u
    BY <1>5 DEF SelectSeqAt
  <2> HIDE DEF a, b
  <2>3. a \in 1..n /\ b \in 1..n /\ a <= b
    BY <1>1, <2>1 DEF OnLine
  <2>4. /\ u \in Seq(Chars) /\ Len(u) = b - a + 1
        /\ \A i \in 1..(b - a + 1) : u[i] = t[a + i - 1]
    <3>1. a \in 1..(n + 1) /\ b \in (a - 1)..n
      BY <1>1, <2>3
    <3> QED
      BY <3>1, PartOf
  <2> HIDE DEF u
  <2>5. ASSUME Holds(u, w)
        PROVE  \E p \in 1..n : LineAt(t, p) = x /\ Matches(t, p, w)
    <3>1. PICK i \in 1..(Len(u) + 1) : Matches(u, i, w)
      BY <2>5 DEF Holds
    <3>2. i + m - 1 <= b - a + 1 /\ \A k \in 1..m : u[i + k - 1] = w[k]
      BY <1>2, <2>4, <3>1 DEF Matches
    <3> DEFINE p == a + i - 1
    <3>3. /\ p \in 1..n /\ p \in a..b /\ p + m - 1 <= b /\ i \in Nat \ {0}
      BY <1>1, <1>2, <2>3, <2>4, <3>2
    <3>4. \A k \in 1..m : t[p + k - 1] = w[k]
      <4> SUFFICES ASSUME NEW k \in 1..m
                   PROVE  t[p + k - 1] = w[k]
        OBVIOUS
      <4>1. i + k - 1 \in 1..(b - a + 1) /\ a + (i + k - 1) - 1 = p + k - 1
        BY <1>2, <2>3, <3>2, <3>3
      <4> HIDE DEF p
      <4> QED
        BY <2>4, <3>2, <4>1
    <3> HIDE DEF p
    <3>5. p + m - 1 <= n
      BY <1>1, <1>2, <2>3, <3>3
    <3>6. Matches(t, p, w)
      BY <1>2, <3>4, <3>5 DEF Matches
    <3>7. p \in S
      BY <2>1, <3>3, LinesAreWhole
    <3> QED
      BY <3>3, <3>6, <3>7 DEF OnLine
  <2>6. ASSUME NEW p \in 1..n, LineAt(t, p) = x, Matches(t, p, w)
        PROVE  Holds(u, w)
    <3>1. p \in S /\ p + m - 1 \in S
      <4>1. p \in p..(p + m - 1) /\ p + m - 1 \in p..(p + m - 1)
        BY <1>2
      <4> QED
        BY <1>3, <2>6, <4>1
    <3> DEFINE i == p - a + 1
    <3>2. a <= p /\ p + m - 1 <= b
      BY <2>1, <3>1
    <3>3. i \in 1..(Len(u) + 1) /\ i + m - 1 <= Len(u)
      BY <1>2, <2>3, <2>4, <3>2
    <3>4. \A k \in 1..m : u[i + k - 1] = w[k]
      <4> SUFFICES ASSUME NEW k \in 1..m
                   PROVE  u[i + k - 1] = w[k]
        OBVIOUS
      <4>1. i + k - 1 \in 1..(b - a + 1) /\ a + (i + k - 1) - 1 = p + k - 1
        BY <1>2, <2>3, <2>4, <3>3
      <4> HIDE DEF i
      <4>2. u[i + k - 1] = t[p + k - 1]
        BY <2>4, <4>1
      <4> QED
        BY <1>2, <2>6, <4>2 DEF Matches
    <3> HIDE DEF i
    <3>5. Matches(u, i, w)
      BY <1>2, <3>3, <3>4 DEF Matches
    <3> QED
      BY <3>3, <3>5 DEF Holds
  <2> QED
    BY <1>1, <2>2, <2>5, <2>6
<1> QED
  BY <1>4, <1>5

\* Case does not move lines: a line in lower case is that line of the text in
\* lower case.
LEMMA LoweredLine ==
    ASSUME NEW t \in Seq(Chars), NEW x
    PROVE  /\ Lower(t) \in Seq(Chars) /\ DOMAIN Lower(t) = DOMAIN t
           /\ \A p \in DOMAIN t : LineAt(Lower(t), p) = LineAt(t, p)
           /\ SelectSeqAt(t, OnLine(t, x)) \in Seq(Chars)
           /\ Lower(SelectSeqAt(t, OnLine(t, x))) = SelectSeqAt(Lower(t), OnLine(Lower(t), x))
<1> DEFINE n == Len(t)
           low == Lower(t)
           S == OnLine(t, x)
<1>1. n \in Nat /\ DOMAIN t = 1..n /\ \A k \in 1..n : t[k] \in Chars
  BY LenProperties
<1>2. /\ DOMAIN low = 1..n
      /\ \A k \in 1..n : /\ low[k] = LowerChar(t[k]) /\ low[k] \in Chars
                         /\ low[k] = "\n" <=> t[k] = "\n"
  BY <1>1 DEF Lower, LowerChar, Chars
<1>3. low \in Seq(Chars) /\ Len(low) = n
  <2>1. low = [k \in 1..n |-> low[k]]
    BY <1>1 DEF Lower
  <2> HIDE DEF low
  <2>2. low \in [1..n -> Chars]
    BY <1>2, <2>1
  <2> QED
    BY <1>1, <2>2, IsASeq, LenProperties
<1> HIDE DEF low
<1>4. \A p \in 1..n : LineAt(low, p) = LineAt(t, p)
  <2> SUFFICES ASSUME NEW p \in 1..n
               PROVE  LineAt(low, p) = LineAt(t, p)
    OBVIOUS
  <2>1. \A k \in 1..(p - 1) : low[k] = "\n" <=> t[k] = "\n"
    BY <1>1, <1>2
  <2>2. {k \in 1..(p - 1) : low[k] = "\n"} = {k \in 1..(p - 1) : t[k] = "\n"}
    BY <2>1
  <2> QED
    BY <2>2 DEF LineAt
<1>5. OnLine(low, x) = S
  BY <1>1, <1>2, <1>4 DEF OnLine
<1>6. SelectSeqAt(t, S) \in Seq(Chars) /\ Lower(SelectSeqAt(t, S)) = SelectSeqAt(low, S)
  <2>1. CASE S = {}
    <3>1. SelectSeqAt(t, S) = <<>> /\ SelectSeqAt(low, S) = <<>>
      BY <2>1 DEF SelectSeqAt
    <3>2. Lower(<<>>) = <<>>
      <4> DEFINE e == Lower(<<>>)
      <4>1. e \in Seq({}) /\ Len(e) = 0
        <5>1. DOMAIN e = 1..0
          BY DEF Lower
        <5>2. e \in [1..0 -> {}]
          BY <5>1 DEF Lower
        <5> HIDE DEF e
        <5> QED
          BY <5>1, <5>2, IsASeq, LenProperties
      <4> HIDE DEF e
      <4>2. e = <<>>
        BY <4>1, EmptySeq
      <4> QED
        BY <4>2 DEF e
    <3>3. <<>> \in Seq(Chars)
      OBVIOUS
    <3> QED
      BY <3>1, <3>2, <3>3
  <2>2. CASE S # {}
    <3> DEFINE a == Min(S)
               b == Max(S)
               u == SubSeq(t, a, b)
               v == SubSeq(low, a, b)
               l == Lower(u)
    <3>1. a \in S /\ b \in S /\ \A k \in S : a <= k /\ k <= b
      <4>1. S \in SUBSET Nat /\ S \in SUBSET (0..n)
        BY <1>1 DEF OnLine
      <4> HIDE DEF S
      <4> QED
        BY <1>1, <2>2, <4>1, MinIsIn, MaxIsIn
    <3>2. SelectSeqAt(t, S) = u /\ SelectSeqAt(low, S) = v
      BY <2>2 DEF SelectSeqAt
    <3> HIDE DEF a, b
    <3>3. a \in 1..n /\ b \in 1..n /\ a <= b
      BY <1>1, <3>1 DEF OnLine
    <3> DEFINE c == b - a + 1
    <3>4. /\ u \in Seq(Chars) /\ Len(u) = c /\ \A i \in 1..c : u[i] = t[a + i - 1]
          /\ v \in Seq(Chars) /\ Len(v) = c /\ \A i \in 1..c : v[i] = low[a + i - 1]
      <4>1. a \in 1..(n + 1) /\ b \in (a - 1)..n
        BY <1>1, <3>3
      <4> QED
        BY <1>3, <4>1, PartOf
    <3> HIDE DEF u, v
    <3>5. \A i \in 1..c : a + i - 1 \in 1..n
      BY <1>1, <3>3
    <3>6. c \in Nat /\ DOMAIN u = 1..c
      BY <3>3, <3>4, LenProperties
    <3> HIDE DEF c
    <3>7. \A i \in 1..c : l[i] = v[i]
      BY <1>2, <3>4, <3>5, <3>6 DEF Lower
    <3>8. DOMAIN l = 1..c /\ l = [i \in 1..c |-> l[i]]
      BY <3>6 DEF Lower
    <3>9. DOMAIN v = 1..c /\ v = [i \in 1..c |-> v[i]]
      BY <3>4, LenProperties
    <3> HIDE DEF l
    <3>10. l = v
      BY <3>7, <3>8, <3>9
    <3> QED
      BY <3>2, <3>4, <3>10 DEF l
  <2> QED
    BY <2>1, <2>2
<1> QED
  BY <1>1, <1>2, <1>3, <1>4, <1>5, <1>6 DEF low

\* Does an operand take part, and in which list?
Partakes(o, list) == o.list = list /\ o.term # <<>>

\* f[i] is what is kept of the first i operands.
Filters(R, ops, list, f) ==
    /\ f[0] = <<>>
    /\ \A i \in 1..Len(ops) : f[i] = IF Partakes(ops[i], list) THEN Append(f[i - 1], ops[i])
                                                               ELSE f[i - 1]

\* What is kept of a list of operands is found one by one.
LEMMA ListFilters ==
    ASSUME NEW R, NEW ops \in Seq(R), NEW list
    PROVE  \E f \in [0..Len(ops) -> Seq(R)] :
               Filters(R, ops, list, f) /\ OfList(ops, list) = f[Len(ops)]
<1> DEFINE n == Len(ops)
           kept == CHOOSE f : f = [i \in 0..n |->
                       IF i = 0 THEN <<>>
                       ELSE IF ops[i].list = list /\ ops[i].term # <<>>
                       THEN Append(f[i - 1], ops[i]) ELSE f[i - 1]]
           step == [i \in 1..n |-> [q \in Seq(R) |->
                       IF Partakes(ops[i], list) THEN Append(q, ops[i]) ELSE q]]
<1>1. n \in Nat /\ \A i \in 1..n : ops[i] \in R
  BY LenProperties
<1>2. IsSteps(n, Seq(R), step)
  <2>1. \A i \in 1..n : \A q \in Seq(R) : Append(q, ops[i]) \in Seq(R)
    BY <1>1, AppendProperties
  <2> QED
    BY <2>1 DEF IsSteps
<1>3. <<>> \in Seq(R)
  OBVIOUS
<1>4. HasIterates(n, Seq(R), <<>>, step)
  <2> HIDE DEF step, n
  <2> QED
    BY <1>1, <1>2, <1>3, RecursiveFunction
<1>5. PICK f \in [0..n -> Seq(R)] : Iterates(n, <<>>, step, f)
  BY <1>4 DEF HasIterates
<1>6. Filters(R, ops, list, f)
  <2>1. f[0] = <<>> /\ \A i \in 1..n : f[i] = step[i][f[i - 1]]
    BY <1>5 DEF Iterates
  <2>2. \A i \in 1..n : f[i - 1] \in Seq(R)
    BY <1>1
  <2> QED
    BY <2>1, <2>2 DEF Filters
<1>7. f = [i \in 0..n |->
              IF i = 0 THEN <<>>
              ELSE IF ops[i].list = list /\ ops[i].term # <<>>
              THEN Append(f[i - 1], ops[i]) ELSE f[i - 1]]
  <2>1. \A i \in 0..n : f[i] = IF i = 0 THEN <<>>
              ELSE IF ops[i].list = list /\ ops[i].term # <<>>
              THEN Append(f[i - 1], ops[i]) ELSE f[i - 1]
    <3> SUFFICES ASSUME NEW i \in 0..n, i # 0
                 PROVE  f[i] = IF ops[i].list = list /\ ops[i].term # <<>>
                               THEN Append(f[i - 1], ops[i]) ELSE f[i - 1]
      BY <1>6 DEF Filters
    <3>1. i \in 1..n
      BY <1>1
    <3> QED
      BY <1>6, <3>1 DEF Filters, Partakes
  <2> QED
    BY <2>1
<1>8. kept = [i \in 0..n |->
              IF i = 0 THEN <<>>
              ELSE IF ops[i].list = list /\ ops[i].term # <<>>
              THEN Append(kept[i - 1], ops[i]) ELSE kept[i - 1]]
  BY <1>7
<1>9. OfList(ops, list) = kept[n]
  BY DEF OfList
<1> HIDE DEF kept
<1>10. /\ kept[0] = <<>>
       /\ \A i \in 1..n : kept[i] = IF Partakes(ops[i], list) THEN Append(kept[i - 1], ops[i])
                                                              ELSE kept[i - 1]
  <2>1. 0 \in 0..n /\ \A i \in 1..n : i \in 0..n /\ i # 0
    BY <1>1
  <2> QED
    BY <1>8, <2>1, Zenon DEF Partakes
<1>11. Nat \subseteq {i \in Nat : i <= n => kept[i] = f[i]}
  <2> DEFINE P == {i \in Nat : i <= n => kept[i] = f[i]}
  <2>1. 0 \in P
    BY <1>6, <1>10 DEF Filters
  <2>2. ASSUME NEW i \in Nat, i \in P
        PROVE  i + 1 \in P
    <3> SUFFICES ASSUME i + 1 <= n
                 PROVE  kept[i + 1] = f[i + 1]
      OBVIOUS
    <3>1. i + 1 \in 1..n /\ i + 1 - 1 = i /\ kept[i] = f[i]
      BY <1>1, <2>2
    <3> HIDE DEF n
    <3> QED
      BY <1>6, <1>10, <3>1 DEF Filters, n
  <2> HIDE DEF P
  <2>3. Nat \subseteq P
    BY <2>1, <2>2, NaturalInduction
  <2> QED
    BY <2>3 DEF P
<1>12. OfList(ops, list) = f[n]
  BY <1>1, <1>9, <1>11
<1> QED
  BY <1>6, <1>12

\* What is kept is what takes part.
LEMMA FilteredValues ==
    ASSUME NEW R, NEW ops \in Seq(R), NEW list, NEW f \in [0..Len(ops) -> Seq(R)],
           Filters(R, ops, list, f)
    PROVE  ToSet(f[Len(ops)]) = {o \in ToSet(ops) : Partakes(o, list)}
<1> DEFINE n == Len(ops)
           Firsts(i) == {o \in {ops[k] : k \in 1..i} : Partakes(o, list)}
           P == {i \in Nat : i <= n => ToSet(f[i]) = Firsts(i)}
<1>1. n \in Nat /\ ToSet(ops) = {ops[k] : k \in 1..n} /\ \A i \in 1..n : ops[i] \in R
  BY LenProperties DEF ToSet
<1> HIDE DEF n
<1>2. 0 \in P
  <2>1. ToSet(<<>>) = {} /\ 1..0 = {}
    BY DEF ToSet
  <2> QED
    BY <2>1 DEF Filters
<1>3. ASSUME NEW i \in Nat, i \in P
      PROVE  i + 1 \in P
  <2> SUFFICES ASSUME i + 1 <= n
               PROVE  ToSet(f[i + 1]) = Firsts(i + 1)
    OBVIOUS
  <2>1. ToSet(f[i]) = Firsts(i)
    BY <1>1, <1>3
  <2>2. i + 1 \in 1..n /\ i \in 0..n /\ i + 1 - 1 = i /\ ops[i + 1] \in R /\ f[i] \in Seq(R)
    BY <1>1 DEF n
  <2>3. 1..(i + 1) = (1..i) \cup {i + 1}
    OBVIOUS
  <2>4. Firsts(i + 1) = Firsts(i) \cup {o \in {ops[i + 1]} : Partakes(o, list)}
    BY <2>3
  <2> HIDE DEF Firsts
  <2>5. f[i + 1] = IF Partakes(ops[i + 1], list) THEN Append(f[i], ops[i + 1]) ELSE f[i]
    BY <2>2 DEF Filters, n
  <2>6. ToSet(Append(f[i], ops[i + 1])) = ToSet(f[i]) \cup {ops[i + 1]}
    BY <2>2, AppendedValues
  <2>7. CASE Partakes(ops[i + 1], list)
    BY <2>1, <2>4, <2>5, <2>6, <2>7
  <2>8. CASE ~Partakes(ops[i + 1], list)
    BY <2>1, <2>4, <2>5, <2>8
  <2> QED
    BY <2>7, <2>8
<1>4. Nat \subseteq P
  <2> HIDE DEF P
  <2> QED
    BY <1>2, <1>3, NaturalInduction
<1> QED
  BY <1>1, <1>4 DEF n

\* An operand is in one list at most.
LEMMA FilteredLengths ==
    ASSUME NEW R, NEW ops \in Seq(R),
           NEW f \in [0..Len(ops) -> Seq(R)], Filters(R, ops, "all", f),
           NEW g \in [0..Len(ops) -> Seq(R)], Filters(R, ops, "any", g),
           NEW h \in [0..Len(ops) -> Seq(R)], Filters(R, ops, "none", h)
    PROVE  Len(f[Len(ops)]) + Len(g[Len(ops)]) + Len(h[Len(ops)]) <= Len(ops)
<1> DEFINE n == Len(ops)
           P == {i \in Nat : i <= n => Len(f[i]) + Len(g[i]) + Len(h[i]) <= i}
<1>1. n \in Nat /\ \A i \in 1..n : ops[i] \in R
  BY LenProperties
<1> HIDE DEF n
<1>2. 0 \in P
  <2>1. Len(<<>>) = 0
    OBVIOUS
  <2> QED
    BY <2>1 DEF Filters
<1>3. ASSUME NEW i \in Nat, i \in P
      PROVE  i + 1 \in P
  <2> SUFFICES ASSUME i + 1 <= n
               PROVE  Len(f[i + 1]) + Len(g[i + 1]) + Len(h[i + 1]) <= i + 1
    OBVIOUS
  <2> DEFINE o == ops[i + 1]
  <2>1. Len(f[i]) + Len(g[i]) + Len(h[i]) <= i
    BY <1>1, <1>3
  <2>2. /\ i + 1 \in 1..n /\ i + 1 - 1 = i /\ o \in R
        /\ f[i] \in Seq(R) /\ g[i] \in Seq(R) /\ h[i] \in Seq(R)
    <3>1. i + 1 \in 1..n /\ i \in 0..n /\ i + 1 - 1 = i
      BY <1>1
    <3>2. f[i] \in Seq(R) /\ g[i] \in Seq(R) /\ h[i] \in Seq(R)
      BY <3>1 DEF n
    <3> QED
      BY <1>1, <3>1, <3>2
  <2>3. /\ f[i + 1] = IF Partakes(o, "all") THEN Append(f[i], o) ELSE f[i]
        /\ g[i + 1] = IF Partakes(o, "any") THEN Append(g[i], o) ELSE g[i]
        /\ h[i + 1] = IF Partakes(o, "none") THEN Append(h[i], o) ELSE h[i]
    BY <2>2 DEF Filters, n
  <2> HIDE DEF o
  <2>4. /\ Len(f[i]) \in Nat /\ Len(g[i]) \in Nat /\ Len(h[i]) \in Nat
        /\ Len(Append(f[i], o)) = Len(f[i]) + 1
        /\ Len(Append(g[i], o)) = Len(g[i]) + 1
        /\ Len(Append(h[i], o)) = Len(h[i]) + 1
    BY <2>2, LenProperties, AppendProperties
  <2>5. /\ ~(Partakes(o, "all") /\ Partakes(o, "any"))
        /\ ~(Partakes(o, "all") /\ Partakes(o, "none"))
        /\ ~(Partakes(o, "any") /\ Partakes(o, "none"))
    BY DEF Partakes
  <2>6. /\ Len(f[i + 1]) = IF Partakes(o, "all") THEN Len(f[i]) + 1 ELSE Len(f[i])
        /\ Len(g[i + 1]) = IF Partakes(o, "any") THEN Len(g[i]) + 1 ELSE Len(g[i])
        /\ Len(h[i + 1]) = IF Partakes(o, "none") THEN Len(h[i]) + 1 ELSE Len(h[i])
    BY <2>3, <2>4
  <2> DEFINE x == Len(f[i])
             y == Len(g[i])
             z == Len(h[i])
  <2>7. x \in Nat /\ y \in Nat /\ z \in Nat /\ x + y + z <= i
    BY <2>1, <2>4
  <2> HIDE DEF P, x, y, z
  <2>8. CASE Partakes(o, "all")
    <3>1. Len(f[i + 1]) = x + 1 /\ Len(g[i + 1]) = y /\ Len(h[i + 1]) = z
      BY <2>5, <2>6, <2>8 DEF x, y, z
    <3> QED
      BY <2>7, <3>1
  <2>9. CASE Partakes(o, "any")
    <3>1. Len(f[i + 1]) = x /\ Len(g[i + 1]) = y + 1 /\ Len(h[i + 1]) = z
      BY <2>5, <2>6, <2>9 DEF x, y, z
    <3> QED
      BY <2>7, <3>1
  <2>10. CASE Partakes(o, "none")
    <3>1. Len(f[i + 1]) = x /\ Len(g[i + 1]) = y /\ Len(h[i + 1]) = z + 1
      BY <2>5, <2>6, <2>10 DEF x, y, z
    <3> QED
      BY <2>7, <3>1
  <2>11. CASE ~Partakes(o, "all") /\ ~Partakes(o, "any") /\ ~Partakes(o, "none")
    <3>1. Len(f[i + 1]) = x /\ Len(g[i + 1]) = y /\ Len(h[i + 1]) = z
      BY <2>6, <2>11 DEF x, y, z
    <3> QED
      BY <2>7, <3>1
  <2> QED
    BY <2>8, <2>9, <2>10, <2>11
<1>4. Nat \subseteq P
  <2> HIDE DEF P
  <2> QED
    BY <1>2, <1>3, NaturalInduction
<1> QED
  BY <1>1, <1>4 DEF n

\* Within the limit every operand takes part that is not empty.
LEMMA OperandsAreTerms ==
    ASSUME NEW R, NEW ops \in Seq(R), Len(ops) <= MaxOperands,
           \A o \in R : o.list \in {"all", "any", "none"}
    PROVE  /\ Operands(ops) \in Seq(R)
           /\ ToSet(Operands(ops)) = {o \in ToSet(ops) : o.term # <<>>}
<1> DEFINE n == Len(ops)
           a == OfList(ops, "all")
           b == OfList(ops, "any")
           c == OfList(ops, "none")
           taken == a \o b \o c
<1>1. PICK f \in [0..n -> Seq(R)] : Filters(R, ops, "all", f) /\ a = f[n]
  BY ListFilters
<1>2. PICK g \in [0..n -> Seq(R)] : Filters(R, ops, "any", g) /\ b = g[n]
  BY ListFilters
<1>3. PICK h \in [0..n -> Seq(R)] : Filters(R, ops, "none", h) /\ c = h[n]
  BY ListFilters
<1>4. n \in Nat /\ MaxOperands \in Nat
  BY LenProperties, MatchingAssumption
<1>5. Operands(ops) = SubSeq(taken, 1, Smallest(Len(taken), MaxOperands))
  BY DEF Operands
<1> HIDE DEF a, b, c
<1>6. Len(a) + Len(b) + Len(c) <= n
  BY <1>1, <1>2, <1>3, FilteredLengths
<1>7. /\ ToSet(a) = {o \in ToSet(ops) : Partakes(o, "all")}
      /\ ToSet(b) = {o \in ToSet(ops) : Partakes(o, "any")}
      /\ ToSet(c) = {o \in ToSet(ops) : Partakes(o, "none")}
  BY <1>1, <1>2, <1>3, FilteredValues
<1>8. a \in Seq(R) /\ b \in Seq(R) /\ c \in Seq(R)
  <2>1. n \in 0..n
    BY <1>4
  <2> QED
    BY <1>1, <1>2, <1>3, <2>1
<1>9. a \o b \in Seq(R) /\ ToSet(a \o b) = ToSet(a) \cup ToSet(b)
  BY <1>8, JoinedValues
<1>10. taken \in Seq(R) /\ ToSet(taken) = ToSet(a \o b) \cup ToSet(c)
  <2> DEFINE ab == a \o b
  <2>1. ab \in Seq(R)
    BY <1>9
  <2> HIDE DEF ab
  <2>2. ab \o c \in Seq(R) /\ ToSet(ab \o c) = ToSet(ab) \cup ToSet(c)
    BY <1>8, <2>1, JoinedValues
  <2> QED
    BY <2>2 DEF ab
<1>11. Len(taken) = Len(a) + Len(b) + Len(c) /\ Len(taken) \in Nat
  <2>1. Len(a \o b) = Len(a) + Len(b)
    BY <1>8, ConcatProperties
  <2>2. Len(taken) = Len(a \o b) + Len(c)
    BY <1>8, <1>9, ConcatProperties
  <2>3. Len(taken) \in Nat
    BY <1>10, LenProperties
  <2> HIDE DEF taken
  <2> QED
    BY <2>1, <2>2, <2>3
<1>12. ToSet(ops) \in SUBSET R
  BY ValuesOfSequence
<1> HIDE DEF taken
<1>13. Smallest(Len(taken), MaxOperands) = Len(taken)
  BY <1>4, <1>6, <1>11 DEF Smallest
<1>14. SubSeq(taken, 1, Len(taken)) = taken
  <2> DEFINE u == SubSeq(taken, 1, Len(taken))
             k == Len(taken)
  <2>1. 1 \in 1..(k + 1) /\ k \in (1 - 1)..k /\ k - 1 + 1 = k
    BY <1>11
  <2>2. u \in Seq(R) /\ Len(u) = k /\ \A i \in 1..k : u[i] = taken[1 + i - 1]
    BY <1>10, <2>1, PartOf
  <2>3. \A i \in 1..k : 1 + i - 1 = i
    OBVIOUS
  <2> HIDE DEF u
  <2>4. \A i \in 1..Len(u) : u[i] = taken[i]
    BY <2>2, <2>3
  <2>5. u = taken
    BY <1>10, <2>2, <2>4, SeqEqual
  <2> QED
    BY <2>5 DEF u
<1>15. ToSet(taken) = {o \in ToSet(ops) : o.term # <<>>}
  BY <1>7, <1>9, <1>10, <1>12 DEF Partakes
<1> QED
  BY <1>5, <1>10, <1>13, <1>14, <1>15

\* The lines that the places of a word from one place on are on.
LinesFrom(t, w, i) == {LineAt(t, p) : p \in PlacesFrom(t, w, i)}

\* Without an occurrence from i on there are no lines; else the first one is
\* where the search goes on from and its line is the least one.
LEMMA LinesOneByOne ==
    ASSUME NEW t \in Seq(Chars), NEW w \in Seq(Chars), w # <<>>, ~Holds(w, <<"\n">>),
           NEW i \in Nat \ {0}
    PROVE  /\ Find(t, i, w) \in Nat
           /\ IsFiniteSet(LinesFrom(t, w, i))
           /\ Find(t, i, w) > Len(t) => LinesFrom(t, w, i) = {}
           /\ Find(t, i, w) <= Len(t) =>
                  /\ Find(t, i, w) \in DOMAIN t /\ i < Find(t, i, w) + Len(w)
                  /\ Find(t, i, w) + Len(w) <= Len(t) + Len(w)
                  /\ LinesFrom(t, w, i) = {LineAt(t, Find(t, i, w))}
                                              \cup LinesFrom(t, w, Find(t, i, w) + Len(w))
                  /\ \A x \in LinesFrom(t, w, i) : x \in Nat \ {0} /\ LineAt(t, Find(t, i, w)) <= x
<1> DEFINE n == Len(t)
           m == Len(w)
           p == Find(t, i, w)
<1>1. n \in Nat /\ DOMAIN t = 1..n /\ m \in Nat /\ m > 0
  <2>1. Len(w) \in Nat /\ Len(w) # 0
    BY EmptySeq, LenProperties
  <2> QED
    BY <2>1, LenProperties
<1>2. /\ p \in Nat
      /\ p <= n => p >= i /\ Matches(t, p, w)
      /\ \A k \in i..n : Matches(t, k, w) => p <= k
      /\ p > n => \A k \in i..n : ~Matches(t, k, w)
  BY FindIsLeast
<1> HIDE DEF n, m, p
<1>3. IsFiniteSet(LinesFrom(t, w, i))
  <2> DEFINE S == PlacesFrom(t, w, i)
             f == [k \in S |-> LineAt(t, k)]
  <2>1. i \in Int /\ n \in Int
    BY <1>1
  <2>2. IsFiniteSet(i..n)
    BY <2>1, FS_Interval
  <2>3. S \in SUBSET (i..n)
    BY DEF PlacesFrom, n
  <2>4. IsFiniteSet(S)
    BY <2>2, <2>3, FS_Subset
  <2>5. DOMAIN f = S /\ f = [k \in S |-> f[k]] /\ \A k \in S : f[k] = LineAt(t, k)
    OBVIOUS
  <2> HIDE DEF f, S
  <2>6. IsFiniteSet({f[k] : k \in S})
    BY <2>4, <2>5, FiniteImage
  <2>7. {f[k] : k \in S} = LinesFrom(t, w, i)
    BY <2>5 DEF LinesFrom, S
  <2> QED
    BY <2>6, <2>7
<1>4. p > n => LinesFrom(t, w, i) = {}
  <2>1. p > n => PlacesFrom(t, w, i) = {}
    BY <1>2 DEF PlacesFrom, n
  <2> QED
    BY <2>1 DEF LinesFrom
<1>5. ASSUME p <= n
      PROVE  /\ p \in 1..n /\ i < p + m /\ p + m <= n + m
             /\ LinesFrom(t, w, i) = {LineAt(t, p)} \cup LinesFrom(t, w, p + m)
             /\ \A x \in LinesFrom(t, w, i) : x \in Nat \ {0} /\ LineAt(t, p) <= x
  <2>1. p \in 1..n /\ p \in Nat \ {0} /\ p >= i /\ Matches(t, p, w)
    BY <1>1, <1>2, <1>5
  <2>2. i < p + m /\ p + m <= n + m
    BY <1>1, <1>5, <2>1
  <2>3. p \in PlacesFrom(t, w, i)
    BY <2>1 DEF PlacesFrom, n
  <2>4. \A k \in PlacesFrom(t, w, p + m) : k \in PlacesFrom(t, w, i)
    <3>1. \A k \in (p + m)..n : k \in i..n
      BY <1>1, <2>1, <2>2
    <3> QED
      BY <3>1 DEF PlacesFrom, n
  <2>5. \A k \in p..(p + m - 1) : t[k] # "\n"
    BY <2>1, NoLineEnds DEF m
  <2>6. ASSUME NEW q \in PlacesFrom(t, w, i)
        PROVE  /\ q \in PlacesFrom(t, w, p + m) \/ LineAt(t, q) = LineAt(t, p)
               /\ LineAt(t, q) \in Nat \ {0} /\ LineAt(t, p) <= LineAt(t, q)
    <3>1. q \in i..n /\ Matches(t, q, w) /\ p <= q /\ q \in Nat \ {0}
      BY <1>2 DEF PlacesFrom, n
    <3>2. CASE q >= p + m
      BY <1>1, <2>1, <3>1, <3>2, LinesCount, LinesRise DEF PlacesFrom, n
    <3>3. CASE q < p + m
      <4>1. \A k \in p..(q - 1) : k \in p..(p + m - 1)
        BY <1>1, <2>1, <3>1, <3>3
      <4>2. LineAt(t, q) = LineAt(t, p)
        BY <2>1, <2>5, <3>1, <4>1, SameLine
      <4>3. LineAt(t, q) \in Nat \ {0}
        BY <3>1, LinesCount
      <4> QED
        BY <4>2, <4>3
    <3> QED
      BY <1>1, <2>1, <3>1, <3>2, <3>3
  <2> QED
    BY <2>1, <2>2, <2>3, <2>4, <2>6 DEF LinesFrom
<1> QED
  BY <1>1, <1>2, <1>3, <1>4, <1>5 DEF n, m, p

\* The lines from i on, but the first one if the search was on it already.
FurtherLines(t, w, i, last) ==
    IF Find(t, i, w) > Len(t) THEN 0
    ELSE Cardinality(LinesFrom(t, w, i) \ {LineAt(t, Find(t, i, w))})
            + IF LineAt(t, Find(t, i, w)) # last THEN 1 ELSE 0

\* What is further after the first occurrence are the other lines.
LEMMA OtherLines ==
    ASSUME NEW t \in Seq(Chars), NEW w \in Seq(Chars), w # <<>>, ~Holds(w, <<"\n">>),
           NEW i \in Nat \ {0}, Find(t, i, w) <= Len(t)
    PROVE  FurtherLines(t, w, Find(t, i, w) + Len(w), LineAt(t, Find(t, i, w)))
               = Cardinality(LinesFrom(t, w, i) \ {LineAt(t, Find(t, i, w))})
<1> DEFINE p == Find(t, i, w)
           l == LineAt(t, p)
           j == p + Len(w)
           q == Find(t, j, w)
           k == LineAt(t, q)
           L == LinesFrom(t, w, i)
           M == LinesFrom(t, w, j)
<1>1. /\ p \in Nat /\ i < j /\ IsFiniteSet(L) /\ L = {l} \cup M
      /\ \A x \in L : x \in Nat \ {0} /\ l <= x
  BY LinesOneByOne
<1>2. j \in Nat \ {0}
  <2>1. Len(w) \in Nat
    BY LenProperties
  <2> QED
    BY <1>1, <2>1
<1> HIDE DEF p, l, j, L
<1>3. /\ q \in Nat /\ IsFiniteSet(M)
      /\ q > Len(t) => M = {}
      /\ q <= Len(t) => k \in M /\ \A x \in M : x \in Nat \ {0} /\ k <= x
  BY <1>2, LinesOneByOne
<1>4. FurtherLines(t, w, j, l) = IF q > Len(t) THEN 0 ELSE Cardinality(M \ {k}) + IF k # l THEN 1 ELSE 0
  BY DEF FurtherLines
<1> HIDE DEF q, k, M
<1>5. L \ {l} = M \ {l}
  BY <1>1
<1>6. CASE q > Len(t)
  BY <1>3, <1>4, <1>5, <1>6, FS_EmptySet DEF p, l, j, L
<1>7. CASE ~(q > Len(t)) /\ k = l
  <2>1. Cardinality(M \ {l}) \in Nat
    BY <1>3, FS_Difference, FS_CardinalityType
  <2>2. FurtherLines(t, w, j, l) = Cardinality(M \ {l})
    BY <1>4, <1>7, <2>1
  <2> QED
    BY <1>5, <2>2 DEF p, l, j, L
<1>8. CASE ~(q > Len(t)) /\ k # l
  <2>1. Len(t) \in Nat
    BY LenProperties
  <2>2. k \in M /\ \A x \in M : k <= x /\ l <= x /\ x \in Nat
    BY <1>1, <1>3, <1>8, <2>1
  <2>3. l \notin M
    BY <1>1, <1>8, <2>2
  <2>4. M \ {l} = M
    BY <2>3
  <2>5. Cardinality(M \ {k}) = Cardinality(M) - 1 /\ Cardinality(M) \in Nat
    BY <1>3, <2>2, FS_RemoveElement, FS_CardinalityType
  <2>6. FurtherLines(t, w, j, l) = Cardinality(M)
    BY <1>4, <1>8, <2>5
  <2> QED
    BY <1>5, <2>4, <2>6 DEF p, l, j, L
<1> QED
  BY <1>6, <1>7, <1>8

\* From the start all lines are further.
LEMMA AllLines ==
    ASSUME NEW t \in Seq(Chars), NEW w \in Seq(Chars), w # <<>>, ~Holds(w, <<"\n">>)
    PROVE  FurtherLines(t, w, 1, 0) = Cardinality(LinesFrom(t, w, 1))
<1> DEFINE p == Find(t, 1, w)
           l == LineAt(t, p)
           L == LinesFrom(t, w, 1)
<1>1. /\ p \in Nat /\ IsFiniteSet(L)
      /\ p > Len(t) => L = {}
      /\ p <= Len(t) => l \in L /\ \A x \in L : x \in Nat \ {0}
  BY LinesOneByOne
<1>2. FurtherLines(t, w, 1, 0) = IF p > Len(t) THEN 0 ELSE Cardinality(L \ {l}) + IF l # 0 THEN 1 ELSE 0
  BY DEF FurtherLines
<1>3. Len(t) \in Nat
  BY LenProperties
<1> HIDE DEF p, l, L
<1>4. CASE p > Len(t)
  BY <1>1, <1>2, <1>4, FS_EmptySet DEF L
<1>5. CASE ~(p > Len(t))
  <2>1. l \in L /\ l # 0
    BY <1>1, <1>3, <1>5
  <2>2. Cardinality(L \ {l}) = Cardinality(L) - 1 /\ Cardinality(L) \in Nat
    BY <1>1, <2>1, FS_RemoveElement, FS_CardinalityType
  <2> QED
    BY <1>2, <1>5, <2>1, <2>2 DEF L
<1> QED
  BY <1>4, <1>5

\* total[i] is how many places a search from i finds, of N where it may start.
Totals(t, w, N, total) ==
    \A i \in 1..N : total[i] = IF Find(t, i, w) > Len(t) THEN 0
                               ELSE total[Find(t, i, w) + Len(w)] + 1

\* There are such numbers: a search goes on further on, so that the last place
\* is the first to be known.
LEMMA TotalsExist ==
    ASSUME NEW t \in Seq(Chars), NEW w \in Seq(Chars), w # <<>>, ~Holds(w, <<"\n">>)
    PROVE  \E total : Totals(t, w, Len(t) + Len(w) + 1, total)
<1> DEFINE n == Len(t)
           m == Len(w)
           N == n + m + 1
           F(i) == Find(t, i, w)
           step == [r \in 1..N |-> [f \in [1..N -> Nat] |->
                       IF F(N + 1 - r) > n THEN 0 ELSE f[N + 1 - (F(N + 1 - r) + m)] + 1]]
<1>1. n \in Nat /\ m \in Nat /\ N \in Nat
  BY LenProperties
<1>2. ASSUME NEW i \in 1..N
      PROVE  /\ F(i) \in Nat
             /\ F(i) <= n => F(i) + m \in 1..N /\ i < F(i) + m
  <2>1. /\ F(i) \in Nat
        /\ F(i) <= n => F(i) \in DOMAIN t /\ i < F(i) + m /\ F(i) + m <= n + m
    BY LinesOneByOne
  <2> HIDE DEF F
  <2> QED
    BY <1>1, <2>1
<1> HIDE DEF F, n, m
<1>3. ASSUME NEW r \in 1..N
      PROVE  /\ N + 1 - r \in 1..N
             /\ F(N + 1 - r) \in Nat
             /\ ~(F(N + 1 - r) > n) => N + 1 - (F(N + 1 - r) + m) \in 1..(r - 1)
  <2>1. N + 1 - r \in 1..N
    BY <1>1
  <2>2. /\ F(N + 1 - r) \in Nat
        /\ F(N + 1 - r) <= n => F(N + 1 - r) + m \in 1..N /\ N + 1 - r < F(N + 1 - r) + m
    BY <1>2, <2>1
  <2> HIDE DEF N
  <2> QED
    BY <1>1, <2>1, <2>2
<1> HIDE DEF N
<1>4. LooksBack(N, Nat, step)
  <2>1. \A r \in 1..N : \A k \in 1..(r - 1) : k \in 1..N
    BY <1>1
  <2>2. step \in [1..N -> [[1..N -> Nat] -> Nat]]
    <3>1. ASSUME NEW r \in 1..N, NEW f \in [1..N -> Nat]
          PROVE  (IF F(N + 1 - r) > n THEN 0 ELSE f[N + 1 - (F(N + 1 - r) + m)] + 1) \in Nat
      <4>1. ~(F(N + 1 - r) > n) => N + 1 - (F(N + 1 - r) + m) \in 1..N
        BY <1>3, <2>1
      <4>2. ~(F(N + 1 - r) > n) => f[N + 1 - (F(N + 1 - r) + m)] \in Nat
        BY <4>1
      <4> QED
        BY <4>2
    <3> QED
      BY <3>1
  <2>3. ASSUME NEW r \in 1..N, NEW f \in [1..N -> Nat], NEW g \in [1..N -> Nat],
               \A k \in 1..(r - 1) : f[k] = g[k]
        PROVE  step[r][f] = step[r][g]
    BY <1>3, <2>3
  <2> HIDE DEF step
  <2> QED
    BY <2>2, <2>3 DEF LooksBack
<1>5. HasFixed(N, Nat, step)
  <2>1. 0 \in Nat
    OBVIOUS
  <2> HIDE DEF step
  <2> QED
    BY <1>1, <1>4, <2>1, CourseOfValues
<1>6. PICK f \in [1..N -> Nat] : \A r \in 1..N : f[r] = step[r][f]
  BY <1>5 DEF HasFixed, IsFixed
<1> DEFINE total == [i \in 1..N |-> f[N + 1 - i]]
<1>7. ASSUME NEW i \in 1..N
      PROVE  total[i] = IF F(i) > n THEN 0 ELSE total[F(i) + m] + 1
  <2>1. N + 1 - i \in 1..N /\ N + 1 - (N + 1 - i) = i
    BY <1>1
  <2>2. f[N + 1 - i] = IF F(i) > n THEN 0 ELSE f[N + 1 - (F(i) + m)] + 1
    BY <1>6, <2>1
  <2>3. total[i] = f[N + 1 - i]
    OBVIOUS
  <2>4. ~(F(i) > n) => F(i) + m \in 1..N
    BY <1>1, <1>2
  <2>5. ~(F(i) > n) => total[F(i) + m] = f[N + 1 - (F(i) + m)]
    BY <2>4
  <2> HIDE DEF total
  <2> QED
    BY <2>2, <2>3, <2>5
<1>8. Totals(t, w, N, total)
  <2> HIDE DEF total
  <2> QED
    BY <1>7 DEF Totals, F, n, m
<1> QED
  BY <1>8 DEF N, n, m

\* A count is over the lines that the word starts on.
LEMMA CountsLines ==
    ASSUME NEW t \in Seq(Chars), NEW w \in Seq(Chars), w # <<>>, ~Holds(w, <<"\n">>)
    PROVE  CountLiteral(t, w)[1] = Cardinality(LinesFrom(t, w, 1))
<1> DEFINE n == Len(t)
           m == Len(w)
           N == n + m + 1
           starts == LineStarts(t)
           F(i) == Find(t, i, w)
           one(f, i, last) ==
               IF F(i) > n THEN <<0, 0>>
               ELSE <<f[F(i) + m][LineOf(starts, F(i))][1]
                          + (IF LineOf(starts, F(i)) # last THEN 1 ELSE 0),
                      f[F(i) + m][LineOf(starts, F(i))][2] + 1>>
           step(f) == [i \in 1..N |-> [last \in 0..(n + 1) |-> one(f, i, last)]]
           from == CHOOSE f : f = step(f)
<1>1. n \in Nat /\ m \in Nat /\ N \in Nat /\ 1 \in 1..N /\ 0 \in 0..(n + 1)
  BY LenProperties
<1>2. ASSUME NEW i \in 1..N
      PROVE  /\ F(i) \in Nat
             /\ F(i) <= n => /\ F(i) + m \in 1..N /\ i < F(i) + m
                             /\ LineOf(starts, F(i)) = LineAt(t, F(i))
                             /\ LineAt(t, F(i)) \in 0..(n + 1)
                             /\ FurtherLines(t, w, F(i) + m, LineAt(t, F(i)))
                                    = Cardinality(LinesFrom(t, w, i) \ {LineAt(t, F(i))})
  <2>1. /\ F(i) \in Nat
        /\ F(i) <= n => F(i) \in DOMAIN t /\ i < F(i) + m /\ F(i) + m <= n + m
    BY LinesOneByOne
  <2>2. F(i) <= n => FurtherLines(t, w, F(i) + m, LineAt(t, F(i)))
                         = Cardinality(LinesFrom(t, w, i) \ {LineAt(t, F(i))})
    BY OtherLines
  <2>3. /\ Cardinality(starts) \in Nat /\ Cardinality(starts) <= n + 1
        /\ \A p \in DOMAIN t : LineOf(starts, p) = LineAt(t, p) /\ LineAt(t, p) \in 1..Cardinality(starts)
    BY LinesIndexed
  <2> HIDE DEF F, starts
  <2> QED
    BY <1>1, <2>1, <2>2, <2>3
<1>3. PICK total : Totals(t, w, N, total)
  BY TotalsExist
<1>4. CountLiteral(t, w) = from[1][0]
  BY DEF CountLiteral
<1> HIDE DEF F, n, m, starts
<1>5. ASSUME NEW i \in 1..N, NEW last
      PROVE  FurtherLines(t, w, i, last) =
                 IF F(i) > n THEN 0
                 ELSE FurtherLines(t, w, F(i) + m, LineOf(starts, F(i)))
                          + (IF LineOf(starts, F(i)) # last THEN 1 ELSE 0)
  <2>1. FurtherLines(t, w, i, last) =
            IF F(i) > n THEN 0
            ELSE Cardinality(LinesFrom(t, w, i) \ {LineAt(t, F(i))})
                     + IF LineAt(t, F(i)) # last THEN 1 ELSE 0
    BY DEF FurtherLines, F, n
  <2>2. CASE F(i) > n
    BY <2>1, <2>2
  <2>3. CASE ~(F(i) > n)
    BY <1>1, <1>2, <2>1, <2>3
  <2> QED
    BY <2>2, <2>3
<1> HIDE DEF N
<1> DEFINE sol == [i \in 1..N |-> [last \in 0..(n + 1) |->
                      <<FurtherLines(t, w, i, last), total[i]>>]]
<1>6. sol = step(sol)
  <2>1. ASSUME NEW i \in 1..N, NEW last \in 0..(n + 1)
        PROVE  <<FurtherLines(t, w, i, last), total[i]>> = one(sol, i, last)
    <3>1. total[i] = IF F(i) > n THEN 0 ELSE total[F(i) + m] + 1
      BY <1>3 DEF Totals, F, n, m
    <3>2. CASE F(i) > n
      BY <1>5, <3>1, <3>2
    <3>3. CASE ~(F(i) > n)
      <4> DEFINE j == F(i) + m
                 l == LineOf(starts, F(i))
      <4>1. j \in 1..N /\ l \in 0..(n + 1)
        <5>1. F(i) \in Nat
          BY <1>2
        <5>2. F(i) <= n
          BY <1>1, <3>3, <5>1
        <5>3. j \in 1..N /\ l = LineAt(t, F(i)) /\ LineAt(t, F(i)) \in 0..(n + 1)
          BY <1>2, <5>2
        <5> QED
          BY <5>3
      <4>2. FurtherLines(t, w, i, last) = FurtherLines(t, w, j, l) + (IF l # last THEN 1 ELSE 0)
        BY <1>5, <3>3
      <4>3. total[i] = total[j] + 1
        BY <3>1, <3>3
      <4>4. one(sol, i, last) = <<sol[j][l][1] + (IF l # last THEN 1 ELSE 0), sol[j][l][2] + 1>>
        BY <3>3
      <4> HIDE DEF j, l, one
      <4>5. sol[j][l] = <<FurtherLines(t, w, j, l), total[j]>>
        BY <4>1
      <4> HIDE DEF sol
      <4>6. sol[j][l][1] = FurtherLines(t, w, j, l) /\ sol[j][l][2] = total[j]
        BY <4>5
      <4> QED
        BY <4>2, <4>3, <4>4, <4>6
    <3> QED
      BY <3>2, <3>3
  <2> DEFINE val(i) == [last \in 0..(n + 1) |-> <<FurtherLines(t, w, i, last), total[i]>>]
             new(i) == [last \in 0..(n + 1) |-> one(sol, i, last)]
  <2>2. \A i \in 1..N : val(i) = new(i)
    <3> HIDE DEF sol, one
    <3> QED
      BY <2>1
  <2>3. sol = [i \in 1..N |-> val(i)] /\ step(sol) = [i \in 1..N |-> new(i)]
    OBVIOUS
  <2> HIDE DEF sol, step, val, new
  <2> QED
    BY <2>2, <2>3
<1>7. from = step(from)
  <2> HIDE DEF sol, step
  <2> QED
    BY <1>6
<1> HIDE DEF from, sol
<1>8. \A i \in 1..N : \A last \in 0..(n + 1) : from[i][last] = one(from, i, last)
  <2> HIDE DEF one
  <2>1. \A i \in 1..N : from[i] = [last \in 0..(n + 1) |-> one(from, i, last)]
    BY <1>7, Zenon
  <2> QED
    BY <2>1, Zenon
<1>9. \A i \in 1..N : \A last \in 0..(n + 1) : from[i][last][1] = FurtherLines(t, w, i, last)
  <2> DEFINE D == {i \in 1..N : \E last \in 0..(n + 1) :
                      from[i][last][1] # FurtherLines(t, w, i, last)}
  <2> SUFFICES ASSUME D # {}
               PROVE  FALSE
    OBVIOUS
  <2>1. D \in SUBSET (0..N)
    BY <1>1
  <2>2. PICK i \in D : \A k \in D : k <= i
    <3> HIDE DEF D
    <3> QED
      BY <1>1, <2>1, GreatestNatural
  <2>3. PICK last \in 0..(n + 1) : from[i][last][1] # FurtherLines(t, w, i, last)
    OBVIOUS
  <2>4. i \in 1..N
    OBVIOUS
  <2>5. CASE F(i) > n
    <3>1. FurtherLines(t, w, i, last) = 0
      BY <1>5, <2>4, <2>5
    <3>2. from[i][last] = <<0, 0>>
      BY <1>8, <2>3, <2>4, <2>5
    <3>3. from[i][last][1] = 0
      BY <3>2
    <3> QED
      BY <2>3, <3>1, <3>3
  <2>6. CASE ~(F(i) > n)
    <3> DEFINE j == F(i) + m
               l == LineOf(starts, F(i))
    <3>1. j \in 1..N /\ l \in 0..(n + 1) /\ i < j
      <4>1. F(i) \in Nat
        BY <1>2, <2>4
      <4>2. F(i) <= n
        BY <1>1, <2>6, <4>1
      <4>3. j \in 1..N /\ i < j /\ l = LineAt(t, F(i)) /\ LineAt(t, F(i)) \in 0..(n + 1)
        BY <1>2, <2>4, <4>2
      <4> QED
        BY <4>3
    <3>2. FurtherLines(t, w, i, last) = FurtherLines(t, w, j, l) + (IF l # last THEN 1 ELSE 0)
      BY <1>5, <2>4, <2>6
    <3>3. from[i][last] = <<from[j][l][1] + (IF l # last THEN 1 ELSE 0), from[j][l][2] + 1>>
      BY <1>8, <2>3, <2>4, <2>6
    <3> HIDE DEF j, l
    <3>4. j \notin D
      <4> HIDE DEF D
      <4> QED
        BY <1>1, <2>2, <2>4, <3>1
    <3>5. from[j][l][1] = FurtherLines(t, w, j, l)
      BY <3>1, <3>4
    <3>6. from[i][last][1] = from[j][l][1] + (IF l # last THEN 1 ELSE 0)
      BY <3>3
    <3> QED
      BY <2>3, <3>2, <3>5, <3>6
  <2> QED
    BY <2>5, <2>6
<1>10. from[1][0][1] = FurtherLines(t, w, 1, 0)
  BY <1>1, <1>9
<1> QED
  BY <1>4, <1>10, AllLines

\* A line of a text, without its end.
TextLine(t, x) == SelectSeqAt(t, OnLine(t, x))

\* A count is of the lines that hold the word.
LEMMA CountIsOfLines ==
    ASSUME NEW t \in Seq(Chars), NEW w \in Seq(Chars), ~Holds(w, <<"\n">>)
    PROVE  CountLiteral(t, w)[1]
               = Cardinality({x \in 1..Cardinality(LineStarts(t)) : w # <<>> /\ Holds(TextLine(t, x), w)})
<1> DEFINE C == Cardinality(LineStarts(t))
           held == {x \in 1..C : w # <<>> /\ Holds(TextLine(t, x), w)}
<1>1. CASE w = <<>>
  <2>1. CountLiteral(t, w) = <<0, 0>>
    BY <1>1 DEF CountLiteral
  <2>2. held = {}
    BY <1>1
  <2> HIDE DEF held
  <2>3. CountLiteral(t, w)[1] = 0
    BY <2>1
  <2>4. Cardinality(held) = 0
    BY <2>2, FS_EmptySet
  <2> QED
    BY <2>3, <2>4 DEF held
<1>2. CASE w # <<>>
  <2>1. DOMAIN t = 1..Len(t) /\ \A p \in DOMAIN t : LineAt(t, p) \in 1..C
    BY LinesIndexed, LenProperties
  <2> HIDE DEF C
  <2>2. \A x : Holds(TextLine(t, x), w) <=> \E p \in DOMAIN t : LineAt(t, p) = x /\ Matches(t, p, w)
    BY <1>2, FoundOnLine DEF TextLine
  <2>3. LinesFrom(t, w, 1) = held
    <3>1. PlacesFrom(t, w, 1) = {p \in DOMAIN t : Matches(t, p, w)}
      BY <2>1 DEF PlacesFrom
    <3> QED
      BY <1>2, <2>1, <2>2, <3>1 DEF LinesFrom
  <2>4. CountLiteral(t, w)[1] = Cardinality(LinesFrom(t, w, 1))
    BY <1>2, CountsLines
  <2> QED
    BY <2>3, <2>4 DEF C
<1> QED
  BY <1>1, <1>2

\* What a boolean search keeps, line by line.
Exact(ops) == \E o \in ToSet(ops) : HasCapital(o.term)

HasTerm(t, ops, x, o) == Holds(IF Exact(ops) THEN TextLine(t, x) ELSE Lower(TextLine(t, x)), o.term)

Terms(ops, list) == {o \in ToSet(ops) : o.list = list /\ o.term # <<>>}

Described(t, ops, x) ==
    /\ \A o \in Terms(ops, "all") : HasTerm(t, ops, x, o)
    /\ Terms(ops, "any") # {} => \E o \in Terms(ops, "any") : HasTerm(t, ops, x, o)
    /\ \A o \in Terms(ops, "none") : ~HasTerm(t, ops, x, o)

\* What may be asked for.
AreOperands(R) ==
    \A o \in R : /\ o.list \in {"all", "any", "none"} /\ o.term \in Seq(Chars)
                 /\ ~Holds(o.term, <<"\n">>)

\* The text that is searched has a term where its line has it.
LEMMA TermsOnLines ==
    ASSUME NEW t \in Seq(Chars), NEW w \in Seq(Chars), w # <<>>, ~Holds(w, <<"\n">>),
           NEW exact \in BOOLEAN, NEW x
    PROVE  (\E p \in DOMAIN t : /\ LineOf(LineStarts(t), p) = x
                                /\ Matches(IF exact THEN t ELSE Lower(t), p, w))
               <=> Holds(IF exact THEN TextLine(t, x) ELSE Lower(TextLine(t, x)), w)
<1>1. \A p \in DOMAIN t : LineOf(LineStarts(t), p) = LineAt(t, p)
  BY LinesIndexed
<1>2. CASE exact
  <2>1. Holds(TextLine(t, x), w) <=> \E p \in DOMAIN t : LineAt(t, p) = x /\ Matches(t, p, w)
    BY FoundOnLine DEF TextLine
  <2> QED
    BY <1>1, <1>2, <2>1
<1>3. CASE ~exact
  <2> DEFINE low == Lower(t)
  <2>1. /\ low \in Seq(Chars) /\ DOMAIN low = DOMAIN t
        /\ \A p \in DOMAIN t : LineAt(low, p) = LineAt(t, p)
        /\ Lower(TextLine(t, x)) = TextLine(low, x)
    BY LoweredLine DEF TextLine
  <2> HIDE DEF low
  <2>2. Holds(TextLine(low, x), w) <=> \E p \in DOMAIN low : LineAt(low, p) = x /\ Matches(low, p, w)
    BY <2>1, FoundOnLine DEF TextLine
  <2> QED
    BY <1>1, <1>3, <2>1, <2>2 DEF low
<1> QED
  BY <1>2, <1>3

\* The empty word is on every line.
LEMMA EmptyWordIsThere ==
    ASSUME NEW t \in Seq(Chars)
    PROVE  ContainsWord(t, <<>>)
<1>1. DOMAIN Lower(t) = 1..Len(t) /\ Len(t) \in Nat
  BY LenProperties DEF Lower
<1>2. ~HasCapital(<<>>)
  BY DEF HasCapital
<1>3. Lower(t) \in Seq(Chars) /\ DOMAIN Lower(t) = DOMAIN t
  BY LoweredLine
<1>4. Len(Lower(t)) \in Nat
  BY <1>3, LenProperties
<1>5. 1 \in 1..(Len(Lower(t)) + 1) /\ 1 + Len(<<>>) - 1 <= Len(Lower(t)) /\ DOMAIN <<>> = {}
  BY <1>4
<1>6. Matches(Lower(t), 1, <<>>)
  BY <1>5 DEF Matches
<1> QED
  BY <1>2, <1>5, <1>6 DEF ContainsWord, Holds

\* The first of finitely many lines, as many as there may be, are all of them.
LEMMA EnoughHits ==
    ASSUME NEW C \in Nat, NEW max \in Nat, C <= max, NEW hits \in SUBSET (1..C)
    PROVE  {x \in hits : Cardinality({h \in hits : h <= x}) <= max} = hits
<1> SUFFICES ASSUME NEW x \in hits
             PROVE  Cardinality({h \in hits : h <= x}) <= max
  OBVIOUS
<1> DEFINE S == {h \in hits : h <= x}
<1>1. IsFiniteSet(1..C) /\ Cardinality(1..C) = C
  <2>1. 1 \in Int /\ C \in Int /\ 1 <= C + 1
    OBVIOUS
  <2> QED
    BY <2>1, FS_Interval
<1>2. S \in SUBSET (1..C)
  OBVIOUS
<1> HIDE DEF S
<1>3. Cardinality(S) <= C /\ Cardinality(S) \in Nat
  BY <1>1, <1>2, FS_Subset, FS_CardinalityType
<1>4. Cardinality(S) <= max
  BY <1>3
<1> QED
  BY <1>4 DEF S

\* A boolean search keeps the lines that its operands describe.
LEMMA SearchKeeps ==
    ASSUME NEW t \in Seq(Chars), NEW R, AreOperands(R),
           NEW ops \in Seq(R), Len(ops) <= MaxOperands
    PROVE  SearchBool(t, <<>>, ops, Len(t) + 1)
               = {x \in 1..Cardinality(LineStarts(t)) : Described(t, ops, x)}
<1> DEFINE taken == Operands(ops)
           exact == \E i \in DOMAIN taken : HasCapital(taken[i].term)
           hay == IF exact THEN t ELSE Lower(t)
           starts == LineStarts(t)
           C == Cardinality(starts)
           present(n) ==
               {i \in DOMAIN taken :
                   \E p \in DOMAIN t : LineOf(starts, p) = n /\ Matches(hay, p, taken[i].term)}
           bits(list) == {i \in DOMAIN taken : taken[i].list = list}
           line(n) == SelectSeqAt(t, {p \in DOMAIN t : LineOf(starts, p) = n})
           hit(n) == /\ bits("all") \subseteq present(n)
                     /\ bits("any") # {} => bits("any") \cap present(n) # {}
                     /\ bits("none") \cap present(n) = {}
                     /\ ContainsWord(line(n), <<>>)
           hits == {n \in 1..C : hit(n)}
           kept == {n \in 1..C : Described(t, ops, n)}
<1>1. SearchBool(t, <<>>, ops, Len(t) + 1)
          = {n \in hits : Cardinality({h \in hits : h <= n}) <= Len(t) + 1}
  BY DEF SearchBool
<1>2. taken \in Seq(R) /\ ToSet(taken) = {o \in ToSet(ops) : o.term # <<>>}
  BY OperandsAreTerms DEF AreOperands
<1> HIDE DEF taken
<1>3. /\ DOMAIN taken = 1..Len(taken) /\ ToSet(taken) \in SUBSET R
      /\ \A i \in DOMAIN taken : taken[i] \in ToSet(taken)
      /\ \A o \in ToSet(taken) : \E i \in DOMAIN taken : taken[i] = o
  BY <1>2, ValuesOfSequence
<1>4. exact <=> Exact(ops)
  <2>1. \A o \in ToSet(ops) : HasCapital(o.term) => o.term # <<>>
    BY DEF HasCapital
  <2>2. ASSUME NEW o \in ToSet(ops), HasCapital(o.term)
        PROVE  exact
    <3>1. o \in ToSet(taken)
      BY <1>2, <2>1, <2>2
    <3>2. PICK i \in DOMAIN taken : taken[i] = o
      BY <1>3, <3>1
    <3> QED
      BY <2>2, <3>2
  <2>3. ASSUME NEW i \in DOMAIN taken, HasCapital(taken[i].term)
        PROVE  Exact(ops)
    <3>1. taken[i] \in ToSet(ops)
      BY <1>2, <1>3
    <3> QED
      BY <2>3, <3>1 DEF Exact
  <2> QED
    BY <2>2, <2>3 DEF Exact
<1>5. ASSUME NEW n, NEW i \in DOMAIN taken
      PROVE  i \in present(n) <=> HasTerm(t, ops, n, taken[i])
  <2>1. taken[i] \in R /\ taken[i].term # <<>>
    BY <1>2, <1>3
  <2> DEFINE w == taken[i].term
  <2>2. w \in Seq(Chars) /\ w # <<>> /\ ~Holds(w, <<"\n">>)
    BY <2>1 DEF AreOperands
  <2> HIDE DEF w
  <2>3. exact \in BOOLEAN
    OBVIOUS
  <2>4. hay = IF exact THEN t ELSE Lower(t)
    OBVIOUS
  <2> HIDE DEF exact, hay
  <2>5. (\E p \in DOMAIN t : /\ LineOf(LineStarts(t), p) = n
                             /\ Matches(IF exact THEN t ELSE Lower(t), p, w))
            <=> Holds(IF exact THEN TextLine(t, n) ELSE Lower(TextLine(t, n)), w)
    BY <2>2, <2>3, TermsOnLines
  <2> QED
    BY <1>4, <2>4, <2>5 DEF HasTerm, w
<1>6. ASSUME NEW n
      PROVE  ContainsWord(line(n), <<>>)
  <2>1. line(n) \in Seq(Chars)
    <3> DEFINE S == {p \in DOMAIN t : LineOf(starts, p) = n}
    <3>1. CASE S = {}
      BY <3>1 DEF SelectSeqAt
    <3>2. CASE S # {}
      <4>1. DOMAIN t = 1..Len(t) /\ Len(t) \in Nat
        BY LenProperties
      <4>2. S \in SUBSET (1..Len(t)) /\ S \in SUBSET Nat /\ S \in SUBSET (0..Len(t))
        BY <4>1
      <4>3. line(n) = SubSeq(t, Min(S), Max(S))
        BY <3>2 DEF SelectSeqAt
      <4> HIDE DEF S, line
      <4> DEFINE a == Min(S)
                 b == Max(S)
      <4>4. a \in S /\ b \in S /\ a <= b
        BY <3>2, <4>1, <4>2, MinIsIn, MaxIsIn
      <4> HIDE DEF a, b
      <4>5. a \in 1..(Len(t) + 1) /\ b \in (a - 1)..Len(t)
        BY <4>1, <4>2, <4>4
      <4> QED
        BY <4>3, <4>5, PartOf DEF a, b
    <3> QED
      BY <3>1, <3>2
  <2> HIDE DEF line
  <2> QED
    BY <2>1, EmptyWordIsThere
<1> HIDE DEF exact, hay, present, line
<1>7. ASSUME NEW n
      PROVE  hit(n) <=> Described(t, ops, n)
  <2>1. \A list : \A o \in Terms(ops, list) : \E i \in bits(list) : taken[i] = o
    <3> SUFFICES ASSUME NEW list, NEW o \in Terms(ops, list)
                 PROVE  \E i \in bits(list) : taken[i] = o
      OBVIOUS
    <3>1. o \in ToSet(taken) /\ o.list = list
      BY <1>2 DEF Terms
    <3>2. PICK i \in DOMAIN taken : taken[i] = o
      BY <1>3, <3>1
    <3> QED
      BY <3>1, <3>2
  <2>2. \A list : \A i \in bits(list) : taken[i] \in Terms(ops, list) /\ i \in DOMAIN taken
    BY <1>2, <1>3 DEF Terms
  <2> HIDE DEF bits
  <2>3. bits("all") \subseteq present(n) <=> \A o \in Terms(ops, "all") : HasTerm(t, ops, n, o)
    BY <1>5, <2>1, <2>2
  <2>4. (bits("any") # {} => bits("any") \cap present(n) # {})
            <=> (Terms(ops, "any") # {} => \E o \in Terms(ops, "any") : HasTerm(t, ops, n, o))
    BY <1>5, <2>1, <2>2
  <2>5. bits("none") \cap present(n) = {} <=> \A o \in Terms(ops, "none") : ~HasTerm(t, ops, n, o)
    BY <1>5, <2>1, <2>2
  <2> QED
    BY <1>6, <2>3, <2>4, <2>5 DEF Described
<1> HIDE DEF hit
<1>8. hits = kept
  BY <1>7
<1>9. C \in Nat /\ Len(t) + 1 \in Nat /\ C <= Len(t) + 1
  BY LinesIndexed, LenProperties
<1> HIDE DEF C
<1>10. hits \in SUBSET (1..C)
  OBVIOUS
<1> HIDE DEF hits
<1>11. {n \in hits : Cardinality({h \in hits : h <= n}) <= Len(t) + 1} = hits
  BY <1>9, <1>10, EnoughHits
<1> QED
  BY <1>1, <1>8, <1>11 DEF C

\* A request for a search is a sequence of operands.
SearchInv == task = "search" => "search" \in DOMAIN Samples /\ request \in Seq(Tokens["search"])

LEMMA SearchInitInvariant == MatchInit => SearchInv
<1>1. <<>> \in Seq(Tokens["search"])
  OBVIOUS
<1> QED
  BY <1>1, MatchingAssumption DEF MatchInit, SearchInv

LEMMA SearchNextInvariant == SearchInv /\ [MatchNext]_matchVars => SearchInv'
<1> SUFFICES ASSUME SearchInv, [MatchNext]_matchVars, task' = "search"
             PROVE  "search" \in DOMAIN Samples /\ request' \in Seq(Tokens["search"])
  BY DEF SearchInv
<1>1. CASE UNCHANGED matchVars
  BY <1>1 DEF SearchInv, matchVars
<1>2. ASSUME NEW token \in Tokens[task], Extend(token)
      PROVE  "search" \in DOMAIN Samples /\ request' \in Seq(Tokens["search"])
  <2>1. task = "search" /\ request' = Append(request, token)
    BY <1>2 DEF Extend
  <2>2. "search" \in DOMAIN Samples /\ request \in Seq(Tokens["search"])
    BY <2>1 DEF SearchInv
  <2> QED
    BY <1>2, <2>1, <2>2, AppendProperties
<1> QED
  BY <1>1, <1>2 DEF MatchNext

LEMMA ExactWhereSearched == SearchInv => SearchIsExact
<1> SUFFICES ASSUME SearchInv, task = "search", \A o \in ToSet(request) : ~Holds(o.term, <<"\n">>),
                    NEW t \in Samples[task]
             PROVE  LET lines == 1..Cardinality(LineStarts(t))
                        line(n) == SelectSeqAt(t, {p \in DOMAIN t : LineAt(t, p) = n /\ t[p] # "\n"})
                        exact == \E o \in ToSet(request) : HasCapital(o.term)
                        has(n, o) == Holds(IF exact THEN line(n) ELSE Lower(line(n)), o.term)
                        terms(list) == {o \in ToSet(request) : o.list = list /\ o.term # <<>>}
                        kept == {n \in lines :
                                    /\ \A o \in terms("all") : has(n, o)
                                    /\ terms("any") # {} => \E o \in terms("any") : has(n, o)
                                    /\ \A o \in terms("none") : ~has(n, o)}
                    IN  /\ Len(request) <= MaxOperands => SearchBool(t, <<>>, request, Len(t) + 1) = kept
                        /\ \A o \in ToSet(request) :
                                CountLiteral(t, o.term)[1]
                                    = Cardinality({n \in lines : o.term # <<>> /\ Holds(line(n), o.term)})
  BY DEF SearchIsExact
<1> DEFINE R == ToSet(request)
           C == Cardinality(LineStarts(t))
<1>1. request \in Seq(Tokens["search"]) /\ t \in Seq(STRING)
      /\ \A o \in Tokens["search"] : o.list \in {"all", "any", "none"} /\ o.term \in Seq(STRING)
  BY MatchingAssumption DEF SearchInv
<1>2. R \in SUBSET Tokens["search"] /\ request \in Seq(R)
  <2>1. /\ Len(request) \in Nat /\ DOMAIN request = 1..Len(request)
        /\ R \in SUBSET Tokens["search"] /\ \A i \in 1..Len(request) : request[i] \in R
    BY <1>1, ValuesOfSequence
  <2>2. request = [i \in 1..Len(request) |-> request[i]]
    BY <1>1, LenProperties
  <2> HIDE DEF R
  <2>3. request \in [1..Len(request) -> R]
    BY <2>1, <2>2
  <2> QED
    BY <2>1, <2>3, IsASeq
<1>3. t \in Seq(Chars) /\ \A o \in R : o.term \in Seq(Chars)
  <2>1. STRING \subseteq Chars
    BY DEF Chars
  <2>2. Seq(STRING) \subseteq Seq(Chars)
    BY <2>1, SeqMonotonic
  <2> QED
    BY <1>1, <1>2, <2>2
<1>4. AreOperands(R)
  BY <1>1, <1>2, <1>3 DEF AreOperands
<1>5. \A o \in R : CountLiteral(t, o.term)[1]
                       = Cardinality({x \in 1..C : o.term # <<>> /\ Holds(TextLine(t, x), o.term)})
  BY <1>3, CountIsOfLines
<1>6. Len(request) <= MaxOperands =>
          SearchBool(t, <<>>, request, Len(t) + 1) = {x \in 1..C : Described(t, request, x)}
  BY <1>2, <1>3, <1>4, SearchKeeps
<1> QED
  BY <1>5, <1>6 DEF Described, HasTerm, Terms, Exact, TextLine, OnLine

\* A boolean search keeps the lines that its terms describe and a count is of
\* the lines that hold its term, for texts, terms and requests of any length.
THEOREM SearchAlwaysExact == MatchSpec => []SearchIsExact
<1>1. SearchInv => SearchIsExact
  BY ExactWhereSearched
<1> QED
  BY <1>1, SearchInitInvariant, SearchNextInvariant, PTL DEF MatchSpec

=============================================================================
