------------------------------ MODULE Recursion ------------------------------
(***************************************************************************)
(* Induction on natural numbers and what follows from it for functions     *)
(* defined by recursion, and facts about parts of sequences. The induction *)
(* theorems of the library take the property as an operator; here it is    *)
(* membership in a set, and induction follows from the well-foundedness of *)
(* strict inclusion on finite sets. A recursion is given by its steps,     *)
(* functions on the values X it runs through, and what it computes is      *)
(* described by the sequence of these values, one for each step: that is   *)
(* what proofs about it use.                                               *)
(***************************************************************************)
EXTENDS Integers, SequencesExt, FiniteSetTheorems, SequenceTheorems,
        WellFoundedInduction, TLAPS

\* Every non-empty set of natural numbers has a least element: the intervals
\* 0..n are finite, and strict inclusion of finite sets is well-founded.
LEMMA LeastNatural ==
    ASSUME NEW S \in SUBSET Nat, S # {}
    PROVE  \E n \in S : \A m \in S : n <= m
<1> DEFINE T == {0..n : n \in S}
<1>1. T \subseteq FiniteSubsetsOf(Nat)
  <2> SUFFICES ASSUME NEW n \in S
               PROVE  0..n \in FiniteSubsetsOf(Nat)
    OBVIOUS
  <2>1. n \in Int /\ 0 \in Int
    OBVIOUS
  <2>2. IsFiniteSet(0..n)
    BY <2>1, FS_Interval
  <2> QED
    BY <2>2 DEF FiniteSubsetsOf
<1>2. T # {}
  OBVIOUS
<1>3. PICK x \in T : \A y \in T : <<y, x>> \notin StrictSubsetOrdering(Nat)
  <2> HIDE DEF T
  <2> QED
    BY <1>1, <1>2, FS_StrictSubsetOrderingWellFounded, WFMin
<1>4. PICK n \in S : x = 0..n
  BY <1>3
<1>5. ASSUME NEW m \in S, ~(n <= m)
      PROVE  FALSE
  <2>1. 0..m \in T
    OBVIOUS
  <2>2. 0..m \subseteq 0..n /\ 0..m # 0..n
    <3>1. n \in Nat /\ m \in Nat /\ m < n
      BY <1>5
    <3>2. n \in 0..n /\ n \notin 0..m
      BY <3>1
    <3>3. 0..m \subseteq 0..n
      BY <3>1
    <3> QED
      BY <3>2, <3>3
  <2>3. <<0..m, 0..n>> \in StrictSubsetOrdering(Nat)
    BY <2>2 DEF StrictSubsetOrdering
  <2> QED
    BY <2>1, <2>3, <1>3, <1>4
<1> QED
  BY <1>5

\* Induction, for the property of being in a set.
LEMMA NaturalInduction ==
    ASSUME NEW S, 0 \in S, \A n \in Nat : n \in S => n + 1 \in S
    PROVE  Nat \subseteq S
<1> SUFFICES ASSUME Nat \ S # {}
             PROVE  FALSE
  OBVIOUS
<1>1. PICK n \in Nat \ S : \A m \in Nat \ S : n <= m
  BY LeastNatural
<1>2. n # 0 /\ n - 1 \in Nat /\ ~(n <= n - 1)
  BY <1>1
<1>3. n - 1 \in S
  BY <1>1, <1>2
<1>4. n - 1 + 1 \in S
  BY <1>2, <1>3
<1>5. n - 1 + 1 = n
  BY <1>1
<1> QED
  BY <1>1, <1>4, <1>5

\* Every set of natural numbers with a bound has a greatest element.
LEMMA GreatestNatural ==
    ASSUME NEW n \in Nat, NEW S \in SUBSET (0..n), S # {}
    PROVE  \E m \in S : \A k \in S : k <= m
<1> DEFINE T == {n - k : k \in S}
<1>1. T \in SUBSET Nat /\ T # {}
  <2>1. \A k \in S : k \in 0..n /\ n - k \in Nat
    OBVIOUS
  <2> QED
    BY <2>1
<1>2. PICK m \in T : \A k \in T : m <= k
  BY <1>1, LeastNatural
<1>3. PICK k \in S : m = n - k
  BY <1>2
<1>4. ASSUME NEW j \in S
      PROVE  j <= k
  <2>1. n - k <= n - j
    BY <1>2, <1>3, <1>4
  <2> QED
    BY <2>1
<1> QED
  BY <1>4

\* The n steps of a recursion over the values X.
IsSteps(n, X, step) == step \in [1..n -> [X -> X]]

\* f is what they make of x, one after the other.
Iterates(n, x, step, f) ==
    /\ DOMAIN f = 0..n
    /\ f[0] = x
    /\ \A i \in 1..n : f[i] = step[i][f[i - 1]]

\* The recursion has a function that satisfies it, with values in X.
HasIterates(n, X, x, step) == \E f \in [0..n -> X] : Iterates(n, x, step, f)

\* A function defined by recursion on 0..n exists.
LEMMA RecursiveFunction ==
    ASSUME NEW n \in Nat, NEW X, NEW x \in X, NEW step, IsSteps(n, X, step)
    PROVE  HasIterates(n, X, x, step)
<1> step \in [1..n -> [X -> X]]
  BY DEF IsSteps
<1> DEFINE Good(f, m) ==
        f[0] = x /\ \A i \in 1..m : f[i] = step[i][f[i - 1]]
    S == {m \in Nat : m <= n => \E f \in [0..m -> X] : Good(f, m)}
<1>1. 0 \in S
  <2>1. [i \in 0..0 |-> x] \in [0..0 -> X]
    OBVIOUS
  <2>2. Good([i \in 0..0 |-> x], 0)
    OBVIOUS
  <2> QED
    BY <2>1, <2>2
<1>2. ASSUME NEW m \in Nat, m \in S
      PROVE  m + 1 \in S
  <2> SUFFICES ASSUME m + 1 <= n
               PROVE  \E f \in [0..(m + 1) -> X] : Good(f, m + 1)
    OBVIOUS
  <2>1. PICK f \in [0..m -> X] : Good(f, m)
    BY <1>2
  <2> DEFINE g == [i \in 0..(m + 1) |-> IF i <= m THEN f[i] ELSE step[m + 1][f[m]]]
  <2>2. step[m + 1][f[m]] \in X
    OBVIOUS
  <2>3. g \in [0..(m + 1) -> X]
    BY <2>2
  <2>4. \A i \in 0..m : g[i] = f[i]
    OBVIOUS
  <2>5. g[m + 1] = step[m + 1][f[m]]
    OBVIOUS
  <2> HIDE DEF g
  <2>6. g[0] = x
    BY <2>1, <2>4
  <2>7. ASSUME NEW i \in 1..(m + 1)
        PROVE  g[i] = step[i][g[i - 1]]
    <3>1. CASE i \in 1..m
      <4>1. i \in 0..m /\ i - 1 \in 0..m
        BY <3>1
      <4> QED
        BY <2>1, <2>4, <3>1, <4>1
    <3>2. CASE i = m + 1
      <4>1. i - 1 = m /\ m \in 0..m
        BY <3>2
      <4> QED
        BY <2>4, <2>5, <3>2, <4>1
    <3> QED
      BY <3>1, <3>2
  <2> QED
    BY <2>3, <2>6, <2>7
<1>3. n \in S
  <2> HIDE DEF S
  <2> QED
    BY <1>1, <1>2, NaturalInduction
<1>4. PICK f \in [0..n -> X] : Good(f, n)
  BY <1>3
<1> QED
  BY <1>4 DEF HasIterates, Iterates

\* The steps of a recursion on 1..n from any of the values before: what a
\* step makes of f depends on f below its place only.
LooksBack(n, X, step) ==
    /\ step \in [1..n -> [[1..n -> X] -> X]]
    /\ \A i \in 1..n : \A f, g \in [1..n -> X] :
           (\A j \in 1..(i - 1) : f[j] = g[j]) => step[i][f] = step[i][g]

IsFixed(n, step, f) == \A i \in 1..n : f[i] = step[i][f]

HasFixed(n, X, step) == \E f \in [1..n -> X] : IsFixed(n, step, f)

\* A function defined by recursion from any of the values before exists.
LEMMA CourseOfValues ==
    ASSUME NEW n \in Nat, NEW X, NEW x \in X, NEW step, LooksBack(n, X, step)
    PROVE  HasFixed(n, X, step)
<1> USE DEF LooksBack
<1> DEFINE Good(f, m) == \A i \in 1..m : f[i] = step[i][f]
           Exists(m) == \E f \in [1..n -> X] : Good(f, m)
           S == {m \in Nat : m <= n => Exists(m)}
<1>1. 0 \in S
  <2> DEFINE f == [i \in 1..n |-> x]
  <2>1. f \in [1..n -> X] /\ Good(f, 0)
    OBVIOUS
  <2> QED
    BY <2>1
<1>2. ASSUME NEW m \in Nat, m \in S
      PROVE  m + 1 \in S
  <2> SUFFICES ASSUME m + 1 <= n
               PROVE  Exists(m + 1)
    <3> HIDE DEF Exists
    <3> QED
      OBVIOUS
  <2>1. PICK f \in [1..n -> X] : Good(f, m)
    <3>1. Exists(m)
      <4> HIDE DEF Exists
      <4> QED
        BY <1>2
    <3> QED
      BY <3>1
  <2> DEFINE g == [f EXCEPT ![m + 1] = step[m + 1][f]]
  <2>2. m + 1 \in 1..n
    OBVIOUS
  <2>3. step[m + 1][f] \in X
    BY <2>2
  <2>4. g \in [1..n -> X] /\ g[m + 1] = step[m + 1][f]
    BY <2>2, <2>3
  <2>5. \A j \in 1..m : j \in 1..n /\ g[j] = f[j]
    OBVIOUS
  <2> HIDE DEF g
  <2>6. ASSUME NEW i \in 1..(m + 1)
        PROVE  g[i] = step[i][g]
    <3>1. i \in 1..n /\ \A j \in 1..(i - 1) : j \in 1..m /\ f[j] = g[j]
      BY <2>5
    <3>2. step[i][f] = step[i][g]
      BY <2>4, <3>1
    <3>3. CASE i \in 1..m
      BY <2>1, <2>5, <3>2, <3>3
    <3>4. CASE i = m + 1
      BY <2>4, <3>2, <3>4
    <3> QED
      BY <3>3, <3>4
  <2> QED
    BY <2>4, <2>6
<1>3. n \in S
  <2> HIDE DEF S
  <2> QED
    BY <1>1, <1>2, NaturalInduction
<1>4. Exists(n)
  <2> HIDE DEF Exists
  <2> QED
    BY <1>3
<1> QED
  BY <1>4 DEF HasFixed, IsFixed

-----------------------------------------------------------------------------
(* Folds over the positions of a sequence: FoldLeft of SequencesExt recurses   *)
(* on sets of positions and takes the greatest off first.                      *)

\* What Min chooses from a set with a least element.
LEMMA LeastIsMin ==
    ASSUME NEW S \in SUBSET Int, NEW m \in S, \A k \in S : m <= k
    PROVE  Min(S) = m
<1>1. Min(S) \in S /\ \A k \in S : Min(S) <= k
  BY Zenon DEF Min
<1>2. Min(S) <= m /\ m <= Min(S) /\ Min(S) \in Int /\ m \in Int
  BY <1>1
<1> QED
  BY <1>2

\* What Max chooses from a set with a greatest element.
LEMMA GreatestIsMax ==
    ASSUME NEW S \in SUBSET Int, NEW m \in S, \A k \in S : k <= m
    PROVE  Max(S) = m
<1>1. m \in S /\ \A k \in S : m >= k
  OBVIOUS
<1>2. Max(S) \in S /\ \A k \in S : Max(S) >= k
  BY <1>1, Zenon DEF Max
<1>3. Max(S) <= m /\ m <= Max(S) /\ Max(S) \in Int /\ m \in Int
  BY <1>2
<1> QED
  BY <1>3

\* The lesser and the greater of two numbers.
LEMMA MinOfTwo ==
    ASSUME NEW a \in Int, NEW b \in Int
    PROVE  Min({a, b}) = IF a <= b THEN a ELSE b
<1>1. CASE a <= b
  <2>1. a \in {a, b} /\ {a, b} \in SUBSET Int /\ \A k \in {a, b} : a <= k
    BY <1>1
  <2>2. Min({a, b}) = a
    BY <2>1, LeastIsMin
  <2> QED
    BY <1>1, <2>2
<1>2. CASE ~(a <= b)
  <2>1. b \in {a, b} /\ {a, b} \in SUBSET Int /\ \A k \in {a, b} : b <= k
    BY <1>2
  <2>2. Min({a, b}) = b
    BY <2>1, LeastIsMin
  <2> QED
    BY <1>2, <2>2
<1> QED
  BY <1>1, <1>2

\* The same for the greater.
LEMMA MaxOfTwo ==
    ASSUME NEW a \in Int, NEW b \in Int
    PROVE  Max({a, b}) = IF a <= b THEN b ELSE a
<1>1. CASE a <= b
  <2>1. b \in {a, b} /\ {a, b} \in SUBSET Int /\ \A k \in {a, b} : k <= b
    BY <1>1
  <2>2. Max({a, b}) = b
    BY <2>1, GreatestIsMax
  <2> QED
    BY <1>1, <2>2
<1>2. CASE ~(a <= b)
  <2>1. a \in {a, b} /\ {a, b} \in SUBSET Int /\ \A k \in {a, b} : k <= a
    BY <1>2
  <2>2. Max({a, b}) = a
    BY <2>1, GreatestIsMax
  <2> QED
    BY <1>2, <2>2
<1> QED
  BY <1>1, <1>2

\* The least and the greatest number of a bounded set are in it.
LEMMA MinIsIn ==
    ASSUME NEW S \in SUBSET Nat, S # {}
    PROVE  Min(S) \in S /\ \A k \in S : Min(S) <= k
<1>1. PICK m \in S : \A k \in S : m <= k
  BY LeastNatural
<1>2. S \in SUBSET Int
  OBVIOUS
<1>3. Min(S) = m
  BY <1>1, <1>2, LeastIsMin
<1> QED
  BY <1>1, <1>3

LEMMA MaxIsIn ==
    ASSUME NEW n \in Nat, NEW S \in SUBSET (0..n), S # {}
    PROVE  Max(S) \in S /\ \A k \in S : k <= Max(S)
<1>1. PICK m \in S : \A k \in S : k <= m
  BY GreatestNatural
<1>2. S \in SUBSET Int
  OBVIOUS
<1>3. Max(S) = m
  BY <1>1, <1>2, GreatestIsMax
<1> QED
  BY <1>1, <1>3

\* The greatest position of a prefix, and the prefix without it.
LEMMA MaxOfInterval ==
    ASSUME NEW n \in Nat \ {0}
    PROVE  Max(1..n) = n /\ (1..n) \ {n} = 1..(n - 1)
<1>1. Max(1..n) = n
  BY GreatestIsMax
<1> QED
  BY <1>1

\* f[s] is what the steps of the positions s make of x.
Collects(n, x, step, f) ==
    \A s \in SUBSET (1..n) :
        f[s] = IF s = {} THEN x ELSE step[Max(s)][f[s \ {Max(s)}]]

\* The recursion on sets of positions has one, too.
HasCollection(n, X, x, step) ==
    \E f \in [SUBSET (1..n) -> X] : Collects(n, x, step, f)

\* A function defined by taking the greatest position off a set exists.
LEMMA RecursionOnPositions ==
    ASSUME NEW n \in Nat, NEW X, NEW x \in X, NEW step, IsSteps(n, X, step)
    PROVE  HasCollection(n, X, x, step)
<1> step \in [1..n -> [X -> X]]
  BY DEF IsSteps
<1> DEFINE Good(f, m) ==
        \A s \in SUBSET (1..m) :
            f[s] = IF s = {} THEN x ELSE step[Max(s)][f[s \ {Max(s)}]]
    Exists(m) == \E f \in [SUBSET (1..m) -> X] : Good(f, m)
    S == {m \in Nat : m <= n => Exists(m)}
<1>1. 0 \in S
  <2> DEFINE g == [s \in SUBSET (1..0) |-> x]
  <2>1. g \in [SUBSET (1..0) -> X]
    OBVIOUS
  <2>2. ASSUME NEW s \in SUBSET (1..0)
        PROVE  s = {} /\ g[s] = x
    <3>1. 1..0 = {}
      OBVIOUS
    <3> QED
      BY <3>1
  <2>3. Good(g, 0)
    <3> HIDE DEF g
    <3> QED
      BY <2>2
  <2>4. Exists(0)
    <3> HIDE DEF g, Good
    <3> QED
      BY <2>1, <2>3
  <2> HIDE DEF Exists
  <2> QED
    BY <2>4
<1>2. ASSUME NEW m \in Nat, m \in S
      PROVE  m + 1 \in S
  <2> SUFFICES ASSUME m + 1 <= n
               PROVE  Exists(m + 1)
    <3> HIDE DEF Exists
    <3> QED
      OBVIOUS
  <2>1. PICK f \in [SUBSET (1..m) -> X] : Good(f, m)
    <3>1. Exists(m)
      <4> HIDE DEF Exists
      <4> QED
        BY <1>2
    <3> QED
      BY <3>1
  <2> DEFINE g == [s \in SUBSET (1..(m + 1)) |->
                      IF m + 1 \in s THEN step[m + 1][f[s \ {m + 1}]] ELSE f[s]]
  <2>2. \A s \in SUBSET (1..(m + 1)) :
            /\ s \ {m + 1} \in SUBSET (1..m)
            /\ m + 1 \notin s => s \in SUBSET (1..m) /\ s \ {m + 1} = s
    OBVIOUS
  <2>3. \A s \in SUBSET (1..(m + 1)) : f[s \ {m + 1}] \in X
    BY <2>2
  <2>4. step[m + 1] \in [X -> X]
    OBVIOUS
  <2>5. g \in [SUBSET (1..(m + 1)) -> X]
    BY <2>2, <2>3, <2>4
  <2>6. \A s \in SUBSET (1..m) : g[s] = f[s] /\ s \in SUBSET (1..(m + 1))
    OBVIOUS
  <2>7. ASSUME NEW s \in SUBSET (1..(m + 1))
        PROVE  g[s] = IF s = {} THEN x ELSE step[Max(s)][g[s \ {Max(s)}]]
    <3>1. CASE m + 1 \in s
      <4>1. Max(s) = m + 1
        <5>1. \A k \in s : k <= m + 1
          OBVIOUS
        <5>2. s \in SUBSET Int
          OBVIOUS
        <5> QED
          BY <3>1, <5>1, <5>2, GreatestIsMax
      <4>2. g[s] = step[m + 1][f[s \ {m + 1}]]
        BY <3>1
      <4>3. g[s \ {m + 1}] = f[s \ {m + 1}]
        BY <2>2, <2>6
      <4> HIDE DEF g
      <4> QED
        BY <3>1, <4>1, <4>2, <4>3
    <3>2. CASE m + 1 \notin s
      <4>1. s \in SUBSET (1..m) /\ s \ {Max(s)} \in SUBSET (1..m)
        BY <2>2, <3>2
      <4>2. g[s] = f[s] /\ g[s \ {Max(s)}] = f[s \ {Max(s)}]
        BY <2>6, <4>1
      <4> HIDE DEF g
      <4> QED
        BY <2>1, <4>1, <4>2
    <3> QED
      BY <3>1, <3>2
  <2> HIDE DEF g
  <2> QED
    BY <2>5, <2>7
<1>3. n \in S
  <2> HIDE DEF S
  <2> QED
    BY <1>1, <1>2, NaturalInduction
<1>4. PICK f \in [SUBSET (1..n) -> X] : Good(f, n)
  <2>1. Exists(n)
    <3> HIDE DEF Exists
    <3> QED
      BY <1>3
  <2> QED
    BY <2>1
<1> QED
  BY <1>4 DEF HasCollection, Collects

\* The greatest of a non-empty set of positions is in the set.
LEMMA MaxOfPositions ==
    ASSUME NEW n \in Nat, NEW s \in SUBSET (1..n), s # {}
    PROVE  /\ Max(s) \in s
           /\ \A k \in s : k <= Max(s)
           /\ Max(s) \in 1..n
           /\ s \ {Max(s)} \in SUBSET (1..n)
<1>1. s \in SUBSET (0..n) /\ s \in SUBSET Int
  OBVIOUS
<1>2. PICK m \in s : \A k \in s : k <= m
  BY <1>1, GreatestNatural
<1>3. Max(s) = m
  BY <1>1, <1>2, GreatestIsMax
<1> QED
  BY <1>2, <1>3

\* iter agrees with the steps as long as it stays within X.
Follows(n, X, x, step, iter) ==
    /\ iter[{}] = x
    /\ \A s \in SUBSET (1..n) : s # {} /\ iter[s \ {Max(s)}] \in X =>
           iter[s] = step[Max(s)][iter[s \ {Max(s)}]]

\* The last of the iterates is end.
EndsLike(n, X, x, step, end) ==
    \E g \in [0..n -> X] : Iterates(n, x, step, g) /\ g[n] = end

\* What a fold gives is the last of the iterates.
LEMMA FoldByPrefixes ==
    ASSUME NEW n \in Nat, NEW X, NEW x \in X, NEW step, IsSteps(n, X, step),
           NEW iter, Follows(n, X, x, step, iter)
    PROVE  EndsLike(n, X, x, step, iter[1..n])
<1> step \in [1..n -> [X -> X]]
  BY DEF IsSteps
<1> USE DEF Follows
<1> DEFINE g == [i \in 0..n |-> iter[1..i]]
           S == {m \in Nat : m <= n =>
                   /\ iter[1..m] \in X
                   /\ m > 0 => iter[1..m] = step[m][iter[1..(m - 1)]]}
<1>1. 0 \in S /\ g[0] = x
  <2>1. 1..0 = {}
    OBVIOUS
  <2> QED
    BY <2>1
<1>2. ASSUME NEW m \in Nat, m \in S
      PROVE  m + 1 \in S
  <2> SUFFICES ASSUME m + 1 <= n
               PROVE  /\ iter[1..(m + 1)] \in X
                      /\ iter[1..(m + 1)] = step[m + 1][iter[1..m]]
    OBVIOUS
  <2>1. Max(1..(m + 1)) = m + 1 /\ (1..(m + 1)) \ {m + 1} = 1..m
    <3>1. m + 1 \in Nat \ {0} /\ m + 1 - 1 = m
      OBVIOUS
    <3> QED
      BY <3>1, MaxOfInterval
  <2>2. 1..(m + 1) \in SUBSET (1..n) /\ 1..(m + 1) # {}
    <3>1. 1 \in 1..(m + 1)
      OBVIOUS
    <3>2. \A i \in 1..(m + 1) : i \in 1..n
      OBVIOUS
    <3> QED
      BY <3>1, <3>2, Zenon
  <2>3. iter[1..m] \in X
    BY <1>2
  <2>4. iter[1..(m + 1)] = step[m + 1][iter[1..m]]
    BY <2>1, <2>2, <2>3
  <2> QED
    BY <2>3, <2>4
<1>3. Nat \subseteq S
  <2> HIDE DEF S
  <2> QED
    BY <1>1, <1>2, NaturalInduction
<1>4. \A i \in 0..n : i \in Nat /\ i <= n /\ i \in S
  BY <1>3
<1>5. g \in [0..n -> X]
  BY <1>4
<1>6. ASSUME NEW i \in 1..n
      PROVE  g[i] = step[i][g[i - 1]]
  <2>1. i \in 0..n /\ i - 1 \in 0..n /\ i > 0
    OBVIOUS
  <2> QED
    BY <1>4, <2>1
<1>7. g[n] = iter[1..n]
  OBVIOUS
<1> QED
  BY <1>1, <1>5, <1>6, <1>7 DEF Iterates, EndsLike

-----------------------------------------------------------------------------
(* Sums over finite sets: SumFunction of Functions takes the members of the    *)
(* domain in the order CHOOSE gives.                                           *)

\* All subsets of a finite set are in P if each is whose subsets with one
\* member less are.
LEMMA SubsetInduction ==
    ASSUME NEW T, IsFiniteSet(T), NEW P, {} \in P,
           \A s \in SUBSET T : s # {} /\ (\A x \in s : s \ {x} \in P) => s \in P
    PROVE  SUBSET T \subseteq P
<1> DEFINE S == {n \in Nat : \A s \in SUBSET T : Cardinality(s) = n => s \in P}
<1>1. ASSUME NEW s \in SUBSET T
      PROVE  IsFiniteSet(s) /\ Cardinality(s) \in Nat
  BY <1>1, FS_Subset, FS_CardinalityType
<1>2. 0 \in S
  BY <1>1, FS_EmptySet
<1>3. ASSUME NEW n \in Nat, n \in S
      PROVE  n + 1 \in S
  <2> SUFFICES ASSUME NEW s \in SUBSET T, Cardinality(s) = n + 1
               PROVE  s \in P
    OBVIOUS
  <2>1. s # {}
    <3>1. Cardinality({}) = 0 /\ n + 1 # 0
      BY FS_EmptySet
    <3> QED
      BY <3>1
  <2>2. ASSUME NEW x \in s
        PROVE  s \ {x} \in P
    <3>1. Cardinality(s \ {x}) = Cardinality(s) - 1
      BY <1>1, FS_RemoveElement
    <3> QED
      BY <1>3, <3>1
  <2> QED
    BY <2>1, <2>2
<1> HIDE DEF S
<1>4. Nat \subseteq S
  BY <1>2, <1>3, NaturalInduction
<1> QED
  BY <1>1, <1>4 DEF S

\* pick chooses a member of every set.
Picks(T, pick) == \A s \in SUBSET T : s # {} => pick[s] \in s

\* f[s] is the sum of w over s.
SumsUp(T, w, pick, f) ==
    \A s \in SUBSET T : f[s] = IF s = {} THEN 0 ELSE w[pick[s]] + f[s \ {pick[s]}]

\* The weights of the subsets can be summed up.
HasSums(T, w, pick) == \E f \in [SUBSET T -> Nat] : SumsUp(T, w, pick, f)

\* A function defined by recursion on the subsets of a finite set exists.
LEMMA SumsExist ==
    ASSUME NEW T, IsFiniteSet(T), NEW w \in [T -> Nat], NEW pick, Picks(T, pick)
    PROVE  HasSums(T, w, pick)
<1> DEFINE Good(f, n) == \A s \in SUBSET T : Cardinality(s) <= n =>
                             f[s] = IF s = {} THEN 0 ELSE w[pick[s]] + f[s \ {pick[s]}]
           S == {n \in Nat : \E f \in [SUBSET T -> Nat] : Good(f, n)}
<1>1. ASSUME NEW s \in SUBSET T
      PROVE  /\ IsFiniteSet(s) /\ Cardinality(s) \in Nat
             /\ Cardinality(s) <= Cardinality(T) /\ Cardinality(T) \in Nat
             /\ (Cardinality(s) <= 0) => (s = {})
             /\ s # {} => /\ pick[s] \in s /\ pick[s] \in T /\ s \ {pick[s]} \in SUBSET T
                          /\ Cardinality(s \ {pick[s]}) = Cardinality(s) - 1
                          /\ w[pick[s]] \in Nat
  <2>1. /\ IsFiniteSet(s) /\ Cardinality(s) \in Nat /\ Cardinality(s) <= Cardinality(T)
        /\ Cardinality(T) \in Nat
    BY FS_Subset, FS_CardinalityType
  <2>2. Cardinality(s) <= 0 => s = {}
    BY <2>1, FS_EmptySet
  <2>3. ASSUME s # {}
        PROVE  /\ pick[s] \in s /\ pick[s] \in T /\ s \ {pick[s]} \in SUBSET T
               /\ w[pick[s]] \in Nat
    BY <2>3 DEF Picks
  <2>4. ASSUME s # {}
        PROVE  Cardinality(s \ {pick[s]}) = Cardinality(s) - 1
    BY <2>1, <2>3, <2>4, FS_RemoveElement
  <2> QED
    BY <2>1, <2>2, <2>3, <2>4
<1>2. 0 \in S
  <2> DEFINE f == [s \in SUBSET T |-> 0]
  <2>1. f \in [SUBSET T -> Nat] /\ Good(f, 0)
    BY <1>1
  <2> QED
    BY <2>1
<1>3. ASSUME NEW n \in Nat, n \in S
      PROVE  n + 1 \in S
  <2>1. PICK f \in [SUBSET T -> Nat] : Good(f, n)
    BY <1>3
  <2> DEFINE g == [s \in SUBSET T |-> IF s = {} THEN 0 ELSE w[pick[s]] + f[s \ {pick[s]}]]
  <2>2. g \in [SUBSET T -> Nat]
    <3> SUFFICES ASSUME NEW s \in SUBSET T, s # {}
                 PROVE  w[pick[s]] + f[s \ {pick[s]}] \in Nat
      OBVIOUS
    <3>1. w[pick[s]] \in Nat /\ f[s \ {pick[s]}] \in Nat
      BY <1>1
    <3> QED
      BY <3>1
  <2>3. ASSUME NEW s \in SUBSET T, Cardinality(s) <= n
        PROVE  g[s] = f[s]
    BY <2>1, <2>3
  <2>4. ASSUME NEW s \in SUBSET T, Cardinality(s) <= n + 1, s # {}
        PROVE  g[s] = w[pick[s]] + g[s \ {pick[s]}]
    <3>1. Cardinality(s \ {pick[s]}) <= n /\ s \ {pick[s]} \in SUBSET T
      <4>1. /\ Cardinality(s) \in Nat /\ s \ {pick[s]} \in SUBSET T
            /\ Cardinality(s \ {pick[s]}) = Cardinality(s) - 1
        BY <1>1, <2>4
      <4> QED
        BY ONLY <4>1, <2>4, n \in Nat
    <3>2. g[s \ {pick[s]}] = f[s \ {pick[s]}]
      BY <2>3, <3>1
    <3> QED
      BY <2>4, <3>2
  <2>5. g[{}] = 0
    OBVIOUS
  <2> HIDE DEF g
  <2>6. Good(g, n + 1)
    BY <2>4, <2>5
  <2> QED
    BY <2>2, <2>6
<1> HIDE DEF S
<1>4. Nat \subseteq S
  BY <1>2, <1>3, NaturalInduction
<1>5. Cardinality(T) \in Nat
  BY <1>1
<1>6. PICK f \in [SUBSET T -> Nat] : Good(f, Cardinality(T))
  BY <1>4, <1>5 DEF S
<1>7. SumsUp(T, w, pick, f)
  BY <1>1, <1>6 DEF SumsUp
<1> QED
  BY <1>7 DEF HasSums

\* f sums up the weights w of the subsets of T.
Sums(T, w, pick, f) ==
    w \in [T -> Nat] /\ Picks(T, pick) /\ f \in [SUBSET T -> Nat] /\ SumsUp(T, w, pick, f)

\* f takes off any member.
AnyOrder(T, w, f) == \A s \in SUBSET T : \A x \in s : f[s] = w[x] + f[s \ {x}]

\* The order in which the members are taken does not matter.
LEMMA SumWithout ==
    ASSUME NEW T, IsFiniteSet(T), NEW w, NEW pick, NEW f, Sums(T, w, pick, f)
    PROVE  AnyOrder(T, w, f)
<1> USE DEF Sums
<1> DEFINE P == {s \in SUBSET T : \A x \in s : f[s] = w[x] + f[s \ {x}]}
<1>1. {} \in P
  OBVIOUS
<1>2. ASSUME NEW s \in SUBSET T, s # {}, \A x \in s : s \ {x} \in P
      PROVE  s \in P
  <2> SUFFICES ASSUME NEW x \in s
               PROVE  f[s] = w[x] + f[s \ {x}]
    OBVIOUS
  <2> DEFINE c == pick[s]
             r == (s \ {c}) \ {x}
  <2>1. c \in s /\ f[s] = w[c] + f[s \ {c}]
    BY <1>2 DEF Picks, SumsUp
  <2>2. CASE x = c
    BY <2>1, <2>2
  <2>3. CASE x # c
    <3>1. r = (s \ {x}) \ {c} /\ r \in SUBSET T
      OBVIOUS
    <3>2. s \ {c} \in P /\ s \ {x} \in P
      BY <1>2, <2>1
    <3>3. x \in s \ {c} /\ c \in s \ {x}
      BY <2>1, <2>3
    <3>4. f[s \ {c}] = w[x] + f[r]
      BY <3>2, <3>3
    <3>5. f[s \ {x}] = w[c] + f[r]
      BY <3>1, <3>2, <3>3
    <3>6. w[x] \in Nat /\ w[c] \in Nat /\ f[r] \in Nat
      BY <2>1, <3>1
    <3> HIDE DEF c, r
    <3> QED
      BY <2>1, <3>4, <3>5, <3>6
  <2> QED
    BY <2>2, <2>3
<1> HIDE DEF P
<1>3. SUBSET T \subseteq P
  BY <1>1, <1>2, SubsetInduction
<1> QED
  BY <1>3 DEF P, AnyOrder

\* Nor does the set they are taken from.
LEMMA SumsAgree ==
    ASSUME NEW T, IsFiniteSet(T), NEW w \in [T -> Nat], NEW v, NEW pick, Picks(T, pick),
           NEW f, SumsUp(T, w, pick, f), NEW g, SumsUp(T, v, pick, g),
           \A x \in T : v[x] = w[x]
    PROVE  \A s \in SUBSET T : f[s] = g[s]
<1> DEFINE P == {s \in SUBSET T : f[s] = g[s]}
<1>1. {} \in P
  BY DEF SumsUp
<1>2. ASSUME NEW s \in SUBSET T, s # {}, \A x \in s : s \ {x} \in P
      PROVE  s \in P
  <2>1. pick[s] \in s /\ pick[s] \in T
    BY <1>2 DEF Picks
  <2>2. f[s \ {pick[s]}] = g[s \ {pick[s]}]
    BY <1>2, <2>1
  <2> QED
    BY <1>2, <2>1, <2>2 DEF SumsUp
<1> HIDE DEF P
<1>3. SUBSET T \subseteq P
  BY <1>1, <1>2, SubsetInduction
<1> QED
  BY <1>3 DEF P

\* The sum of a function is such a sum, of its whole domain.
LEMMA SumOfFunction ==
    ASSUME NEW S, IsFiniteSet(S), NEW w \in [S -> Nat]
    PROVE  \E pick, f : Sums(S, w, pick, f) /\ SumFunction(w) = f[S]
                         /\ \A s \in SUBSET S : pick[s] = CHOOSE x \in s : TRUE
<1> DEFINE pick == [s \in SUBSET S |-> CHOOSE x \in s : TRUE]
           Right(f) == f = [s \in SUBSET S |-> IF s = {} THEN 0
                        ELSE w[CHOOSE x \in s : TRUE] + f[s \ {CHOOSE x \in s : TRUE}]]
           iter == CHOOSE f : Right(f)
<1>1. SumFunction(w) = iter[S]
  <2>1. DOMAIN w = S
    OBVIOUS
  <2> QED
    BY <2>1 DEF SumFunction, SumFunctionOnSet, FoldFunctionOnSet, MapThenFoldSet
<1>2. Picks(S, pick)
  BY DEF Picks
<1>3. \A s \in SUBSET S : pick[s] = CHOOSE x \in s : TRUE
  OBVIOUS
<1> HIDE DEF pick, iter
<1>4. PICK f \in [SUBSET S -> Nat] : SumsUp(S, w, pick, f)
  BY <1>2, SumsExist DEF HasSums
<1>5. Right(f)
  BY <1>3, <1>4 DEF SumsUp
<1>6. Right(iter)
  <2> HIDE DEF Right
  <2> QED
    BY <1>5, Zenon DEF iter
<1>7. SumsUp(S, w, pick, iter)
  BY <1>3, <1>6 DEF SumsUp
<1>8. \A s \in SUBSET S : iter[s] = f[s]
  BY <1>2, <1>4, <1>7, SumsAgree
<1>9. Sums(S, w, pick, f) /\ SumFunction(w) = f[S]
  BY <1>1, <1>2, <1>4, <1>8 DEF Sums
<1> QED
  BY <1>3, <1>9

\* v is w without x.
Without(S, w, x, v) == v \in [S \ {x} -> Nat] /\ \A y \in S \ {x} : v[y] = w[y]

\* The sum of a function is one of its values and the sum of the others.
LEMMA SumOfValues ==
    ASSUME NEW S, IsFiniteSet(S), NEW w \in [S -> Nat]
    PROVE  /\ SumFunction(w) \in Nat
           /\ S = {} => SumFunction(w) = 0
           /\ \A x \in S : \A v : Without(S, w, x, v) => SumFunction(w) = w[x] + SumFunction(v)
<1>1. PICK pick, f : Sums(S, w, pick, f) /\ SumFunction(w) = f[S]
                     /\ \A s \in SUBSET S : pick[s] = CHOOSE x \in s : TRUE
  BY SumOfFunction
<1>2. \A s \in SUBSET S : \A x \in s : f[s] = w[x] + f[s \ {x}]
  <2>1. AnyOrder(S, w, f)
    BY <1>1, SumWithout
  <2> QED
    BY <2>1 DEF AnyOrder
<1>3. ASSUME NEW x \in S, NEW v, Without(S, w, x, v)
      PROVE  SumFunction(w) = w[x] + SumFunction(v)
  <2> DEFINE R == S \ {x}
  <2>1. R \in SUBSET S /\ IsFiniteSet(R)
    BY FS_RemoveElement
  <2>2. v \in [R -> Nat] /\ (\A y \in R : v[y] = w[y])
    BY <1>3 DEF Without
  <2>3. PICK p, g : Sums(R, v, p, g) /\ SumFunction(v) = g[R]
                    /\ \A s \in SUBSET R : p[s] = CHOOSE y \in s : TRUE
    BY <2>1, <2>2, SumOfFunction
  <2>4. SumsUp(R, w, p, f)
    <3> SUFFICES ASSUME NEW s \in SUBSET R
                 PROVE  f[s] = IF s = {} THEN 0 ELSE w[p[s]] + f[s \ {p[s]}]
      BY DEF SumsUp
    <3>1. p[s] = pick[s] /\ s \in SUBSET S
      BY <1>1, <2>1, <2>3
    <3> QED
      BY <1>1, <3>1 DEF Sums, SumsUp
  <2>5. Picks(R, p) /\ SumsUp(R, v, p, g)
    BY <2>3 DEF Sums
  <2> DEFINE u == [y \in R |-> w[y]]
  <2>6. u \in [R -> Nat] /\ SumsUp(R, u, p, f) /\ \A y \in R : v[y] = u[y]
    <3>1. u \in [R -> Nat] /\ \A y \in R : v[y] = u[y]
      BY <2>2
    <3>2. SumsUp(R, u, p, f)
      BY <2>4, <2>5 DEF SumsUp, Picks
    <3> QED
      BY <3>1, <3>2
  <2> HIDE DEF u
  <2>7. \A s \in SUBSET R : f[s] = g[s]
    BY <2>1, <2>5, <2>6, SumsAgree
  <2> QED
    BY <1>1, <1>2, <2>3, <2>7
<1>4. SumFunction(w) \in Nat
  BY <1>1 DEF Sums
<1>5. S = {} => SumFunction(w) = 0
  BY <1>1 DEF Sums, SumsUp
<1> QED
  BY <1>3, <1>4, <1>5

-----------------------------------------------------------------------------
(* The values of a sequence, and sequences without repetition.                 *)

\* The values of a sequence are finitely many.
LEMMA ValuesOfSequence ==
    ASSUME NEW S, NEW s \in Seq(S)
    PROVE  /\ Len(s) \in Nat /\ DOMAIN s = 1..Len(s)
           /\ ToSet(s) \in SUBSET S /\ IsFiniteSet(ToSet(s))
           /\ \A i \in 1..Len(s) : s[i] \in S /\ s[i] \in ToSet(s)
           /\ \A x \in ToSet(s) : \E i \in 1..Len(s) : s[i] = x
<1>1. Len(s) \in Nat /\ DOMAIN s = 1..Len(s) /\ \A i \in 1..Len(s) : s[i] \in S
  BY LenProperties
<1>2. ToSet(s) = {s[i] : i \in 1..Len(s)}
  BY <1>1 DEF ToSet
<1>3. s \in Surjection(1..Len(s), ToSet(s))
  BY <1>1, <1>2 DEF Surjection
<1>4. IsFiniteSet(1..Len(s))
  <2>1. 1 \in Int /\ Len(s) \in Int
    BY <1>1
  <2> QED
    BY <2>1, FS_Interval
<1>5. IsFiniteSet(ToSet(s))
  BY <1>3, <1>4, FS_Surjection
<1> QED
  BY <1>1, <1>2, <1>5

\* One value more.
LEMMA AppendedValues ==
    ASSUME NEW S, NEW s \in Seq(S), NEW x \in S
    PROVE  ToSet(Append(s, x)) = ToSet(s) \cup {x}
<1> DEFINE t == Append(s, x)
<1>1. /\ t \in Seq(S) /\ Len(t) = Len(s) + 1 /\ t[Len(s) + 1] = x
      /\ \A i \in 1..Len(s) : t[i] = s[i]
  BY AppendProperties
<1>2. Len(s) \in Nat /\ ToSet(s) = {s[i] : i \in 1..Len(s)}
  BY LenProperties DEF ToSet
<1>3. ToSet(t) = {t[i] : i \in 1..(Len(s) + 1)}
  <2> HIDE DEF t
  <2> QED
    BY <1>1, LenProperties DEF ToSet
<1>4. 1..(Len(s) + 1) = (1..Len(s)) \cup {Len(s) + 1}
  BY <1>2
<1> HIDE DEF t
<1>5. ToSet(t) = ToSet(s) \cup {x}
  BY <1>1, <1>2, <1>3, <1>4
<1> QED
  BY <1>5 DEF t

\* The values of two sequences.
LEMMA JoinedValues ==
    ASSUME NEW S, NEW s \in Seq(S), NEW t \in Seq(S)
    PROVE  s \o t \in Seq(S) /\ ToSet(s \o t) = ToSet(s) \cup ToSet(t)
<1> DEFINE j == s \o t
           m == Len(s)
           n == Len(t)
<1>1. /\ j \in Seq(S) /\ Len(j) = m + n
      /\ \A i \in 1..(m + n) : j[i] = IF i <= m THEN s[i] ELSE t[i - m]
  BY ConcatProperties
<1>2. /\ m \in Nat /\ ToSet(s) = {s[i] : i \in 1..m}
      /\ n \in Nat /\ ToSet(t) = {t[i] : i \in 1..n}
  BY LenProperties DEF ToSet
<1> HIDE DEF j, m, n
<1>3. ToSet(j) = {j[i] : i \in 1..(m + n)}
  BY <1>1, LenProperties DEF ToSet
<1>4. ASSUME NEW i \in 1..(m + n)
      PROVE  j[i] \in ToSet(s) \cup ToSet(t)
  <2>1. i <= m => i \in 1..m
    BY <1>2
  <2>2. ~(i <= m) => i - m \in 1..n
    BY <1>2
  <2> QED
    BY <1>1, <1>2, <2>1, <2>2
<1>5. ASSUME NEW i \in 1..m
      PROVE  s[i] \in ToSet(j)
  <2>1. i \in 1..(m + n) /\ i <= m
    BY <1>2
  <2> QED
    BY <1>1, <1>3, <2>1
<1>6. ASSUME NEW i \in 1..n
      PROVE  t[i] \in ToSet(j)
  <2> DEFINE k == m + i
  <2>1. k \in 1..(m + n) /\ ~(k <= m) /\ k - m = i
    BY <1>2
  <2> HIDE DEF k
  <2>2. j[k] = t[i]
    BY <1>1, <2>1
  <2> QED
    BY <1>3, <2>1, <2>2
<1>7. ToSet(j) = ToSet(s) \cup ToSet(t)
  BY <1>2, <1>3, <1>4, <1>5, <1>6
<1> QED
  BY <1>1, <1>7 DEF j

\* No value is there twice.
Distinct(s) == \A i, j \in 1..Len(s) : s[i] = s[j] => i = j

\* A sequence without repetition is as long as its values are many.
LEMMA DistinctLength ==
    ASSUME NEW S, NEW s \in Seq(S), Distinct(s)
    PROVE  Len(s) = Cardinality(ToSet(s))
<1>1. Len(s) \in Nat /\ s \in [1..Len(s) -> S] /\ DOMAIN s = 1..Len(s)
  BY LenProperties
<1>2. s \in Bijection(1..Len(s), ToSet(s))
  BY <1>1 DEF Bijection, Injection, Surjection, IsInjective, ToSet, Distinct
<1>3. IsFiniteSet(1..Len(s)) /\ Cardinality(1..Len(s)) = Len(s)
  BY <1>1, FS_Interval
<1> QED
  BY <1>2, <1>3, FS_Bijection DEF ExistsBijection

\* A new value keeps a sequence without repetition.
LEMMA AppendDistinct ==
    ASSUME NEW S, NEW s \in Seq(S), NEW e \in S, Distinct(s), e \notin ToSet(s)
    PROVE  Distinct(Append(s, e))
<1> DEFINE t == Append(s, e)
<1>1. Len(s) \in Nat /\ \A i \in 1..Len(s) : s[i] \in ToSet(s)
  BY ValuesOfSequence
<1>2. /\ Len(t) = Len(s) + 1 /\ t[Len(s) + 1] = e
      /\ \A i \in 1..Len(s) : t[i] = s[i]
  BY AppendProperties
<1> HIDE DEF t
<1>3. \A i \in 1..Len(t) : i \in 1..Len(s) \/ i = Len(s) + 1
  BY <1>1, <1>2
<1>4. Distinct(t)
  BY <1>1, <1>2, <1>3 DEF Distinct
<1> QED
  BY <1>4 DEF t

\* The values of a function on a finite set are finitely many.
LEMMA FiniteImage ==
    ASSUME NEW S, IsFiniteSet(S), NEW f, DOMAIN f = S, f = [x \in S |-> f[x]]
    PROVE  IsFiniteSet({f[x] : x \in S})
<1> DEFINE T == {f[x] : x \in S}
<1>1. f \in Surjection(S, T)
  BY DEF Surjection
<1> QED
  BY <1>1, FS_Surjection

-----------------------------------------------------------------------------
(* Parts of sequences *)

\* A part of a sequence.
LEMMA PartOf ==
    ASSUME NEW S, NEW s \in Seq(S), NEW m \in 1..(Len(s) + 1), NEW n \in (m - 1)..Len(s)
    PROVE  /\ SubSeq(s, m, n) \in Seq(S)
           /\ Len(SubSeq(s, m, n)) = n - m + 1
           /\ \A i \in 1..(n - m + 1) : SubSeq(s, m, n)[i] = s[m + i - 1]
<1>1. Len(s) \in Nat /\ m \in Int /\ n \in Int
  BY LenProperties
<1>2. \A i \in m..n : i \in 1..Len(s)
  BY <1>1
<1>3. \A i \in m..n : s[i] \in S
  BY <1>2, ElementOfSeq
<1>4. n - m + 1 = IF m <= n THEN n - m + 1 ELSE 0
  BY <1>1
<1> QED
  BY <1>1, <1>3, <1>4, SubSeqProperties

\* Parts m..p of s and n..q of t have k elements, the same ones.
SameParts(s, m, p, t, n, q, k) ==
    /\ k \in Nat
    /\ m \in 1..(Len(s) + 1) /\ p = m + k - 1 /\ p <= Len(s)
    /\ n \in 1..(Len(t) + 1) /\ q = n + k - 1 /\ q <= Len(t)
    /\ \A i \in 1..k : s[m + i - 1] = t[n + i - 1]

\* The same as SubSeq, which the provers take apart where it is quantified.
Part(s, m, n) == SubSeq(s, m, n)

\* Parts of the same length with the same lines are the same.
LEMMA EqualParts ==
    ASSUME NEW S, NEW s \in Seq(S), NEW t \in Seq(S),
           NEW m, NEW p, NEW n, NEW q, NEW k, SameParts(s, m, p, t, n, q, k)
    PROVE  Part(s, m, p) = Part(t, n, q)
<1> USE DEF SameParts
<1>1. Len(s) \in Nat /\ Len(t) \in Nat /\ m \in Int /\ n \in Int /\ p \in Int /\ q \in Int
  BY LenProperties
<1>2. /\ p \in (m - 1)..Len(s) /\ p - m + 1 = k
      /\ q \in (n - 1)..Len(t) /\ q - n + 1 = k
  BY <1>1
<1> DEFINE u == Part(s, m, p)
           v == Part(t, n, q)
<1>3. u \in Seq(S) /\ Len(u) = k /\ \A i \in 1..k : u[i] = s[m + i - 1]
  BY <1>2, PartOf DEF Part
<1>4. v \in Seq(S) /\ Len(v) = k /\ \A i \in 1..k : v[i] = t[n + i - 1]
  BY <1>2, PartOf DEF Part
<1>5. u = v
  <2> HIDE DEF u, v
  <2>1. \A i \in 1..Len(u) : u[i] = v[i]
    BY <1>3, <1>4
  <2> QED
    BY <1>3, <1>4, <2>1, SeqEqual
<1> QED
  BY <1>5

=============================================================================
