----------------------------- MODULE Server_proofs -----------------------------
(***************************************************************************)
(* Proofs about the composition of the server: whatever comes back to a    *)
(* caller over threads, pipes and connections is the answer to what it     *)
(* asked, and what the server remembers of edits and runs is true.  The    *)
(* parts share no state: a step of one leaves the invariants of the others *)
(* alone.                                                                  *)
(***************************************************************************)
EXTENDS Server, Callers_proofs, Recursion

-----------------------------------------------------------------------------
(***************************************************************************)
(* The memory of a session.  What is marked and cleared is a fold over the *)
(* edits of a batch; the lemmas about the folds come first.                *)
(***************************************************************************)

MarkedAs(marks, e) == IF Contains(marks, e) THEN marks ELSE Append(marks, e)

\* The marks after each edit of a batch.
LEMMA MarkedStepwise ==
    ASSUME NEW ring \in Seq(Edits), NEW batch \in Seq(Edits)
    PROVE  \E g \in [0..Len(batch) -> Seq(Edits)] :
               /\ g[0] = ring
               /\ \A i \in 1..Len(batch) : g[i] = MarkedAs(g[i - 1], batch[i])
               /\ g[Len(batch)] = Marked(ring, batch)
<1> DEFINE n == Len(batch)
           X == Seq(Edits)
           step == [i \in 1..n |-> [m \in X |-> MarkedAs(m, batch[i])]]
           Right(f) == f = [s \in SUBSET (1..n) |->
                          IF s = {} THEN ring ELSE MarkedAs(f[s \ {Max(s)}], batch[Max(s)])]
           iter == CHOOSE f : Right(f)
<1>1. n \in Nat /\ DOMAIN batch = 1..n /\ \A i \in 1..n : batch[i] \in Edits
  BY LenProperties
<1>2. IsSteps(n, X, step)
  <2> SUFFICES ASSUME NEW i \in 1..n, NEW m \in X
               PROVE  MarkedAs(m, batch[i]) \in X
    BY DEF IsSteps
  <2> QED
    BY <1>1, AppendProperties DEF MarkedAs
<1>3. \A m \in X, i \in 1..n : step[i][m] = MarkedAs(m, batch[i])
  OBVIOUS
<1>4. ring \in X
  OBVIOUS
<1>5. Marked(ring, batch) = iter[1..n]
  BY <1>1 DEF Marked, FoldLeft, MapThenFoldSet, MarkedAs
<1> HIDE DEF X, n, step, iter
<1>6. PICK f \in [SUBSET (1..n) -> X] : Collects(n, ring, step, f)
  BY <1>1, <1>2, <1>4, RecursionOnPositions DEF HasCollection
<1>7. Right(f)
  <2>1. ASSUME NEW s \in SUBSET (1..n), s # {}
        PROVE  f[s] = MarkedAs(f[s \ {Max(s)}], batch[Max(s)])
    BY <1>1, <1>3, <1>6, <2>1, MaxOfPositions DEF Collects
  <2>2. f[{}] = ring
    BY <1>6 DEF Collects
  <2> QED
    BY <2>1, <2>2
<1>8. Right(iter)
  BY <1>7 DEF iter
<1>9. Follows(n, X, ring, step, iter)
  <2>1. iter[{}] = ring
    BY <1>8
  <2>2. ASSUME NEW s \in SUBSET (1..n), s # {}, iter[s \ {Max(s)}] \in X
        PROVE  iter[s] = step[Max(s)][iter[s \ {Max(s)}]]
    BY <1>1, <1>3, <1>8, <2>2, MaxOfPositions
  <2> QED
    BY <2>1, <2>2 DEF Follows
<1>10. PICK g \in [0..n -> X] : Iterates(n, ring, step, g) /\ g[n] = iter[1..n]
  <2>1. EndsLike(n, X, ring, step, iter[1..n])
    BY <1>1, <1>2, <1>4, <1>9, FoldByPrefixes
  <2> QED
    BY <2>1 DEF EndsLike
<1>11. ASSUME NEW i \in 1..n
       PROVE  g[i] = MarkedAs(g[i - 1], batch[i])
  <2>1. g[i - 1] \in X
    BY <1>1
  <2> QED
    BY <1>3, <1>10, <2>1 DEF Iterates
<1> QED
  BY <1>5, <1>10, <1>11 DEF n, X, Iterates

KeptUnless(batch, kept, e) == IF Contains(batch, e) THEN kept ELSE Append(kept, e)

\* The marks kept after each edit of the ring.
LEMMA ClearedStepwise ==
    ASSUME NEW ring \in Seq(Edits), NEW batch \in Seq(Edits)
    PROVE  \E g \in [0..Len(ring) -> Seq(Edits)] :
               /\ g[0] = <<>>
               /\ \A i \in 1..Len(ring) : g[i] = KeptUnless(batch, g[i - 1], ring[i])
               /\ g[Len(ring)] = Cleared(ring, batch)
<1> DEFINE n == Len(ring)
           none == <<>>
           X == Seq(Edits)
           step == [i \in 1..n |-> [m \in X |-> KeptUnless(batch, m, ring[i])]]
           Right(f) == f = [s \in SUBSET (1..n) |->
                          IF s = {} THEN none
                          ELSE KeptUnless(batch, f[s \ {Max(s)}], ring[Max(s)])]
           iter == CHOOSE f : Right(f)
<1>1. n \in Nat /\ DOMAIN ring = 1..n /\ \A i \in 1..n : ring[i] \in Edits
  BY LenProperties
<1>2. IsSteps(n, X, step)
  <2> SUFFICES ASSUME NEW i \in 1..n, NEW m \in X
               PROVE  KeptUnless(batch, m, ring[i]) \in X
    BY DEF IsSteps
  <2> QED
    BY <1>1, AppendProperties DEF KeptUnless
<1>3. \A m \in X, i \in 1..n : step[i][m] = KeptUnless(batch, m, ring[i])
  OBVIOUS
<1>4. none \in X
  OBVIOUS
<1>5. Cleared(ring, batch) = iter[1..n]
  BY <1>1 DEF Cleared, FoldLeft, MapThenFoldSet, KeptUnless
<1> HIDE DEF X, n, none, step, iter
<1>6. PICK f \in [SUBSET (1..n) -> X] : Collects(n, none, step, f)
  BY <1>1, <1>2, <1>4, RecursionOnPositions DEF HasCollection
<1>7. Right(f)
  <2>1. ASSUME NEW s \in SUBSET (1..n), s # {}
        PROVE  f[s] = KeptUnless(batch, f[s \ {Max(s)}], ring[Max(s)])
    BY <1>1, <1>3, <1>6, <2>1, MaxOfPositions DEF Collects
  <2>2. f[{}] = none
    BY <1>6 DEF Collects
  <2> QED
    BY <2>1, <2>2
<1>8. Right(iter)
  BY <1>7 DEF iter
<1>9. Follows(n, X, none, step, iter)
  <2>1. iter[{}] = none
    BY <1>8
  <2>2. ASSUME NEW s \in SUBSET (1..n), s # {}, iter[s \ {Max(s)}] \in X
        PROVE  iter[s] = step[Max(s)][iter[s \ {Max(s)}]]
    BY <1>1, <1>3, <1>8, <2>2, MaxOfPositions
  <2> QED
    BY <2>1, <2>2 DEF Follows
<1>10. PICK g \in [0..n -> X] : Iterates(n, none, step, g) /\ g[n] = iter[1..n]
  <2>1. EndsLike(n, X, none, step, iter[1..n])
    BY <1>1, <1>2, <1>4, <1>9, FoldByPrefixes
  <2> QED
    BY <2>1 DEF EndsLike
<1>11. ASSUME NEW i \in 1..n
       PROVE  g[i] = KeptUnless(batch, g[i - 1], ring[i])
  <2>1. g[i - 1] \in X
    BY <1>1
  <2> QED
    BY <1>3, <1>10, <2>1 DEF Iterates
<1> QED
  BY <1>5, <1>10, <1>11 DEF n, X, none, Iterates

\* What a ring has.
LEMMA ContainsIsIn ==
    ASSUME NEW s \in Seq(Edits), NEW e
    PROVE  Contains(s, e) <=> e \in ToSet(s)
BY LenProperties DEF Contains, ToSet

\* One mark more.
LEMMA MarkOneMore ==
    ASSUME NEW s \in Seq(Edits), NEW e \in Edits, Distinct(s), ~Contains(s, e)
    PROVE  /\ Append(s, e) \in Seq(Edits)
           /\ Distinct(Append(s, e))
           /\ ToSet(Append(s, e)) = ToSet(s) \cup {e}
           /\ Len(Append(s, e)) = Len(s) + 1
BY ContainsIsIn, AppendDistinct, AppendedValues, AppendProperties

\* A batch that fails leaves each of its edits marked once.
LEMMA MarkedIsUnion ==
    ASSUME NEW ring \in Seq(Edits), NEW batch \in Seq(Edits), Distinct(ring)
    PROVE  /\ Marked(ring, batch) \in Seq(Edits)
           /\ Distinct(Marked(ring, batch))
           /\ ToSet(Marked(ring, batch)) = ToSet(ring) \cup ToSet(batch)
<1>1. PICK g \in [0..Len(batch) -> Seq(Edits)] :
          /\ g[0] = ring
          /\ \A i \in 1..Len(batch) : g[i] = MarkedAs(g[i - 1], batch[i])
          /\ g[Len(batch)] = Marked(ring, batch)
  BY MarkedStepwise
<1>2. Len(batch) \in Nat /\ DOMAIN batch = 1..Len(batch) /\ \A i \in 1..Len(batch) : batch[i] \in Edits
  BY LenProperties
<1> DEFINE Sent(i) == {batch[k] : k \in 1..i}
           Good(i) == Distinct(g[i]) /\ ToSet(g[i]) = ToSet(ring) \cup Sent(i)
           S == {i \in Nat : i <= Len(batch) => Good(i)}
<1>3. 0 \in S
  BY <1>1
<1>4. ASSUME NEW i \in Nat, i \in S
      PROVE  i + 1 \in S
  <2> SUFFICES ASSUME i + 1 <= Len(batch)
               PROVE  Good(i + 1)
    OBVIOUS
  <2>1. i \in 0..Len(batch) /\ i + 1 \in 1..Len(batch) /\ i + 1 - 1 = i
    BY <1>2
  <2>2. Good(i) /\ g[i] \in Seq(Edits) /\ g[i + 1] = MarkedAs(g[i], batch[i + 1])
    BY <1>1, <1>4, <2>1
  <2>3. Sent(i + 1) = Sent(i) \cup {batch[i + 1]}
    <3>1. 1..(i + 1) = 1..i \cup {i + 1}
      OBVIOUS
    <3> QED
      BY <3>1
  <2>4. batch[i + 1] \in Edits
    BY <1>2, <2>1
  <2> HIDE DEF Sent
  <2>5. CASE Contains(g[i], batch[i + 1])
    <3>1. batch[i + 1] \in ToSet(g[i])
      BY <2>2, <2>5, ContainsIsIn
    <3>2. g[i + 1] = g[i]
      BY <2>2, <2>5 DEF MarkedAs
    <3> QED
      BY <2>2, <2>3, <3>1, <3>2
  <2>6. CASE ~Contains(g[i], batch[i + 1])
    <3>1. g[i + 1] = Append(g[i], batch[i + 1])
      BY <2>2, <2>6 DEF MarkedAs
    <3>2. /\ Distinct(Append(g[i], batch[i + 1]))
          /\ ToSet(Append(g[i], batch[i + 1])) = ToSet(g[i]) \cup {batch[i + 1]}
      BY <2>2, <2>4, <2>6, MarkOneMore
    <3> QED
      BY <2>2, <2>3, <3>1, <3>2
  <2> QED
    BY <2>5, <2>6
<1>5. Good(Len(batch))
  <2>1. Nat \subseteq S
    <3> HIDE DEF S
    <3> QED
      BY <1>3, <1>4, NaturalInduction
  <2>2. Len(batch) \in S
    <3> HIDE DEF S
    <3> QED
      BY <1>2, <2>1
  <2>3. Len(batch) <= Len(batch)
    BY <1>2
  <2> HIDE DEF Good
  <2> QED
    BY <2>2, <2>3
<1>6. Sent(Len(batch)) = ToSet(batch)
  BY <1>2 DEF ToSet
<1> QED
  BY <1>1, <1>2, <1>5, <1>6

\* A batch that passes leaves none of its edits marked, and no other edit out.
LEMMA ClearedIsDifference ==
    ASSUME NEW ring \in Seq(Edits), NEW batch \in Seq(Edits), Distinct(ring)
    PROVE  /\ Cleared(ring, batch) \in Seq(Edits)
           /\ Distinct(Cleared(ring, batch))
           /\ ToSet(Cleared(ring, batch)) = ToSet(ring) \ ToSet(batch)
           /\ Len(Cleared(ring, batch)) <= Len(ring)
<1>1. PICK g \in [0..Len(ring) -> Seq(Edits)] :
          /\ g[0] = <<>>
          /\ \A i \in 1..Len(ring) : g[i] = KeptUnless(batch, g[i - 1], ring[i])
          /\ g[Len(ring)] = Cleared(ring, batch)
  BY ClearedStepwise
<1>2. Len(ring) \in Nat /\ DOMAIN ring = 1..Len(ring) /\ \A i \in 1..Len(ring) : ring[i] \in Edits
  BY LenProperties
<1> DEFINE Before(i) == {ring[k] : k \in 1..i}
           Good(i) == /\ Distinct(g[i])
                      /\ ToSet(g[i]) = Before(i) \ ToSet(batch)
                      /\ Len(g[i]) <= i
           S == {i \in Nat : i <= Len(ring) => Good(i)}
<1>3. 0 \in S
  <2>1. g[0] = <<>> /\ Len(<<>>) = 0 /\ DOMAIN <<>> = 1..0
    BY <1>1
  <2>2. Distinct(<<>>)
    BY DEF Distinct
  <2>3. ToSet(<<>>) = {} /\ Before(0) = {}
    BY <2>1 DEF ToSet
  <2> QED
    BY <2>1, <2>2, <2>3
<1>4. ASSUME NEW i \in Nat, i \in S
      PROVE  i + 1 \in S
  <2> SUFFICES ASSUME i + 1 <= Len(ring)
               PROVE  Good(i + 1)
    OBVIOUS
  <2>1. i \in 0..Len(ring) /\ i + 1 \in 1..Len(ring) /\ i + 1 - 1 = i
    BY <1>2
  <2>2. /\ Good(i)
        /\ g[i] \in Seq(Edits) /\ Len(g[i]) \in Nat
        /\ g[i + 1] = KeptUnless(batch, g[i], ring[i + 1])
    BY <1>1, <1>4, <2>1, LenProperties
  <2>3. Before(i + 1) = Before(i) \cup {ring[i + 1]}
    <3>1. 1..(i + 1) = 1..i \cup {i + 1}
      OBVIOUS
    <3> QED
      BY <3>1
  <2>4. ring[i + 1] \in Edits
    BY <1>2, <2>1
  <2>5. ring[i + 1] \notin Before(i)
    <3>1. \A k \in 1..i : k \in 1..Len(ring) /\ k # i + 1
      BY <1>2, <2>1
    <3> QED
      BY <2>1, <3>1 DEF Distinct
  <2> HIDE DEF Before
  <2>6. CASE Contains(batch, ring[i + 1])
    <3>1. ring[i + 1] \in ToSet(batch)
      BY <2>6, ContainsIsIn
    <3>2. g[i + 1] = g[i]
      BY <2>2, <2>6 DEF KeptUnless
    <3> QED
      BY <2>2, <2>3, <3>1, <3>2
  <2>7. CASE ~Contains(batch, ring[i + 1])
    <3>1. ring[i + 1] \notin ToSet(batch) /\ ~Contains(g[i], ring[i + 1])
      BY <2>2, <2>5, <2>7, ContainsIsIn
    <3>2. g[i + 1] = Append(g[i], ring[i + 1])
      BY <2>2, <2>7 DEF KeptUnless
    <3>3. /\ Distinct(Append(g[i], ring[i + 1]))
          /\ ToSet(Append(g[i], ring[i + 1])) = ToSet(g[i]) \cup {ring[i + 1]}
          /\ Len(Append(g[i], ring[i + 1])) = Len(g[i]) + 1
      BY <2>2, <2>4, <3>1, MarkOneMore
    <3>4. ToSet(g[i + 1]) = Before(i + 1) \ ToSet(batch)
      BY <2>2, <2>3, <3>1, <3>2, <3>3
    <3>5. Len(g[i + 1]) <= i + 1
      BY <2>2, <3>2, <3>3
    <3> QED
      BY <3>2, <3>3, <3>4, <3>5
  <2> QED
    BY <2>6, <2>7
<1>5. Good(Len(ring))
  <2>1. Nat \subseteq S
    <3> HIDE DEF S
    <3> QED
      BY <1>3, <1>4, NaturalInduction
  <2>2. Len(ring) \in S
    <3> HIDE DEF S
    <3> QED
      BY <1>2, <2>1
  <2>3. Len(ring) <= Len(ring)
    BY <1>2
  <2> HIDE DEF Good
  <2> QED
    BY <2>2, <2>3
<1>6. Before(Len(ring)) = ToSet(ring)
  BY <1>2 DEF ToSet
<1> QED
  BY <1>1, <1>2, <1>5, <1>6

\* What is left of a ring that has become too long.
LEMMA NewestIsDistinct ==
    ASSUME NEW ring \in Seq(Edits), NEW n \in Nat, Distinct(ring)
    PROVE  /\ Newest(ring, n) \in Seq(Edits)
           /\ Distinct(Newest(ring, n))
           /\ Len(Newest(ring, n)) <= n
<1>1. Len(ring) \in Nat
  BY LenProperties
<1>2. CASE Len(ring) <= n
  BY <1>2 DEF Newest
<1>3. CASE ~(Len(ring) <= n)
  <2> DEFINE m == Len(ring) - n + 1
             late == SubSeq(ring, m, Len(ring))
  <2>1. m \in Int /\ Len(ring) \in Int /\ 1 <= m
    BY <1>1, <1>3
  <2>2. \A i \in m..Len(ring) : ring[i] \in Edits
    BY <1>1, <2>1, ElementOfSeq
  <2>3. /\ late \in Seq(Edits)
        /\ Len(late) = IF m <= Len(ring) THEN Len(ring) - m + 1 ELSE 0
        /\ \A i \in 1..(Len(ring) - m + 1) : late[i] = ring[m + i - 1]
    <3> HIDE DEF m
    <3> QED
      BY <2>1, <2>2, SubSeqProperties
  <2>4. Len(late) = n
    BY <1>1, <1>3, <2>3
  <2>5. \A i \in 1..n : late[i] = ring[m + i - 1] /\ m + i - 1 \in 1..Len(ring)
    BY <1>1, <1>3, <2>3
  <2>6. Distinct(late)
    <3> SUFFICES ASSUME NEW i \in 1..n, NEW j \in 1..n, late[i] = late[j]
                 PROVE  i = j
      BY <2>4 DEF Distinct
    <3>1. m + i - 1 = m + j - 1
      BY <2>5 DEF Distinct
    <3> QED
      BY <2>1, <3>1
  <2>7. Newest(ring, n) = late
    BY <1>3 DEF Newest
  <2> QED
    BY <2>3, <2>4, <2>6, <2>7
<1> QED
  BY <1>2, <1>3

-----------------------------------------------------------------------------

\* Each edit is in the ring once, and in it for what happened to it last.
MarksInv ==
    /\ rejected \in Seq(Edits)
    /\ Distinct(rejected)
    /\ Len(rejected) <= MaxRejected
    /\ forgot \in BOOLEAN
    /\ ~forgot => ToSet(rejected) = {e \in Edits : last[e] = "rejected"}

Counted(old, sum) == sum = IF old = NoRun THEN 0 ELSE Cardinality(old)

\* What runs found and what reports said of it; no report before the first run.
DeltasInv ==
    /\ problems \in SUBSET Problems
    /\ running \in [Runners \cup {Verifier} ->
                        {NotRunning} \cup [task : Tasks, result : (SUBSET Problems) \cup {SpawnError}]]
    /\ baseline \in [Tasks -> (SUBSET Problems) \cup {NoRun}]
    /\ balance \in [Tasks -> Int]
    /\ \A t \in Tasks : Counted(baseline[t], balance[t])

SessionInv == MarksInv /\ DeltasInv

LEMMA SessionInitInvariant == SessionInit => SessionInv
<1> SUFFICES ASSUME SessionInit
             PROVE  SessionInv
  OBVIOUS
<1> USE DEF SessionInit
<1>1. Distinct(<<>>) /\ ToSet(<<>>) = {}
  <2>1. Len(<<>>) = 0 /\ DOMAIN <<>> = 1..0
    OBVIOUS
  <2> QED
    BY <2>1 DEF Distinct, ToSet
<1>2. MarksInv
  <2>1. {e \in Edits : last[e] = "rejected"} = {}
    OBVIOUS
  <2>2. rejected = <<>> /\ rejected \in Seq(Edits) /\ Len(rejected) <= MaxRejected
    BY SessionAssumption
  <2>3. forgot = FALSE
    OBVIOUS
  <2> QED
    BY <1>1, <2>1, <2>2, <2>3, Zenon DEF MarksInv
<1>3. DeltasInv
  BY DEF DeltasInv, Counted
<1> QED
  BY <1>2, <1>3 DEF SessionInv

LEMMA RejectKeepsMarks ==
    ASSUME MarksInv, NEW batch \in SessionBatches, Reject(batch)
    PROVE  MarksInv'
<1> USE DEF MarksInv
<1>1. batch \in Seq(Edits)
  BY SessionAssumption DEF SessionBatches
<1> DEFINE more == Marked(rejected, batch)
<1>2. /\ more \in Seq(Edits) /\ Distinct(more)
      /\ ToSet(more) = ToSet(rejected) \cup ToSet(batch)
  BY <1>1, MarkedIsUnion
<1>3. rejected' = Newest(more, MaxRejected) /\ forgot' = (forgot \/ Len(more) > MaxRejected)
  BY DEF Reject
<1>4. MaxRejected \in Nat
  BY SessionAssumption
<1>5. \A e \in Edits : last'[e] = IF e \in ToSet(batch) THEN "rejected" ELSE last[e]
  BY <1>1, ContainsIsIn DEF Reject, Ended
<1>6. Len(more) \in Nat /\ ToSet(batch) \subseteq Edits
  BY <1>1, <1>2, LenProperties, ElementOfSeq DEF ToSet
<1> HIDE DEF more
<1>7. rejected' \in Seq(Edits) /\ Distinct(rejected') /\ Len(rejected') <= MaxRejected
  BY <1>2, <1>3, <1>4, NewestIsDistinct
<1>8. ASSUME ~forgot'
      PROVE  ToSet(rejected') = {e \in Edits : last'[e] = "rejected"}
  <2>1. ~forgot /\ ~(Len(more) > MaxRejected)
    BY <1>3, <1>8
  <2>2. Len(more) <= MaxRejected
    BY <1>4, <1>6, <2>1
  <2>3. rejected' = more
    BY <1>3, <2>2 DEF Newest
  <2> QED
    BY <1>2, <1>5, <1>6, <2>1, <2>3
<1>9. forgot' \in BOOLEAN
  BY <1>3
<1> QED
  BY <1>7, <1>8, <1>9 DEF Distinct, ToSet

LEMMA AcceptKeepsMarks ==
    ASSUME MarksInv, NEW batch \in SessionBatches, NEW dry \in BOOLEAN, Accept(batch, dry)
    PROVE  MarksInv'
<1> USE DEF MarksInv
<1>1. batch \in Seq(Edits)
  BY SessionAssumption DEF SessionBatches
<1> DEFINE less == Cleared(rejected, batch)
<1>2. /\ less \in Seq(Edits) /\ Distinct(less)
      /\ ToSet(less) = ToSet(rejected) \ ToSet(batch)
      /\ Len(less) <= Len(rejected)
  BY <1>1, ClearedIsDifference
<1>3. rejected' = less /\ forgot' = forgot
  BY DEF Accept
<1>4. \A e \in Edits : last'[e] = IF e \in ToSet(batch) THEN "accepted" ELSE last[e]
  BY <1>1, ContainsIsIn DEF Accept, Ended
<1>5. Len(less) \in Nat /\ Len(rejected) \in Nat /\ MaxRejected \in Nat
  BY <1>2, SessionAssumption, LenProperties
<1> HIDE DEF less
<1>6. ~forgot' => ToSet(rejected') = {e \in Edits : last'[e] = "rejected"}
  BY <1>2, <1>3, <1>4
<1>7. Len(rejected') <= MaxRejected
  BY <1>2, <1>3, <1>5
<1> QED
  BY <1>2, <1>3, <1>6, <1>7 DEF Distinct, ToSet

\* What a report adds is what the run has more than the one before.
LEMMA DeltaCounts ==
    ASSUME NEW old \in (SUBSET Problems) \cup {NoRun}, NEW sum \in Int, Counted(old, sum),
           NEW outcome \in SUBSET Problems
    PROVE  Delta(old, outcome) \in Int /\ Counted(outcome, sum + Delta(old, outcome))
<1>1. IsFiniteSet(outcome) /\ Cardinality(outcome) \in Nat
  BY SessionAssumption, FS_Subset, FS_CardinalityType
<1>2. outcome # NoRun
  BY SessionAssumption DEF NoRun
<1>3. CASE old = NoRun
  BY <1>1, <1>2, <1>3 DEF Delta, Counted
<1>4. CASE old # NoRun
  <2>1. IsFiniteSet(old) /\ Cardinality(old) \in Nat
    BY <1>4, SessionAssumption, FS_Subset, FS_CardinalityType
  <2>2. /\ Cardinality(outcome \ old) = Cardinality(outcome) - Cardinality(outcome \cap old)
        /\ IsFiniteSet(outcome \cap old)
    BY <1>1, FS_Difference, FS_Intersection
  <2>3. Cardinality(old \ outcome) = Cardinality(old) - Cardinality(old \cap outcome)
    BY <2>1, FS_Difference
  <2>4. Cardinality(outcome \cap old) = Cardinality(old \cap outcome)
    <3>1. outcome \cap old = old \cap outcome
      OBVIOUS
    <3> QED
      BY <3>1
  <2>5. Cardinality(outcome \cap old) \in Nat
    BY <2>2, FS_CardinalityType
  <2>6. Delta(old, outcome) = Cardinality(outcome) - Cardinality(old)
    <3>1. Delta(old, outcome) = Cardinality(outcome \ old) - Cardinality(old \ outcome)
      BY <1>4 DEF Delta
    <3> QED
      BY <1>1, <2>1, <2>2, <2>3, <2>4, <2>5, <3>1
  <2>7. sum = Cardinality(old)
    BY <1>4 DEF Counted
  <2> QED
    BY <1>1, <1>2, <2>1, <2>6, <2>7 DEF Counted
<1> QED
  BY <1>3, <1>4

LEMMA StartKeepsDeltas ==
    ASSUME DeltasInv, NEW runner \in Runners \cup {Verifier}, NEW task \in Tasks, NEW outcome,
           Start(runner, task, outcome)
    PROVE  DeltasInv'
<1> USE DEF DeltasInv
<1>1. outcome \in (SUBSET Problems) \cup {SpawnError}
  BY DEF Start, Results
<1>2. UNCHANGED <<problems, baseline, balance>>
  BY DEF Start
<1>3. running' \in [Runners \cup {Verifier} ->
                        {NotRunning} \cup [task : Tasks, result : (SUBSET Problems) \cup {SpawnError}]]
  BY <1>1 DEF Start
<1> QED
  BY <1>2, <1>3

LEMMA EndKeepsDeltas ==
    ASSUME DeltasInv, NEW runner \in Runners \cup {Verifier}, End(runner)
    PROVE  DeltasInv'
<1> USE DEF DeltasInv
<1> DEFINE task == running[runner].task
           outcome == running[runner].result
<1>1. task \in Tasks /\ outcome \in (SUBSET Problems) \cup {SpawnError}
  BY DEF End
<1>2. /\ running' = [running EXCEPT ![runner] = NotRunning]
      /\ baseline' = [baseline EXCEPT ![task] = NextBaseline(@, outcome)]
      /\ balance' = [balance EXCEPT ![task] =
                         IF outcome = SpawnError THEN @ ELSE @ + Delta(baseline[task], outcome)]
      /\ problems' = problems
  BY DEF End
<1> HIDE DEF task, outcome
<1>3. running' \in [Runners \cup {Verifier} ->
                        {NotRunning} \cup [task : Tasks, result : (SUBSET Problems) \cup {SpawnError}]]
  BY <1>2
<1>4. CASE outcome = SpawnError
  <2>1. baseline' = baseline /\ balance' = balance
    BY <1>1, <1>2, <1>4 DEF NextBaseline
  <2> QED
    BY <1>2, <1>3, <2>1
<1>5. CASE outcome # SpawnError
  <2>1. outcome \in SUBSET Problems
    BY <1>1, <1>5
  <2>2. /\ Delta(baseline[task], outcome) \in Int
        /\ Counted(outcome, balance[task] + Delta(baseline[task], outcome))
    BY <1>1, <2>1, DeltaCounts
  <2>3. /\ baseline' = [baseline EXCEPT ![task] = outcome]
        /\ balance' = [balance EXCEPT ![task] = balance[task] + Delta(baseline[task], outcome)]
    BY <1>1, <1>2, <1>5 DEF NextBaseline
  <2>4. baseline' \in [Tasks -> (SUBSET Problems) \cup {NoRun}] /\ balance' \in [Tasks -> Int]
    BY <1>1, <2>1, <2>2, <2>3
  <2>5. ASSUME NEW t \in Tasks
        PROVE  Counted(baseline'[t], balance'[t])
    BY <1>1, <2>2, <2>3
  <2> QED
    BY <1>2, <1>3, <2>4, <2>5 DEF Counted
<1> QED
  BY <1>4, <1>5

LEMMA SessionNextInvariant ==
    ASSUME SessionInv, [SessionNext]_sessionVars
    PROVE  SessionInv'
<1> USE DEF SessionInv
<1>1. CASE UNCHANGED sessionVars
  BY <1>1 DEF sessionVars, MarksInv, DeltasInv, Distinct, ToSet, Counted
<1>2. ASSUME NEW batch \in SessionBatches, Reject(batch)
      PROVE  SessionInv'
  <2>1. DeltasInv'
    BY <1>2 DEF Reject, DeltasInv, Counted
  <2> QED
    BY <1>2, <2>1, RejectKeepsMarks
<1>3. ASSUME NEW batch \in SessionBatches, NEW dry \in BOOLEAN, Accept(batch, dry)
      PROVE  SessionInv'
  <2>1. problems' \in SUBSET Problems
    BY <1>3 DEF Accept
  <2>2. DeltasInv'
    BY <1>3, <2>1 DEF Accept, DeltasInv, Counted
  <2> QED
    BY <1>3, <2>2, AcceptKeepsMarks
<1>4. CASE FailToCommit
  BY <1>4 DEF FailToCommit, MarksInv, DeltasInv, Distinct, ToSet, Counted
<1>5. ASSUME NEW runner \in Runners \cup {Verifier}, NEW task \in Tasks, NEW outcome,
             Start(runner, task, outcome)
      PROVE  SessionInv'
  <2>1. MarksInv'
    BY <1>5 DEF Start, MarksInv, Distinct, ToSet
  <2> QED
    BY <1>5, <2>1, StartKeepsDeltas
<1>6. ASSUME NEW runner \in Runners \cup {Verifier}, End(runner)
      PROVE  SessionInv'
  <2>1. MarksInv'
    BY <1>6 DEF End, MarksInv, Distinct, ToSet
  <2> QED
    BY <1>6, <2>1, EndKeepsDeltas
<1>7. VerifyTask \in Tasks
  BY SessionAssumption
<1> QED
  BY <1>1, <1>2, <1>3, <1>4, <1>5, <1>6, <1>7 DEF SessionNext, StartRun, StartVerify

LEMMA InvariantImpliesTrue == SessionInv => MemoryIsTrue
<1> SUFFICES ASSUME SessionInv
             PROVE  MemoryIsTrue
  OBVIOUS
<1>1. MarksAreTrue
  BY DistinctLength DEF SessionInv, MarksInv, MarksAreTrue
<1>2. DeltasAddUp
  BY DEF SessionInv, DeltasInv, Counted, DeltasAddUp
<1> QED
  BY <1>1, <1>2 DEF MemoryIsTrue

\* An edit is called out exactly when the batch that last had it failed, and
\* the reported deltas add up to the last run, whatever batches and runs come.
THEOREM MemoryAlwaysTrue == SessionSpec => []MemoryIsTrue
BY SessionInitInvariant, SessionNextInvariant, InvariantImpliesTrue, PTL DEF SessionSpec

-----------------------------------------------------------------------------
(***************************************************************************)
(* The answers of the code tool.  They are computed by sums, by sorting and *)
(* by folds: the lemmas say what each gives, and the invariant says that    *)
(* the answer is what they compute for the request.                         *)
(***************************************************************************)

\* ahead says of the members of S what comes before each.
IsOrder(S, ahead) ==
    /\ ahead \in [S -> SUBSET S]
    /\ \A x \in S : x \notin ahead[x]
    /\ \A x, y \in S : y \in ahead[x] => ahead[y] \subseteq ahead[x]
    /\ \A x, y \in S : x # y => x \in ahead[y] \/ y \in ahead[x]

\* o is S in this order.
Lists(S, ahead, o) ==
    /\ o \in [1..Cardinality(S) -> S]
    /\ \A x \in S : \E i \in 1..Cardinality(S) : o[i] = x
    /\ \A i, j \in 1..Cardinality(S) : i < j => o[i] \in ahead[o[j]]

\* A finite set is put in its order.
LEMMA OrderedSet ==
    ASSUME NEW S, IsFiniteSet(S), NEW ahead, IsOrder(S, ahead)
    PROVE  Lists(S, ahead, InOrder(ahead))
<1> DEFINE n == Cardinality(S)
           o == InOrder(ahead)
           place == [x \in S |-> Cardinality(ahead[x]) + 1]
<1>1. n \in Nat /\ DOMAIN ahead = S
  BY FS_CardinalityType DEF IsOrder
<1>2. ASSUME NEW x \in S
      PROVE  /\ IsFiniteSet(ahead[x]) /\ Cardinality(ahead[x]) \in Nat
             /\ Cardinality(ahead[x]) + 1 \in 1..n
  <2>1. ahead[x] \in SUBSET S /\ x \notin ahead[x]
    BY DEF IsOrder
  <2>2. IsFiniteSet(ahead[x]) /\ Cardinality(ahead[x]) <= n /\ (n = Cardinality(ahead[x]) => S = ahead[x])
    BY <2>1, FS_Subset
  <2>3. Cardinality(ahead[x]) \in Nat
    BY <2>2, FS_CardinalityType
  <2>4. S # ahead[x]
    BY <2>1
  <2> QED
    BY <1>1, <2>2, <2>3, <2>4
<1>3. ASSUME NEW x \in S, NEW y \in S, y \in ahead[x]
      PROVE  Cardinality(ahead[y]) < Cardinality(ahead[x])
  <2>1. ahead[y] \in SUBSET ahead[x] /\ ahead[y] # ahead[x]
    BY <1>3 DEF IsOrder
  <2>2. /\ Cardinality(ahead[y]) <= Cardinality(ahead[x])
        /\ (Cardinality(ahead[x]) = Cardinality(ahead[y]) => ahead[x] = ahead[y])
    BY <1>2, <2>1, FS_Subset
  <2> QED
    BY <1>2, <2>1, <2>2
<1>4. ASSUME NEW x \in S, NEW y \in S, x # y
      PROVE  Cardinality(ahead[x]) # Cardinality(ahead[y])
  <2>1. x \in ahead[y] \/ y \in ahead[x]
    BY <1>4 DEF IsOrder
  <2> QED
    BY <1>2, <1>3, <2>1
<1>5. place \in Injection(S, 1..n)
  <2>1. place \in [S -> 1..n]
    BY <1>2
  <2>2. \A x, y \in S : place[x] = place[y] => x = y
    BY <1>2, <1>4
  <2> QED
    BY <2>1, <2>2 DEF Injection, IsInjective
<1>6. \A i \in 1..n : \E x \in S : Cardinality(ahead[x]) = i - 1
  <2>1. n \in Int /\ 1 \in Int
    BY <1>1
  <2>2. IsFiniteSet(1..n) /\ Cardinality(1..n) = n
    BY <1>1, <2>1, FS_Interval
  <2>3. place \in Surjection(S, 1..n)
    <3> HIDE DEF place
    <3> QED
      BY <1>5, <2>2, FS_Injection
  <2>4. \A i \in 1..n : \E x \in S : place[x] = i
    <3> HIDE DEF place
    <3> QED
      BY <2>3 DEF Surjection
  <2> SUFFICES ASSUME NEW i \in 1..n
               PROVE  \E x \in S : Cardinality(ahead[x]) = i - 1
    OBVIOUS
  <2>5. PICK x \in S : place[x] = i
    BY <2>4
  <2>6. Cardinality(ahead[x]) + 1 = i
    BY <2>5
  <2> QED
    BY <1>2, <2>6
<1>7. o = [i \in 1..n |-> CHOOSE x \in S : Cardinality(ahead[x]) = i - 1]
  BY <1>1 DEF InOrder
<1>8. ASSUME NEW i \in 1..n
      PROVE  o[i] \in S /\ Cardinality(ahead[o[i]]) = i - 1
  BY <1>6, <1>7
<1> HIDE DEF o
<1>9. o \in [1..n -> S]
  BY <1>7, <1>8
<1>10. ASSUME NEW x \in S
       PROVE  \E i \in 1..n : o[i] = x
  <2> DEFINE i == Cardinality(ahead[x]) + 1
  <2>1. i \in 1..n /\ i - 1 = Cardinality(ahead[x])
    BY <1>2
  <2> HIDE DEF i
  <2>2. o[i] \in S /\ Cardinality(ahead[o[i]]) = Cardinality(ahead[x])
    BY <1>8, <2>1
  <2>3. o[i] = x
    BY <1>4, <2>2
  <2> QED
    BY <2>1, <2>3
<1>11. ASSUME NEW i \in 1..n, NEW j \in 1..n, i < j
       PROVE  o[i] \in ahead[o[j]]
  <2>1. /\ o[i] \in S /\ Cardinality(ahead[o[i]]) = i - 1
        /\ o[j] \in S /\ Cardinality(ahead[o[j]]) = j - 1
    BY <1>8
  <2>2. i \in Int /\ j \in Int /\ i - 1 < j - 1
    BY <1>11
  <2>3. o[j] \notin ahead[o[i]] /\ o[i] # o[j]
    BY <1>3, <2>1, <2>2
  <2> QED
    BY <2>1, <2>3 DEF IsOrder
<1> QED
  BY <1>9, <1>10, <1>11 DEF Lists, o

\* A span found has a cost.
LEMMA SpanCosts ==
    ASSUME NEW x \in Scored
    PROVE  Cost[x.span] \in Nat /\ x.span \in Spans /\ x.score \in Int
BY AnswersAssumption DEF Scored

\* What a set of spans costs: nothing if it is empty, and each of its members
\* beside the others.
LEMMA CostWithout ==
    ASSUME NEW T \in SUBSET Scored, IsFiniteSet(T)
    PROVE  /\ CostOf(T) \in Nat
           /\ T = {} => CostOf(T) = 0
           /\ \A x \in T : CostOf(T) = Cost[x.span] + CostOf(T \ {x})
<1> DEFINE w == [x \in T |-> Cost[x.span]]
<1>1. w \in [T -> Nat]
  BY SpanCosts
<1>2. CostOf(T) = SumFunction(w)
  BY DEF CostOf
<1>3. ASSUME NEW x \in T
      PROVE  CostOf(T) = Cost[x.span] + CostOf(T \ {x})
  <2> DEFINE v == [y \in T \ {x} |-> Cost[y.span]]
  <2>1. Without(T, w, x, v)
    BY SpanCosts DEF Without
  <2>2. w[x] = Cost[x.span] /\ CostOf(T \ {x}) = SumFunction(v)
    BY DEF CostOf
  <2> HIDE DEF v, w
  <2>3. SumFunction(w) = w[x] + SumFunction(v)
    BY <1>1, <2>1, SumOfValues
  <2> QED
    BY <1>2, <2>2, <2>3
<1> HIDE DEF w
<1>4. SumFunction(w) \in Nat /\ (T = {} => SumFunction(w) = 0)
  BY <1>1, SumOfValues
<1> QED
  BY <1>2, <1>3, <1>4

\* With more members, a set costs no less.
LEMMA CostGrows ==
    ASSUME NEW T \in SUBSET Scored, IsFiniteSet(T)
    PROVE  \A U \in SUBSET T : CostOf(U) <= CostOf(T)
<1> DEFINE P == {s \in SUBSET T : \A U \in SUBSET s : CostOf(U) <= CostOf(s)}
<1>1. ASSUME NEW s \in SUBSET T
      PROVE  /\ s \in SUBSET Scored /\ IsFiniteSet(s) /\ CostOf(s) \in Nat
  BY FS_Subset, CostWithout
<1>2. {} \in P
  <2>1. CostOf({}) \in Nat
    BY <1>1
  <2>2. \A U \in SUBSET {} : U = {}
    OBVIOUS
  <2> QED
    BY <2>1, <2>2
<1>3. ASSUME NEW s \in SUBSET T, s # {}, \A x \in s : s \ {x} \in P
      PROVE  s \in P
  <2> SUFFICES ASSUME NEW U \in SUBSET s
               PROVE  CostOf(U) <= CostOf(s)
    OBVIOUS
  <2>1. CASE U = s
    BY <1>1, <2>1
  <2>2. CASE U # s
    <3>1. PICK x \in s : x \notin U
      BY <2>2
    <3>2. U \in SUBSET (s \ {x}) /\ s \ {x} \in P
      BY <1>3, <3>1
    <3>3. CostOf(U) <= CostOf(s \ {x})
      BY <3>2
    <3>4. CostOf(s) = Cost[x.span] + CostOf(s \ {x})
      BY <1>1, CostWithout
    <3>5. Cost[x.span] \in Nat
      BY <1>1, SpanCosts
    <3>6. CostOf(U) \in Nat /\ CostOf(s \ {x}) \in Nat
      BY <1>1
    <3> QED
      BY <3>3, <3>4, <3>5, <3>6
  <2> QED
    BY <2>1, <2>2
<1> HIDE DEF P
<1>4. SUBSET T \subseteq P
  BY <1>2, <1>3, SubsetInduction
<1> QED
  BY <1>4 DEF P

\* Two sets together cost no more than each for itself.
LEMMA CostOfBoth ==
    ASSUME NEW T \in SUBSET Scored, IsFiniteSet(T), NEW U \in SUBSET Scored, IsFiniteSet(U)
    PROVE  CostOf(T \cup U) <= CostOf(T) + CostOf(U)
<1> DEFINE P == {s \in SUBSET T : CostOf(s \cup U) <= CostOf(s) + CostOf(U)}
<1>1. ASSUME NEW s \in SUBSET T
      PROVE  /\ s \in SUBSET Scored /\ IsFiniteSet(s) /\ CostOf(s) \in Nat
             /\ s \cup U \in SUBSET Scored /\ IsFiniteSet(s \cup U) /\ CostOf(s \cup U) \in Nat
  <2>1. s \in SUBSET Scored /\ IsFiniteSet(s)
    BY FS_Subset
  <2>2. s \cup U \in SUBSET Scored /\ IsFiniteSet(s \cup U)
    BY <2>1, FS_Union
  <2> QED
    BY <2>1, <2>2, CostWithout
<1>2. CostOf(U) \in Nat
  BY CostWithout
<1>3. {} \in P
  <2>1. CostOf({}) = 0 /\ {} \cup U = U
    BY <1>1, CostWithout
  <2> QED
    BY <1>2, <2>1
<1>4. ASSUME NEW s \in SUBSET T, s # {}, \A x \in s : s \ {x} \in P
      PROVE  s \in P
  <2>1. PICK x \in s : TRUE
    BY <1>4
  <2>2. CostOf((s \ {x}) \cup U) <= CostOf(s \ {x}) + CostOf(U)
    BY <1>4
  <2>3. CostOf(s) = Cost[x.span] + CostOf(s \ {x})
    BY <1>1, CostWithout
  <2>4. CostOf(s \cup U) <= Cost[x.span] + CostOf((s \ {x}) \cup U)
    <3> DEFINE both == s \cup U
               rest == (s \ {x}) \cup U
    <3>1. Cost[x.span] \in Nat /\ CostOf(both) \in Nat /\ CostOf(rest) \in Nat
      BY <1>1, SpanCosts
    <3>2. CASE x \in U
      <4>1. both = rest
        BY <3>2
      <4>2. CostOf(both) <= Cost[x.span] + CostOf(rest)
        <5> HIDE DEF both, rest
        <5> QED
          BY <3>1, <4>1
      <4> QED
        BY <4>2
    <3>3. CASE x \notin U
      <4>1. both \ {x} = rest /\ x \in both
        BY <3>3
      <4>2. both \in SUBSET Scored /\ IsFiniteSet(both)
        BY <1>1
      <4>3. CostOf(both) = Cost[x.span] + CostOf(rest)
        <5> HIDE DEF both, rest
        <5> QED
          BY <4>1, <4>2, CostWithout
      <4>4. CostOf(both) <= Cost[x.span] + CostOf(rest)
        <5> HIDE DEF both, rest
        <5> QED
          BY <3>1, <4>3
      <4> QED
        BY <4>4
    <3> QED
      BY <3>2, <3>3
  <2>5. /\ Cost[x.span] \in Nat /\ CostOf(s \ {x}) \in Nat /\ CostOf((s \ {x}) \cup U) \in Nat
        /\ CostOf(s \cup U) \in Nat
    BY <1>1, SpanCosts
  <2>6. CostOf(s \cup U) <= CostOf(s) + CostOf(U)
    BY <1>2, <2>2, <2>3, <2>4, <2>5
  <2> QED
    BY <2>6
<1> HIDE DEF P
<1>5. SUBSET T \subseteq P
  BY <1>3, <1>4, SubsetInduction
<1> QED
  BY <1>5 DEF P

\* e is s at the positions P, o being these positions.
Entries(s, P, e, o) ==
    /\ DOMAIN e = 1..Cardinality(P)
    /\ o \in [1..Cardinality(P) -> P]
    /\ \A p \in P : \E i \in 1..Cardinality(P) : o[i] = p
    /\ \A i, j \in 1..Cardinality(P) : i < j => o[i] < o[j]
    /\ \A i \in 1..Cardinality(P) : e[i] = s[o[i]]

\* EntriesAt has what the positions have, in their order.
LEMMA EntriesInOrder ==
    ASSUME NEW S, NEW s \in Seq(S), NEW P \in SUBSET (1..Len(s))
    PROVE  /\ Cardinality(P) \in Nat
           /\ EntriesAt(s, P) \in Seq(S) /\ Len(EntriesAt(s, P)) = Cardinality(P)
           /\ \E o : Entries(s, P, EntriesAt(s, P), o)
<1> DEFINE ahead == [i \in P |-> {j \in P : j < i}]
           n == Cardinality(P)
           o == InOrder(ahead)
           e == EntriesAt(s, P)
<1>1. Len(s) \in Nat /\ \A i \in 1..Len(s) : s[i] \in S
  BY ValuesOfSequence
<1>2. IsFiniteSet(P) /\ n \in Nat
  <2>1. 1 \in Int /\ Len(s) \in Int
    BY <1>1
  <2>2. IsFiniteSet(1..Len(s))
    BY <2>1, FS_Interval
  <2> QED
    BY <2>2, FS_Subset, FS_CardinalityType
<1>3. \A i \in P : i \in Nat
  BY <1>1
<1>4. IsOrder(P, ahead)
  <2>1. \A x, y \in P : y \in ahead[x] <=> y < x
    OBVIOUS
  <2>2. ahead \in [P -> SUBSET P] /\ \A x \in P : ahead[x] = {y \in P : y < x}
    OBVIOUS
  <2> HIDE DEF ahead
  <2>3. \A x \in P : x \notin ahead[x]
    BY <1>3, <2>1
  <2>4. \A x, y \in P : x # y => x \in ahead[y] \/ y \in ahead[x]
    BY <1>3, <2>1
  <2>5. ASSUME NEW x \in P, NEW y \in P, y \in ahead[x]
        PROVE  ahead[y] \subseteq ahead[x]
    <3>1. \A z \in P : z < y => z < x
      BY <1>3, <2>1, <2>5
    <3> QED
      BY <2>2, <3>1
  <2> QED
    BY <2>2, <2>3, <2>4, <2>5 DEF IsOrder
<1>5. \A i \in P : ahead[i] = {j \in P : j < i}
  OBVIOUS
<1>6. e = [i \in DOMAIN o |-> s[o[i]]]
  BY DEF EntriesAt
<1> HIDE DEF ahead, e, o
<1>7. Lists(P, ahead, o)
  BY <1>2, <1>4, OrderedSet DEF o
<1>8. DOMAIN o = 1..n /\ \A i \in 1..n : o[i] \in P
  BY <1>7 DEF Lists
<1>9. e = [i \in 1..n |-> s[o[i]]]
  BY <1>6, <1>8
<1>10. \A i \in 1..n : e[i] \in S
  BY <1>1, <1>8, <1>9
<1>11. e \in Seq(S) /\ Len(e) = n /\ DOMAIN e = 1..n
  BY <1>2, <1>9, <1>10
<1>12. \A i, j \in 1..n : i < j => o[i] < o[j]
  BY <1>5, <1>7 DEF Lists
<1>13. Entries(s, P, e, o)
  BY <1>7, <1>9, <1>11, <1>12 DEF Entries, Lists
<1> QED
  BY <1>2, <1>11, <1>13 DEF e

\* What a sequence of spans costs.
LEMMA TotalOfAppended ==
    /\ TotalCost(<<>>) = 0
    /\ \A s \in Seq(Scored) : TotalCost(s) \in Nat
    /\ \A s \in Seq(Scored) : \A x \in Scored :
           /\ Cost[x.span] \in Nat
           /\ TotalCost(Append(s, x)) = TotalCost(s) + Cost[x.span]
<1>1. ASSUME NEW s \in Seq(Scored)
      PROVE  /\ Len(s) \in Nat /\ DOMAIN s = 1..Len(s) /\ IsFiniteSet(1..Len(s))
             /\ \A i \in 1..Len(s) : Cost[s[i].span] \in Nat
  <2>1. Len(s) \in Nat /\ DOMAIN s = 1..Len(s) /\ \A i \in 1..Len(s) : s[i] \in Scored
    BY ValuesOfSequence
  <2>2. 1 \in Int /\ Len(s) \in Int
    BY <2>1
  <2>3. IsFiniteSet(1..Len(s))
    BY <2>2, FS_Interval
  <2> QED
    BY <2>1, <2>3, SpanCosts
<1>2. ASSUME NEW s \in Seq(Scored)
      PROVE  /\ TotalCost(s) \in Nat
             /\ Len(s) = 0 => TotalCost(s) = 0
  <2> DEFINE w == [i \in 1..Len(s) |-> Cost[s[i].span]]
  <2>1. w \in [1..Len(s) -> Nat] /\ TotalCost(s) = SumFunction(w)
    BY <1>1 DEF TotalCost
  <2>2. Len(s) = 0 => 1..Len(s) = {}
    OBVIOUS
  <2> HIDE DEF w
  <2> QED
    BY <1>1, <2>1, <2>2, SumOfValues
<1>3. ASSUME NEW s \in Seq(Scored), NEW x \in Scored
      PROVE  TotalCost(Append(s, x)) = TotalCost(s) + Cost[x.span]
  <2> DEFINE n == Len(s)
             t == Append(s, x)
             w == [i \in 1..(n + 1) |-> Cost[t[i].span]]
             v == [i \in 1..n |-> Cost[s[i].span]]
  <2>1. /\ t \in Seq(Scored) /\ Len(t) = n + 1 /\ t[n + 1] = x
        /\ \A i \in 1..n : t[i] = s[i]
    BY AppendProperties
  <2>2. n \in Nat /\ IsFiniteSet(1..(n + 1)) /\ DOMAIN t = 1..(n + 1)
    BY <1>1, <2>1
  <2>3. w \in [1..(n + 1) -> Nat] /\ TotalCost(t) = SumFunction(w)
    <3>1. \A i \in 1..(n + 1) : Cost[t[i].span] \in Nat
      BY <1>1, <2>1
    <3> HIDE DEF t
    <3> QED
      BY <2>2, <3>1 DEF TotalCost
  <2>4. TotalCost(s) = SumFunction(v)
    BY <1>1 DEF TotalCost
  <2>5. Without(1..(n + 1), w, n + 1, v)
    <3>1. (1..(n + 1)) \ {n + 1} = 1..n
      BY <2>2
    <3>2. \A i \in 1..n : i \in 1..(n + 1) /\ Cost[s[i].span] \in Nat
      BY <1>1
    <3> HIDE DEF t
    <3>3. v \in [1..n -> Nat] /\ \A i \in 1..n : v[i] = w[i]
      BY <2>1, <3>2
    <3> HIDE DEF v, w
    <3> QED
      BY <3>1, <3>3 DEF Without
  <2>6. n + 1 \in 1..(n + 1) /\ w[n + 1] = Cost[x.span]
    BY <2>1, <2>2
  <2> HIDE DEF v, w, t
  <2> DEFINE D == 1..(n + 1)
             d == n + 1
  <2>7. d \in D /\ Without(D, w, d, v) /\ w \in [D -> Nat] /\ IsFiniteSet(D)
    BY <2>2, <2>3, <2>5, <2>6
  <2> HIDE DEF D, d
  <2>8. SumFunction(w) = w[d] + SumFunction(v)
    BY <2>7, SumOfValues
  <2>9. w[d] = Cost[x.span]
    BY <2>6 DEF d
  <2>10. Cost[x.span] \in Nat /\ SumFunction(v) \in Nat
    BY <1>2, <2>4, SpanCosts
  <2> QED
    BY <2>3, <2>4, <2>8, <2>9, <2>10 DEF t
<1>4. TotalCost(<<>>) = 0
  <2>1. <<>> \in Seq(Scored) /\ Len(<<>>) = 0
    OBVIOUS
  <2> QED
    BY <1>2, <2>1
<1> QED
  BY <1>2, <1>3, <1>4, SpanCosts

\* A sequence costs what its values cost, and more if one is there twice.
LEMMA TotalOfValues ==
    ASSUME NEW s \in Seq(Scored)
    PROVE  /\ CostOf(ToSet(s)) <= TotalCost(s)
           /\ Distinct(s) => CostOf(ToSet(s)) = TotalCost(s)
<1> DEFINE Good(t) == /\ CostOf(ToSet(t)) <= TotalCost(t)
                      /\ Distinct(t) => CostOf(ToSet(t)) = TotalCost(t)
           N == {n \in Nat : \A t \in Seq(Scored) : Len(t) = n => Good(t)}
<1>1. ASSUME NEW t \in Seq(Scored)
      PROVE  CostOf(ToSet(t)) \in Nat /\ TotalCost(t) \in Nat
  BY ValuesOfSequence, CostWithout, TotalOfAppended
<1>2. 0 \in N
  <2> SUFFICES ASSUME NEW t \in Seq(Scored), Len(t) = 0
               PROVE  Good(t)
    OBVIOUS
  <2>1. t = <<>>
    OBVIOUS
  <2>2. ToSet(t) = {}
    BY <2>1 DEF ToSet
  <2>3. CostOf({}) = 0
    BY FS_EmptySet, CostWithout
  <2>4. TotalCost(t) = 0
    BY <2>1, TotalOfAppended
  <2> QED
    BY <2>2, <2>3, <2>4
<1>3. ASSUME NEW n \in Nat, n \in N
      PROVE  n + 1 \in N
  <2> SUFFICES ASSUME NEW t \in Seq(Scored), Len(t) = n + 1
               PROVE  Good(t)
    OBVIOUS
  <2>1. PICK front \in Seq(Scored), x \in Scored : t = Append(front, x)
    <3>1. t # <<>>
      OBVIOUS
    <3> QED
      BY <3>1, SequenceEmptyOrAppend
  <2> DEFINE F == ToSet(front)
  <2>2. ToSet(t) = F \cup {x} /\ TotalCost(t) = TotalCost(front) + Cost[x.span]
    BY <2>1, AppendedValues, TotalOfAppended
  <2>3. /\ Len(front) = n /\ Len(t) = Len(front) + 1 /\ t[Len(front) + 1] = x
        /\ \A i \in 1..Len(front) : t[i] = front[i]
    <3>1. /\ Len(front) \in Nat /\ Len(t) = Len(front) + 1 /\ t[Len(front) + 1] = x
          /\ \A i \in 1..Len(front) : t[i] = front[i]
      BY <2>1, AppendProperties, LenProperties
    <3> QED
      BY <3>1
  <2>4. Good(front)
    BY <1>3, <2>3
  <2>5. F \in SUBSET Scored /\ IsFiniteSet(F) /\ IsFiniteSet(F \cup {x}) /\ F \cup {x} \in SUBSET Scored
    BY ValuesOfSequence, FS_AddElement
  <2>6. CostOf(F) \in Nat /\ TotalCost(front) \in Nat /\ Cost[x.span] \in Nat
    BY <1>1, SpanCosts
  <2> HIDE DEF F
  <2>7. x \in F => CostOf(F \cup {x}) = CostOf(F)
    <3>1. x \in F => F \cup {x} = F
      OBVIOUS
    <3> QED
      BY <3>1
  <2>8. x \notin F => CostOf(F \cup {x}) = Cost[x.span] + CostOf(F)
    <3> DEFINE T == F \cup {x}
    <3> SUFFICES ASSUME x \notin F
                 PROVE  CostOf(T) = Cost[x.span] + CostOf(F)
      OBVIOUS
    <3>1. T \ {x} = F /\ x \in T /\ T \in SUBSET Scored /\ IsFiniteSet(T)
      BY <2>5
    <3> HIDE DEF T
    <3> QED
      BY <3>1, CostWithout
  <2>9. CostOf(ToSet(t)) <= TotalCost(t)
    BY <2>2, <2>4, <2>6, <2>7, <2>8 DEF F
  <2>10. ASSUME Distinct(t)
         PROVE  CostOf(ToSet(t)) = TotalCost(t)
    <3>1. Len(front) \in Nat /\ Len(t) \in Nat
      BY LenProperties
    <3>2. Distinct(front)
      <4>1. \A i \in 1..Len(front) : i \in 1..Len(t)
        BY <2>3, <3>1
      <4> QED
        BY <2>3, <2>10, <4>1 DEF Distinct
    <3>3. x \notin F
      <4> SUFFICES ASSUME x \in F
                   PROVE  FALSE
        OBVIOUS
      <4>1. PICK i \in 1..Len(front) : front[i] = x
        BY ValuesOfSequence DEF F
      <4>2. i \in 1..Len(t) /\ n + 1 \in 1..Len(t) /\ i # n + 1
        BY <2>3, <3>1
      <4> QED
        BY <2>3, <2>10, <4>1, <4>2 DEF Distinct
    <3> QED
      BY <2>2, <2>4, <2>6, <2>8, <3>2, <3>3 DEF F
  <2> QED
    BY <2>9, <2>10
<1> HIDE DEF N
<1>4. Nat \subseteq N
  BY <1>2, <1>3, NaturalInduction
<1>5. Len(s) \in Nat
  BY LenProperties
<1>6. Len(s) \in N
  BY <1>4, <1>5
<1> QED
  BY <1>6 DEF N

\* The same spans, best first.
Sorted(spans, b) ==
    /\ b \in Seq(Scored) /\ Len(b) = Len(spans) /\ ToSet(b) = ToSet(spans)
    /\ \A i, j \in 1..Len(b) : i < j => b[i].score >= b[j].score
    /\ Distinct(spans) => Distinct(b)

\* BestFirst sorts them.
LEMMA BestFirstSorts ==
    ASSUME NEW spans \in Seq(Scored)
    PROVE  Sorted(spans, BestFirst(spans))
<1> DEFINE n == Len(spans)
           D == 1..n
           ahead == [i \in D |-> {j \in D : \/ spans[j].score > spans[i].score
                                            \/ spans[j].score = spans[i].score /\ j < i}]
           o == InOrder(ahead)
           b == BestFirst(spans)
<1>1. /\ n \in Nat /\ DOMAIN spans = D
      /\ \A i \in D : i \in Nat /\ spans[i] \in Scored /\ spans[i].score \in Int
  BY ValuesOfSequence, SpanCosts
<1>2. IsFiniteSet(D) /\ Cardinality(D) = n
  <2>1. 1 \in Int /\ n \in Int
    BY <1>1
  <2>2. /\ IsFiniteSet(1..n)
        /\ Cardinality(1..n) = IF 1 > n THEN 0 ELSE n - 1 + 1
    BY <2>1, FS_Interval
  <2> QED
    BY <1>1, <2>2
<1>3. \A i, j \in D : j \in ahead[i] <=> \/ spans[j].score > spans[i].score
                                         \/ spans[j].score = spans[i].score /\ j < i
  OBVIOUS
<1>4. ahead \in [D -> SUBSET D]
  OBVIOUS
<1>5. b = [i \in DOMAIN o |-> spans[o[i]]]
  BY <1>1 DEF BestFirst
<1> HIDE DEF ahead, o, b, D
<1>6. IsOrder(D, ahead)
  <2>1. \A i \in D : i \notin ahead[i]
    BY <1>1, <1>3
  <2>2. \A i, j \in D : i # j => i \in ahead[j] \/ j \in ahead[i]
    BY <1>1, <1>3
  <2>3. ASSUME NEW i \in D, NEW j \in D, j \in ahead[i]
        PROVE  ahead[j] \subseteq ahead[i]
    <3>1. \A k \in D : k \in ahead[j] => k \in ahead[i]
      BY <1>1, <1>3, <2>3
    <3>2. ahead[j] \in SUBSET D
      BY <1>4
    <3> QED
      BY <3>1, <3>2
  <2> QED
    BY <1>4, <2>1, <2>2, <2>3 DEF IsOrder
<1>7. Lists(D, ahead, o)
  BY <1>2, <1>6, OrderedSet DEF o
<1>8. /\ DOMAIN o = D /\ \A i \in D : o[i] \in D
      /\ \A k \in D : \E i \in D : o[i] = k
      /\ \A i, j \in D : i < j => o[i] \in ahead[o[j]]
  BY <1>2, <1>7 DEF Lists, D
<1>9. b = [i \in 1..n |-> spans[o[i]]]
  BY <1>5, <1>8 DEF D
<1>10. b \in Seq(Scored) /\ Len(b) = n
  <2>1. \A i \in 1..n : spans[o[i]] \in Scored
    BY <1>1, <1>8 DEF D
  <2> QED
    BY <1>1, <1>9, <2>1
<1>11. \A i \in D : b[i] = spans[o[i]]
  BY <1>9 DEF D
<1>12. ToSet(b) = ToSet(spans)
  <2>1. ToSet(b) = {b[i] : i \in D} /\ ToSet(spans) = {spans[i] : i \in D}
    BY <1>1, <1>9 DEF ToSet, D
  <2> QED
    BY <1>8, <1>11, <2>1
<1>13. \A i, j \in D : i < j => b[i].score >= b[j].score
  <2> SUFFICES ASSUME NEW i \in D, NEW j \in D, i < j
               PROVE  b[i].score >= b[j].score
    OBVIOUS
  <2>1. o[i] \in D /\ o[j] \in D /\ o[i] \in ahead[o[j]]
    BY <1>8
  <2>2. spans[o[i]].score >= spans[o[j]].score
    BY <1>1, <1>3, <2>1
  <2> QED
    BY <1>11, <2>2
<1>14. ASSUME Distinct(spans)
       PROVE  Distinct(b)
  <2> SUFFICES ASSUME NEW i \in D, NEW j \in D, b[i] = b[j], i # j
               PROVE  FALSE
    BY <1>10 DEF Distinct, D
  <2>1. o[i] \in D /\ o[j] \in D
    BY <1>8
  <2>2. spans[o[i]] = spans[o[j]]
    BY <1>11
  <2>3. o[i] = o[j]
    BY <1>14, <2>1, <2>2 DEF Distinct, D
  <2>4. o[i] \in ahead[o[j]] \/ o[j] \in ahead[o[i]]
    BY <1>1, <1>8
  <2> QED
    BY <1>1, <1>3, <2>1, <2>3, <2>4
<1> QED
  BY <1>10, <1>12, <1>13, <1>14 DEF Sorted, b, D

\* The next span of a packing.
PackedWith(kept, x, budget) ==
    IF TotalCost(kept) + Cost[x.span] > budget THEN kept ELSE Append(kept, x)

\* What is kept after each span.
LEMMA PackStepwise ==
    ASSUME NEW spans \in Seq(Scored), NEW budget \in Nat
    PROVE  \E g \in [0..Len(spans) -> Seq(Scored)] :
               /\ g[0] = <<>>
               /\ \A i \in 1..Len(spans) : g[i] = PackedWith(g[i - 1], BestFirst(spans)[i], budget)
               /\ g[Len(spans)] = Pack(spans, budget)
<1> DEFINE n == Len(spans)
           best == BestFirst(spans)
           X == Seq(Scored)
           none == <<>>
           step == [i \in 1..n |-> [k \in X |-> PackedWith(k, best[i], budget)]]
           Right(f) == f = [s \in SUBSET (1..n) |->
                          IF s = {} THEN none ELSE PackedWith(f[s \ {Max(s)}], best[Max(s)], budget)]
           iter == CHOOSE f : Right(f)
<1>1. n \in Nat /\ DOMAIN best = 1..n /\ \A i \in 1..n : best[i] \in Scored
  BY ValuesOfSequence, BestFirstSorts DEF Sorted
<1>2. IsSteps(n, X, step)
  <2> SUFFICES ASSUME NEW i \in 1..n, NEW k \in X
               PROVE  PackedWith(k, best[i], budget) \in X
    BY DEF IsSteps
  <2> QED
    BY <1>1, AppendProperties DEF PackedWith
<1>3. \A k \in X, i \in 1..n : step[i][k] = PackedWith(k, best[i], budget)
  OBVIOUS
<1>4. none \in X
  OBVIOUS
<1>5. Pack(spans, budget) = iter[1..n]
  BY <1>1 DEF Pack, FoldLeft, MapThenFoldSet, PackedWith
<1> HIDE DEF X, n, step, iter, best, none
<1>6. PICK f \in [SUBSET (1..n) -> X] : Collects(n, none, step, f)
  BY <1>1, <1>2, <1>4, RecursionOnPositions DEF HasCollection
<1>7. Right(f)
  <2>1. ASSUME NEW s \in SUBSET (1..n), s # {}
        PROVE  f[s] = PackedWith(f[s \ {Max(s)}], best[Max(s)], budget)
    BY <1>1, <1>3, <1>6, <2>1, MaxOfPositions DEF Collects
  <2>2. f[{}] = none
    BY <1>6 DEF Collects
  <2> QED
    BY <2>1, <2>2
<1>8. Right(iter)
  BY <1>7 DEF iter
<1>9. Follows(n, X, none, step, iter)
  <2>1. iter[{}] = none
    BY <1>8
  <2>2. ASSUME NEW s \in SUBSET (1..n), s # {}, iter[s \ {Max(s)}] \in X
        PROVE  iter[s] = step[Max(s)][iter[s \ {Max(s)}]]
    <3>1. Max(s) \in 1..n
      BY <1>1, <2>2, MaxOfPositions
    <3> QED
      BY <1>3, <1>8, <2>2, <3>1
  <2> QED
    BY <2>1, <2>2 DEF Follows
<1>10. EndsLike(n, X, none, step, iter[1..n])
  BY <1>1, <1>2, <1>4, <1>9, FoldByPrefixes
<1>11. PICK g \in [0..n -> X] : Iterates(n, none, step, g) /\ g[n] = iter[1..n]
  BY <1>10 DEF EndsLike
<1>12. \A i \in 1..n : g[i] = PackedWith(g[i - 1], best[i], budget)
  <2> SUFFICES ASSUME NEW i \in 1..n
               PROVE  g[i] = PackedWith(g[i - 1], best[i], budget)
    OBVIOUS
  <2>1. i - 1 \in 0..n
    BY <1>1
  <2> QED
    BY <1>3, <1>11, <2>1 DEF Iterates
<1> QED
  BY <1>5, <1>11, <1>12 DEF Iterates, X, n, none, best

\* Best first.
Best(s) == \A i, j \in 1..Len(s) : i < j => s[i].score >= s[j].score

\* What holds of the spans kept after i of best.
PackedSoFar(best, budget, g, i) ==
    /\ Distinct(g[i]) /\ Best(g[i])
    /\ ToSet(g[i]) \subseteq {best[j] : j \in 1..i}
    /\ \A j \in 0..i : ToSet(g[j]) \subseteq ToSet(g[i])
    /\ TotalCost(g[i]) <= budget

\* What is kept so far fits.
LEMMA PackKeeps ==
    ASSUME NEW n \in Nat, NEW best \in Seq(Scored), Len(best) = n, Distinct(best), Best(best),
           NEW budget \in Nat, NEW g \in [0..n -> Seq(Scored)], g[0] = <<>>,
           \A i \in 1..n : g[i] = PackedWith(g[i - 1], best[i], budget)
    PROVE  \A i \in 0..n : PackedSoFar(best, budget, g, i)
<1> DEFINE N == {i \in Nat : i <= n => PackedSoFar(best, budget, g, i)}
<1>1. 0 \in N
  <2>1. ToSet(<<>>) = {} /\ Distinct(<<>>) /\ Best(<<>>) /\ TotalCost(<<>>) = 0
    BY TotalOfAppended DEF ToSet, Distinct, Best
  <2>2. \A j \in 0..0 : j = 0
    OBVIOUS
  <2> QED
    BY <2>1, <2>2 DEF PackedSoFar
<1>2. ASSUME NEW i \in Nat, i \in N
      PROVE  i + 1 \in N
  <2> SUFFICES ASSUME i + 1 <= n
               PROVE  PackedSoFar(best, budget, g, i + 1)
    OBVIOUS
  <2> DEFINE k == i + 1
             x == best[k]
             old == g[i]
  <2>1. k \in 1..n /\ k - 1 = i /\ i \in 0..n /\ k \in 0..n
    OBVIOUS
  <2>2. PackedSoFar(best, budget, g, i)
    BY <1>2, <2>1
  <2>3. x \in Scored /\ old \in Seq(Scored) /\ g[k] = PackedWith(old, x, budget)
    BY <2>1, ValuesOfSequence
  <2>4. \A j \in 1..i : j \in 1..k
    BY <2>1
  <2>5. \A j \in 0..k : j \in 0..i \/ j = k
    BY <2>1
  <2> HIDE DEF k, x, old
  <2>6. CASE TotalCost(old) + Cost[x.span] > budget
    <3>1. g[k] = g[i]
      BY <2>3, <2>6 DEF PackedWith, old
    <3> QED
      BY <2>2, <2>4, <2>5, <3>1 DEF PackedSoFar, k
  <2>7. CASE ~(TotalCost(old) + Cost[x.span] > budget)
    <3>1. g[k] = Append(old, x)
      BY <2>3, <2>7 DEF PackedWith
    <3>2. x \notin ToSet(old)
      <4> SUFFICES ASSUME x \in ToSet(old)
                   PROVE  FALSE
        OBVIOUS
      <4>1. PICK j \in 1..i : best[j] = x
        BY <2>2 DEF PackedSoFar, old
      <4>2. j \in 1..Len(best) /\ k \in 1..Len(best) /\ j # k
        BY <2>1
      <4> QED
        BY <4>1, <4>2 DEF Distinct, x
    <3>3. ToSet(g[k]) = ToSet(old) \cup {x}
      BY <2>3, <3>1, AppendedValues
    <3>4. Distinct(g[k])
      BY <2>2, <2>3, <3>1, <3>2, AppendDistinct DEF PackedSoFar, old
    <3>5. TotalCost(g[k]) <= budget
      <4>1. /\ TotalCost(g[k]) = TotalCost(old) + Cost[x.span]
            /\ TotalCost(old) \in Nat /\ Cost[x.span] \in Nat
        BY <2>3, <3>1, TotalOfAppended
      <4> DEFINE t == TotalCost(old)
                 c == Cost[x.span]
      <4>2. t \in Nat /\ c \in Nat /\ TotalCost(g[k]) = t + c /\ ~(t + c > budget)
        BY <2>7, <4>1
      <4> HIDE DEF t, c
      <4> QED
        BY <4>2
    <3>6. ToSet(g[k]) \subseteq {best[j] : j \in 1..k}
      <4>1. ToSet(old) \subseteq {best[j] : j \in 1..k}
        BY <2>2, <2>4 DEF PackedSoFar, old
      <4>2. x \in {best[j] : j \in 1..k}
        BY <2>1 DEF x
      <4> QED
        BY <3>3, <4>1, <4>2
    <3>7. \A j \in 0..k : ToSet(g[j]) \subseteq ToSet(g[k])
      <4>1. \A j \in 0..i : ToSet(g[j]) \subseteq ToSet(old)
        BY <2>2 DEF PackedSoFar, old
      <4> QED
        BY <2>5, <3>3, <4>1
    <3>8. Best(g[k])
      <4>1. /\ Len(old) \in Nat /\ Len(g[k]) = Len(old) + 1 /\ g[k][Len(old) + 1] = x
            /\ \A j \in 1..Len(old) : g[k][j] = old[j]
        BY <2>3, <3>1, AppendProperties, LenProperties
      <4>2. \A j \in 1..Len(old) : old[j].score >= x.score
        <5> SUFFICES ASSUME NEW j \in 1..Len(old)
                     PROVE  old[j].score >= x.score
          OBVIOUS
        <5>1. old[j] \in ToSet(old)
          BY <2>3, ValuesOfSequence
        <5>2. PICK m \in 1..i : best[m] = old[j]
          BY <2>2, <5>1 DEF PackedSoFar, old
        <5>3. m \in 1..Len(best) /\ k \in 1..Len(best) /\ m < k
          BY <2>1
        <5> QED
          BY <5>2, <5>3 DEF Best, x
      <4>3. \A j, m \in 1..Len(old) : j < m => old[j].score >= old[m].score
        BY <2>2 DEF PackedSoFar, Best, old
      <4> SUFFICES ASSUME NEW j \in 1..Len(g[k]), NEW m \in 1..Len(g[k]), j < m
                   PROVE  g[k][j].score >= g[k][m].score
        BY DEF Best
      <4>4. j \in 1..Len(old) /\ (m \in 1..Len(old) \/ m = Len(old) + 1)
        <5> DEFINE len == Len(old)
        <5>1. len \in Nat /\ j \in 1..(len + 1) /\ m \in 1..(len + 1)
          BY <4>1
        <5> HIDE DEF len
        <5>2. j \in 1..len /\ (m \in 1..len \/ m = len + 1)
          BY <5>1
        <5> QED
          BY <5>2 DEF len
      <4> QED
        BY <4>1, <4>2, <4>3, <4>4
    <3>9. PackedSoFar(best, budget, g, k)
      BY <3>4, <3>5, <3>6, <3>7, <3>8 DEF PackedSoFar
    <3> QED
      BY <3>9 DEF k
  <2> QED
    BY <2>6, <2>7
<1> HIDE DEF N
<1>3. Nat \subseteq N
  BY <1>1, <1>2, NaturalInduction
<1> QED
  BY <1>3 DEF N

\* kept is the packing of spans into a budget.
Packed(spans, budget, kept) ==
    /\ kept \in Seq(Scored) /\ Distinct(kept) /\ Best(kept)
    /\ ToSet(kept) \subseteq ToSet(spans) /\ CostOf(ToSet(kept)) <= budget
    /\ \A x \in ToSet(spans) \ ToSet(kept) : \E k \in SUBSET ToSet(kept) :
           (\A y \in k : y.score >= x.score) /\ CostOf(k) + Cost[x.span] > budget
    /\ CostOf(ToSet(spans)) <= budget => ToSet(kept) = ToSet(spans)

\* What is packed fits, and what is left out did not fit beside better spans.
LEMMA PackFits ==
    ASSUME NEW spans \in Seq(Scored), Distinct(spans), NEW budget \in Nat
    PROVE  Packed(spans, budget, Pack(spans, budget))
<1> DEFINE n == Len(spans)
           best == BestFirst(spans)
           kept == Pack(spans, budget)
           all == ToSet(spans)
<1>1. n \in Nat /\ all \in SUBSET Scored /\ IsFiniteSet(all)
  BY ValuesOfSequence
<1>2. /\ best \in Seq(Scored) /\ Len(best) = n /\ ToSet(best) = all
      /\ Best(best) /\ Distinct(best)
  BY BestFirstSorts DEF Sorted, Best
<1>3. PICK g \in [0..n -> Seq(Scored)] :
          /\ g[0] = <<>>
          /\ \A i \in 1..n : g[i] = PackedWith(g[i - 1], best[i], budget)
          /\ g[n] = kept
  BY PackStepwise
<1> HIDE DEF n, best, kept, all
<1>4. \A i \in 0..n : PackedSoFar(best, budget, g, i)
  BY <1>1, <1>2, <1>3, PackKeeps
<1>5. ASSUME NEW i \in 0..n
      PROVE  /\ g[i] \in Seq(Scored) /\ ToSet(g[i]) \in SUBSET Scored /\ IsFiniteSet(ToSet(g[i]))
             /\ Distinct(g[i]) /\ TotalCost(g[i]) <= budget
             /\ CostOf(ToSet(g[i])) = TotalCost(g[i])
  <2>1. g[i] \in Seq(Scored) /\ Distinct(g[i]) /\ TotalCost(g[i]) <= budget
    BY <1>4 DEF PackedSoFar
  <2> QED
    BY <2>1, ValuesOfSequence, TotalOfValues
<1>6. \A j \in 1..n : best[j] \in all /\ best[j] \in Scored
  BY <1>2, ValuesOfSequence
<1>7. n \in 0..n /\ kept \in Seq(Scored) /\ Distinct(kept) /\ Best(kept)
  BY <1>1, <1>3, <1>4 DEF PackedSoFar
<1>8. ToSet(kept) \subseteq all
  BY <1>3, <1>4, <1>6, <1>7 DEF PackedSoFar
<1>9. CostOf(ToSet(kept)) <= budget
  <2>1. CostOf(ToSet(kept)) = TotalCost(kept) /\ TotalCost(kept) <= budget
    BY <1>3, <1>5, <1>7
  <2> QED
    BY <2>1
<1>10. ASSUME NEW x \in all \ ToSet(kept)
       PROVE  \E k \in SUBSET ToSet(kept) :
                  (\A y \in k : y.score >= x.score) /\ CostOf(k) + Cost[x.span] > budget
  <2>1. PICK j \in 1..n : best[j] = x
    BY <1>2, ValuesOfSequence
  <2>2. j \in 0..n /\ j - 1 \in 0..n
    BY <1>1
  <2> DEFINE old == g[j - 1]
             k == ToSet(old)
  <2>3. k \in SUBSET ToSet(kept) /\ ToSet(g[j]) \subseteq ToSet(kept)
    BY <1>3, <1>4, <1>7, <2>2 DEF PackedSoFar
  <2>4. TotalCost(old) + Cost[x.span] > budget
    <3>1. g[j] = PackedWith(old, x, budget) /\ old \in Seq(Scored) /\ x \in Scored
      BY <1>3, <1>6, <2>1, <2>2
    <3>2. x \notin ToSet(g[j])
      BY <2>3
    <3> HIDE DEF old
    <3>3. x \in ToSet(Append(old, x))
      BY <3>1, AppendedValues
    <3> QED
      BY <3>1, <3>2, <3>3 DEF PackedWith
  <2>5. CostOf(k) = TotalCost(old)
    BY <1>5, <2>2
  <2>6. \A y \in k : y.score >= x.score
    <3> SUFFICES ASSUME NEW y \in k
                 PROVE  y.score >= x.score
      OBVIOUS
    <3>1. PICK m \in 1..(j - 1) : best[m] = y
      BY <1>4, <2>2 DEF PackedSoFar
    <3>2. m \in 1..Len(best) /\ j \in 1..Len(best) /\ m < j
      BY <1>1, <1>2, <2>2
    <3> QED
      BY <1>2, <2>1, <3>1, <3>2 DEF Best
  <2> HIDE DEF k, old
  <2>7. CostOf(k) + Cost[x.span] > budget
    BY <2>4, <2>5
  <2> QED
    BY <2>3, <2>6, <2>7
<1>11. ASSUME CostOf(all) <= budget
       PROVE  ToSet(kept) = all
  <2> SUFFICES ASSUME NEW x \in all \ ToSet(kept)
               PROVE  FALSE
    BY <1>8
  <2>1. PICK k \in SUBSET ToSet(kept) : CostOf(k) + Cost[x.span] > budget
    BY <1>10
  <2> DEFINE both == k \cup {x}
  <2>2. both \in SUBSET all /\ x \in both /\ both \ {x} = k
    BY <1>8
  <2>3. both \in SUBSET Scored /\ IsFiniteSet(both) /\ x \in Scored
    BY <1>1, <2>2, FS_Subset
  <2> HIDE DEF both
  <2>4. CostOf(both) = Cost[x.span] + CostOf(k) /\ CostOf(both) \in Nat
    BY <2>2, <2>3, CostWithout
  <2>5. CostOf(both) <= CostOf(all) /\ CostOf(all) \in Nat
    BY <1>1, <2>2, CostGrows, CostWithout
  <2>6. CostOf(k) \in Nat /\ Cost[x.span] \in Nat
    <3>1. k \in SUBSET Scored /\ IsFiniteSet(k)
      BY <2>2, <2>3, FS_Subset
    <3> QED
      BY <2>3, <3>1, CostWithout, SpanCosts
  <2> QED
    BY <1>11, <2>1, <2>4, <2>5, <2>6
<1> QED
  BY <1>7, <1>8, <1>9, <1>10, <1>11 DEF Packed, kept, all

\* Where the i-th span of a layout comes from.
PlaceIn(n, i) == IF i <= (n + 1) \div 2 THEN 2 * i - 1 ELSE 2 * (n - i + 1)

\* Each place is taken once.
LEMMA EveryPlaceOnce ==
    ASSUME NEW n \in Nat
    PROVE  /\ \A i \in 1..n : PlaceIn(n, i) \in 1..n
           /\ \A k \in 1..n : \E i \in 1..n : PlaceIn(n, i) = k
<1>1. ASSUME NEW i \in 1..n
      PROVE  PlaceIn(n, i) \in 1..n
  BY DEF PlaceIn
<1>2. ASSUME NEW k \in 1..n
      PROVE  \E i \in 1..n : PlaceIn(n, i) = k
  <2>1. CASE k % 2 = 1
    <3> DEFINE i == (k + 1) \div 2
    <3>1. i \in 1..n /\ i <= (n + 1) \div 2 /\ 2 * i - 1 = k
      BY <2>1
    <3> QED
      BY <3>1 DEF PlaceIn
  <2>2. CASE k % 2 = 0
    <3> DEFINE i == n + 1 - (k \div 2)
    <3>1. i \in 1..n /\ ~(i <= (n + 1) \div 2) /\ 2 * (n - i + 1) = k
      BY <2>2
    <3> QED
      BY <3>1 DEF PlaceIn
  <2> QED
    BY <2>1, <2>2
<1> QED
  BY <1>1, <1>2

\* A layout has the same spans.
LEMMA LayoutKeeps ==
    ASSUME NEW S, NEW ranked \in Seq(S)
    PROVE  /\ LostInTheMiddle(ranked) \in Seq(S)
           /\ Len(LostInTheMiddle(ranked)) = Len(ranked)
           /\ ToSet(LostInTheMiddle(ranked)) = ToSet(ranked)
           /\ \A i \in 1..Len(ranked) : LostInTheMiddle(ranked)[i] = ranked[PlaceIn(Len(ranked), i)]
<1> DEFINE n == Len(ranked)
           l == LostInTheMiddle(ranked)
<1>1. n \in Nat /\ DOMAIN ranked = 1..n /\ \A i \in 1..n : ranked[i] \in S
  BY ValuesOfSequence
<1>2. l = [i \in 1..n |-> ranked[PlaceIn(n, i)]]
  BY DEF LostInTheMiddle, PlaceIn
<1> HIDE DEF l, n
<1>3. \A i \in 1..n : l[i] = ranked[PlaceIn(n, i)]
  BY <1>2
<1>4. l \in Seq(S) /\ Len(l) = n
  <2>1. \A i \in 1..n : ranked[PlaceIn(n, i)] \in S
    BY <1>1, EveryPlaceOnce
  <2> QED
    BY <1>1, <1>2, <2>1
<1>5. ToSet(l) = ToSet(ranked)
  <2>1. ToSet(l) = {l[i] : i \in 1..n} /\ ToSet(ranked) = {ranked[i] : i \in 1..n}
    BY <1>1, <1>2 DEF ToSet
  <2>2. \A i \in 1..n : PlaceIn(n, i) \in 1..n
    BY <1>1, EveryPlaceOnce
  <2>3. \A k \in 1..n : \E i \in 1..n : PlaceIn(n, i) = k
    BY <1>1, EveryPlaceOnce
  <2>4. ToSet(l) \subseteq ToSet(ranked)
    BY <1>3, <2>1, <2>2
  <2>5. ASSUME NEW x \in ToSet(ranked)
        PROVE  x \in ToSet(l)
    <3>1. PICK k \in 1..n : ranked[k] = x
      BY <2>1
    <3>2. PICK i \in 1..n : PlaceIn(n, i) = k
      BY <2>3
    <3>3. l[i] = x
      BY <1>3, <3>1, <3>2
    <3> QED
      BY <2>1, <3>3
  <2> QED
    BY <2>4, <2>5
<1> QED
  BY <1>3, <1>4, <1>5 DEF l, n

\* ahead orders S by falling key, then by rising tie.
OrderedBy(S, key, tie, ahead) ==
    /\ IsFiniteSet(S)
    /\ key \in [S -> Int] /\ tie \in [S -> Int] /\ ahead \in [S -> SUBSET S]
    /\ \A x, y \in S : key[x] = key[y] /\ tie[x] = tie[y] => x = y
    /\ \A x, y \in S : y \in ahead[x] <=> key[y] > key[x] \/ (key[y] = key[x] /\ tie[y] < tie[x])

\* Keys with ties order a set.
LEMMA KeysOrder ==
    ASSUME NEW S, NEW key, NEW tie, NEW ahead, OrderedBy(S, key, tie, ahead)
    PROVE  IsOrder(S, ahead)
<1>1. ahead \in [S -> SUBSET S] /\ \A x \in S : x \notin ahead[x]
  BY DEF OrderedBy
<1>2. \A x, y \in S : x # y => x \in ahead[y] \/ y \in ahead[x]
  <2> SUFFICES ASSUME NEW x \in S, NEW y \in S, x # y
               PROVE  x \in ahead[y] \/ y \in ahead[x]
    OBVIOUS
  <2>1. key[x] \in Int /\ key[y] \in Int /\ tie[x] \in Int /\ tie[y] \in Int
    BY DEF OrderedBy
  <2>2. key[x] # key[y] \/ tie[x] # tie[y]
    BY DEF OrderedBy
  <2> QED
    BY <2>1, <2>2 DEF OrderedBy
<1>3. ASSUME NEW x \in S, NEW y \in S, y \in ahead[x], NEW z \in S, z \in ahead[y]
      PROVE  z \in ahead[x]
  <2>1. /\ key[x] \in Int /\ key[y] \in Int /\ tie[x] \in Int /\ tie[y] \in Int
        /\ key[z] \in Int /\ tie[z] \in Int
    BY DEF OrderedBy
  <2>2. /\ key[y] > key[x] \/ (key[y] = key[x] /\ tie[y] < tie[x])
        /\ key[z] > key[y] \/ (key[z] = key[y] /\ tie[z] < tie[y])
    BY <1>3 DEF OrderedBy
  <2>3. key[z] > key[x] \/ (key[z] = key[x] /\ tie[z] < tie[x])
    BY <2>1, <2>2
  <2> QED
    BY <2>3 DEF OrderedBy
<1> QED
  BY <1>1, <1>2, <1>3 DEF IsOrder

\* A set in its order is a sequence.
LEMMA OrderIsSequence ==
    ASSUME NEW S, NEW key, NEW tie, NEW ahead, OrderedBy(S, key, tie, ahead)
    PROVE  /\ InOrder(ahead) \in Seq(S) /\ Lists(S, ahead, InOrder(ahead))
           /\ Len(InOrder(ahead)) = Cardinality(S) /\ ToSet(InOrder(ahead)) = S
<1> DEFINE o == InOrder(ahead)
<1>1. IsFiniteSet(S)
  BY DEF OrderedBy
<1>2. Lists(S, ahead, o) /\ Cardinality(S) \in Nat
  BY <1>1, KeysOrder, OrderedSet, FS_CardinalityType
<1> HIDE DEF o
<1>3. o \in [1..Cardinality(S) -> S] /\ \A x \in S : \E i \in 1..Cardinality(S) : o[i] = x
  BY <1>2 DEF Lists
<1>4. ToSet(o) = S
  BY <1>3 DEF ToSet
<1> QED
  BY <1>2, <1>3, <1>4 DEF o

\* Hits are counted by numbers.
LEMMA CountOfHits ==
    ASSUME NEW S, NEW hits \in Seq(S)
    PROVE  \A s : Cardinality({i \in DOMAIN hits : hits[i] = s}) \in Nat
<1> SUFFICES ASSUME NEW s
             PROVE  Cardinality({i \in DOMAIN hits : hits[i] = s}) \in Nat
  OBVIOUS
<1>1. Len(hits) \in Int /\ 1 \in Int /\ DOMAIN hits = 1..Len(hits)
  BY LenProperties
<1>2. IsFiniteSet(1..Len(hits))
  BY <1>1, FS_Interval
<1> DEFINE T == {i \in DOMAIN hits : hits[i] = s}
<1>3. T \in SUBSET (1..Len(hits))
  BY <1>1
<1> HIDE DEF T
<1>4. IsFiniteSet(T)
  BY <1>2, <1>3, FS_Subset
<1>5. Cardinality(T) \in Nat
  BY <1>4, FS_CardinalityType
<1> QED
  BY <1>5 DEF T

\* Lines that match rank their spans, once each.
LEMMA CountsRank ==
    ASSUME NEW hits \in Seq(Spans)
    PROVE  RankByCount(hits) \in Seq(Spans) /\ ToSet(RankByCount(hits)) = ToSet(hits)
<1> DEFINE count(s) == Cardinality({i \in DOMAIN hits : hits[i] = s})
           S == ToSet(hits)
           key == [s \in S |-> count(s)]
           tie == [s \in S |-> s]
           ahead == [s \in S |-> {t \in S : count(t) > count(s) \/ (count(t) = count(s) /\ t < s)}]
<1>1. IsFiniteSet(S) /\ S \in SUBSET Spans /\ \A s \in S : count(s) \in Nat /\ s \in Int
  <2>1. IsFiniteSet(S) /\ S \in SUBSET Spans
    BY ValuesOfSequence
  <2>2. \A s \in S : count(s) \in Nat
    BY CountOfHits
  <2>3. Spans \subseteq Int
    BY AnswersAssumption
  <2> HIDE DEF S, count
  <2> QED
    BY <2>1, <2>2, <2>3
<1>2. RankByCount(hits) = InOrder(ahead)
  BY DEF RankByCount
<1>3. /\ ahead \in [S -> SUBSET S]
      /\ \A s, t \in S : t \in ahead[s] <=> count(t) > count(s) \/ (count(t) = count(s) /\ t < s)
  OBVIOUS
<1>4. /\ key \in [S -> Int] /\ tie \in [S -> Int]
      /\ \A s \in S : key[s] = count(s) /\ tie[s] = s
  <2> HIDE DEF S, count
  <2> QED
    BY <1>1
<1> HIDE DEF ahead, key, tie, count, S
<1>5. OrderedBy(S, key, tie, ahead)
  BY <1>1, <1>3, <1>4 DEF OrderedBy
<1>6. InOrder(ahead) \in Seq(S) /\ ToSet(InOrder(ahead)) = S
  BY <1>5, OrderIsSequence
<1> QED
  BY <1>1, <1>2, <1>6, SeqMonotonic DEF S

\* Definitions that match rank their spans.
LEMMA DefsRank ==
    ASSUME NEW query, QueryFields(query), FusedQuery(query)
    PROVE  /\ StructuralIds(query) \in Seq(Spans)
           /\ ToSet(StructuralIds(query)) = {d.span : d \in query.defs}
           /\ Len(StructuralIds(query)) = Cardinality(query.defs)
<1> DEFINE S == query.defs
           key == [d \in S |-> 0 - d.quality]
           tie == [d \in S |-> d.span]
           ahead == [d \in S |-> {e \in S : \/ e.quality < d.quality
                                            \/ e.quality = d.quality /\ e.span < d.span}]
           o == InOrder(ahead)
<1>1. IsFiniteSet(S) /\ S \in SUBSET [span : Spans, quality : 0..2]
  BY DEF QueryFields
<1>2. /\ \A d \in S : d.quality \in Int /\ d.span \in Spans /\ d.span \in Int
      /\ \A d, e \in S : d.quality = e.quality /\ d.span = e.span => d = e
  <2> DEFINE Defs == [span : Spans, quality : 0..2]
  <2>1. \A d, e \in Defs : d.quality = e.quality /\ d.span = e.span => d = e
    OBVIOUS
  <2>2. \A d \in Defs : d.quality \in Int /\ d.span \in Spans
    OBVIOUS
  <2>3. Spans \subseteq Int
    BY AnswersAssumption
  <2> HIDE DEF Defs
  <2>4. S \in SUBSET Defs
    BY <1>1 DEF Defs
  <2> QED
    BY <2>1, <2>2, <2>3, <2>4
<1>3. StructuralIds(query) = [i \in DOMAIN o |-> o[i].span]
  BY DEF StructuralIds
<1>4. /\ ahead \in [S -> SUBSET S]
      /\ \A d, e \in S : e \in ahead[d] <=> \/ e.quality < d.quality
                                            \/ e.quality = d.quality /\ e.span < d.span
  OBVIOUS
<1>5. /\ key \in [S -> Int] /\ tie \in [S -> Int]
      /\ \A d \in S : key[d] = 0 - d.quality /\ tie[d] = d.span
  BY <1>2
<1> HIDE DEF ahead, key, tie, S, o
<1>6. /\ \A d, e \in S : key[d] = key[e] /\ tie[d] = tie[e] => d = e
      /\ \A d, e \in S : e \in ahead[d] <=> key[e] > key[d] \/ (key[e] = key[d] /\ tie[e] < tie[d])
  BY <1>2, <1>4, <1>5
<1>7. OrderedBy(S, key, tie, ahead)
  BY <1>1, <1>4, <1>5, <1>6 DEF OrderedBy
<1>8. o \in Seq(S) /\ ToSet(o) = S /\ Len(o) = Cardinality(S)
  BY <1>7, OrderIsSequence DEF o
<1>9. Len(o) \in Nat /\ DOMAIN o = 1..Len(o) /\ \A i \in 1..Len(o) : o[i].span \in Spans
  BY <1>2, <1>8, ValuesOfSequence
<1>10. StructuralIds(query) = [i \in 1..Len(o) |-> o[i].span]
  BY <1>3, <1>9
<1>11. ToSet(StructuralIds(query)) = {d.span : d \in S}
  <2>1. S = {o[i] : i \in 1..Len(o)}
    BY <1>8, <1>9 DEF ToSet
  <2>2. ToSet(StructuralIds(query)) = {o[i].span : i \in 1..Len(o)}
    BY <1>9, <1>10 DEF ToSet
  <2> QED
    BY <2>1, <2>2
<1>12. StructuralIds(query) \in Seq(Spans) /\ Len(StructuralIds(query)) = Len(o)
  BY <1>9, <1>10
<1> QED
  BY <1>8, <1>11, <1>12 DEF S

\* The ranked lists that are fused.
RankedLists == Seq(Nat \X Seq(Spans))

\* Fusion scores spans by numbers.
LEMMA ScoresAreNumbers ==
    ASSUME NEW lists \in RankedLists, NEW s
    PROVE  Score(lists, s) \in Int
<1> DEFINE n == Len(lists)
           w == [i \in 1..n |-> Contribution(lists[i][1], lists[i][2], s)]
<1>1. n \in Nat /\ DOMAIN lists = 1..n /\ \A i \in 1..n : lists[i] \in Nat \X Seq(Spans)
  BY ValuesOfSequence DEF RankedLists
<1>2. ASSUME NEW weight \in Nat, NEW list \in Seq(Spans)
      PROVE  Contribution(weight, list, s) \in Nat
  <2>1. CASE s \in ToSet(list)
    <3> DEFINE u == weight * Unit
               d == RankConstant + RankIn(list, s)
    <3>1. u \in Nat
      BY DEF Unit, RankConstant
    <3>2. \E r \in DOMAIN list : list[r] = s
      BY <2>1 DEF ToSet
    <3>3. RankIn(list, s) \in Nat
      BY <3>2, ValuesOfSequence DEF RankIn
    <3>4. d \in Nat /\ d > 0
      BY <3>3 DEF RankConstant
    <3>5. Contribution(weight, list, s) = u \div d
      BY <2>1 DEF Contribution
    <3> HIDE DEF u, d
    <3> QED
      BY <3>1, <3>4, <3>5
  <2>2. CASE s \notin ToSet(list)
    BY <2>2 DEF Contribution
  <2> QED
    BY <2>1, <2>2
<1>3. w \in [1..n -> Nat]
  BY <1>1, <1>2
<1>4. IsFiniteSet(1..n)
  <2>1. 1 \in Int /\ n \in Int
    BY <1>1
  <2> QED
    BY <2>1, FS_Interval
<1>5. Score(lists, s) = SumFunction(w)
  BY <1>1 DEF Score
<1> HIDE DEF w
<1>6. SumFunction(w) \in Nat
  BY <1>3, <1>4, SumOfValues
<1> QED
  BY <1>5, <1>6

\* The spans of ranked lists.
Listed(lists) == UNION {ToSet(lists[i][2]) : i \in DOMAIN lists}

\* Best first, and no span twice.
Ranking(s) ==
    \A i, j \in 1..Len(s) :
        i < j => s[i].score > s[j].score \/ (s[i].score = s[j].score /\ s[i].span < s[j].span)

\* Each with the score the lists give it.
ScoredBy(lists, s) == \A i \in 1..Len(s) : s[i].score = Score(lists, s[i].span)

\* f is the fusion of lists.
Fused(lists, f) ==
    f \in Seq(Scored) /\ SpanSet(f) = Listed(lists) /\ Ranking(f) /\ ScoredBy(lists, f)

\* The spans of a sequence are those of its values.
LEMMA SpansOfValues ==
    ASSUME NEW s \in Seq(Scored)
    PROVE  SpanSet(s) = {x.span : x \in ToSet(s)}
BY DEF SpanSet, ToSet

\* Fusion gives the spans of the lists, the best first.
LEMMA FusionRanks ==
    ASSUME NEW lists \in RankedLists
    PROVE  Fused(lists, Fuse(lists))
<1> DEFINE n == Len(lists)
           sets == [i \in 1..n |-> ToSet(lists[i][2])]
           all == UNION {sets[i] : i \in 1..n}
           pair == [s \in all |-> [span |-> s, score |-> Score(lists, s)]]
           S == {pair[s] : s \in all}
           key == [x \in S |-> x.score]
           tie == [x \in S |-> x.span]
           ahead == [x \in S |-> {y \in S : y.score > x.score \/ (y.score = x.score /\ y.span < x.span)}]
<1>1. n \in Nat /\ DOMAIN lists = 1..n /\ \A i \in 1..n : lists[i] \in Nat \X Seq(Spans)
  BY ValuesOfSequence DEF RankedLists
<1>2. \A i \in 1..n : sets[i] \in SUBSET Spans /\ IsFiniteSet(sets[i])
  BY <1>1, ValuesOfSequence
<1>3. IsFiniteSet(all) /\ all \in SUBSET Spans
  <2>1. 1 \in Int /\ n \in Int
    BY <1>1
  <2>2. IsFiniteSet(1..n)
    BY <2>1, FS_Interval
  <2>3. IsFiniteSet({sets[i] : i \in 1..n})
    <3>1. DOMAIN sets = 1..n /\ sets = [i \in 1..n |-> sets[i]]
      OBVIOUS
    <3> HIDE DEF sets
    <3> QED
      BY <2>2, <3>1, FiniteImage
  <2> HIDE DEF sets
  <2> QED
    BY <1>2, <2>3, FS_UNION
<1>4. IsFiniteSet(S)
  <2>1. DOMAIN pair = all /\ pair = [s \in all |-> pair[s]]
    OBVIOUS
  <2> HIDE DEF pair, all
  <2> QED
    BY <1>3, <2>1, FiniteImage
<1>5. S \in SUBSET Scored
  <2> SUFFICES ASSUME NEW s \in all
               PROVE  pair[s] \in Scored
    OBVIOUS
  <2> HIDE DEF all
  <2>1. s \in Spans /\ Score(lists, s) \in Int
    BY <1>3, ScoresAreNumbers
  <2> QED
    BY <2>1 DEF Scored
<1>6. Fuse(lists) = InOrder(ahead)
  <2>1. all = UNION {ToSet(lists[i][2]) : i \in DOMAIN lists}
    BY <1>1
  <2>2. S = {[span |-> s, score |-> Score(lists, s)] : s \in all}
    OBVIOUS
  <2> HIDE DEF all, pair, S
  <2> QED
    BY <2>1, <2>2 DEF Fuse
<1>12. {x.span : x \in S} = all /\ \A x \in S : x.score = Score(lists, x.span)
  <2>1. \A s \in all : pair[s].span = s /\ pair[s].score = Score(lists, s)
    OBVIOUS
  <2> HIDE DEF pair, all
  <2> QED
    BY <2>1
<1>13. all = Listed(lists)
  BY <1>1 DEF Listed
<1> HIDE DEF S, all
<1>7. /\ \A x \in S : x.score \in Int /\ x.span \in Int
      /\ \A x, y \in S : x.score = y.score /\ x.span = y.span => x = y
  <2>1. \A x, y \in Scored : x.score = y.score /\ x.span = y.span => x = y
    BY DEF Scored
  <2>2. \A x \in Scored : x.score \in Int /\ x.span \in Int
    BY SpanCosts, AnswersAssumption
  <2> QED
    BY <1>5, <2>1, <2>2
<1>8. /\ ahead \in [S -> SUBSET S]
      /\ \A x, y \in S : y \in ahead[x] <=> y.score > x.score \/ (y.score = x.score /\ y.span < x.span)
  OBVIOUS
<1>9. /\ key \in [S -> Int] /\ tie \in [S -> Int]
      /\ \A x \in S : key[x] = x.score /\ tie[x] = x.span
  BY <1>7
<1> HIDE DEF ahead, key, tie
<1>10. OrderedBy(S, key, tie, ahead)
  BY <1>4, <1>7, <1>8, <1>9 DEF OrderedBy
<1> DEFINE o == InOrder(ahead)
<1>11. o \in Seq(S) /\ Len(o) = Cardinality(S) /\ ToSet(o) = S /\ Lists(S, ahead, o)
  BY <1>10, OrderIsSequence
<1> HIDE DEF o
<1>14. o \in Seq(Scored)
  BY <1>5, <1>11, SeqMonotonic
<1>15. SpanSet(o) = Listed(lists)
  BY <1>11, <1>12, <1>13, <1>14, SpansOfValues
<1>16. \A i \in 1..Len(o) : o[i] \in S
  BY <1>11, ValuesOfSequence
<1>17. Ranking(o)
  BY <1>8, <1>11, <1>16 DEF Ranking, Lists
<1>18. ScoredBy(lists, o)
  BY <1>12, <1>16 DEF ScoredBy
<1> QED
  BY <1>6, <1>14, <1>15, <1>17, <1>18 DEF Fused, o

\* The first n of a sequence.
LEMMA AtmostIsPart ==
    ASSUME NEW S, NEW s \in Seq(S), NEW n \in Nat
    PROVE  /\ Atmost(s, n) \in Seq(S) /\ Len(Atmost(s, n)) = IF n < Len(s) THEN n ELSE Len(s)
           /\ \A i \in 1..Len(Atmost(s, n)) : Atmost(s, n)[i] = s[i]
<1> DEFINE m == IF n < Len(s) THEN n ELSE Len(s)
<1>1. Len(s) \in Nat /\ \A i \in 1..Len(s) : s[i] \in S
  BY ValuesOfSequence
<1>2. m \in Nat /\ m <= Len(s) /\ \A i \in 1..m : i \in 1..Len(s) /\ 1 + i - 1 = i
  BY <1>1
<1>3. Atmost(s, n) = SubSeq(s, 1, m)
  BY DEF Atmost
<1> HIDE DEF m
<1>4. m \in Int /\ 1 \in Int /\ \A i \in 1..m : s[i] \in S
  BY <1>1, <1>2
<1>5. /\ SubSeq(s, 1, m) \in Seq(S)
      /\ Len(SubSeq(s, 1, m)) = IF 1 <= m THEN m - 1 + 1 ELSE 0
      /\ \A i \in 1..(m - 1 + 1) : SubSeq(s, 1, m)[i] = s[1 + i - 1]
  BY <1>4, SubSeqProperties
<1>6. Len(SubSeq(s, 1, m)) = m /\ m - 1 + 1 = m
  BY <1>2, <1>5
<1>7. \A i \in 1..m : SubSeq(s, 1, m)[i] = s[i]
  BY <1>2, <1>5, <1>6
<1> QED
  BY <1>3, <1>5, <1>6, <1>7 DEF m

\* The lists a query ranks have what matches it; those of the name of a symbol
\* are the two cheap ones.
RanksFrom(query, paging, named, lists) ==
    /\ Ranked(query, paging, named) = Fuse(lists)
    /\ paging /\ AllSearched(query) => Matches(query) \subseteq Listed(lists)
    /\ query.mode = "auto" /\ named =>
           lists = <<<<8, StructuralIds(query)>>, <<8, LexicalIds(query, paging)>>>>

\* A query ranks what lines and definitions match it.
LEMMA ListsOfQuery ==
    ASSUME NEW query, QueryFields(query), FusedQuery(query), NEW paging \in BOOLEAN
    PROVE  /\ StructuralIds(query) \in Seq(Spans) /\ LexicalIds(query, paging) \in Seq(Spans)
           /\ ToSet(StructuralIds(query)) = {d.span : d \in query.defs}
           /\ paging /\ AllSearched(query) => ToSet(LexicalIds(query, paging)) = ToSet(query.hits)
<1> DEFINE P == Reached(query, paging)
           e == EntriesAt(query.hits, P)
<1>1. query.hits \in Seq(Spans) /\ DOMAIN query.hits = 1..Len(query.hits)
  BY LenProperties DEF QueryFields
<1>2. P \in SUBSET (1..Len(query.hits))
  BY <1>1 DEF Reached
<1>3. LexicalIds(query, paging) = RankByCount(e)
  BY DEF LexicalIds
<1>4. paging /\ AllSearched(query) => P = DOMAIN query.hits
  BY DEF AllSearched
<1> HIDE DEF P, e
<1>5. /\ e \in Seq(Spans) /\ Len(e) = Cardinality(P)
      /\ \E o : Entries(query.hits, P, e, o)
  BY <1>1, <1>2, EntriesInOrder DEF e
<1>6. ASSUME paging, AllSearched(query)
      PROVE  ToSet(e) = ToSet(query.hits)
  <2>1. PICK o : Entries(query.hits, P, e, o)
    BY <1>5
  <2>2. P = DOMAIN query.hits
    BY <1>4, <1>6
  <2>3. \A i \in DOMAIN e : e[i] = query.hits[o[i]] /\ o[i] \in DOMAIN query.hits
    BY <2>1, <2>2 DEF Entries
  <2>4. \A p \in DOMAIN query.hits : \E i \in DOMAIN e : e[i] = query.hits[p]
    BY <2>1, <2>2 DEF Entries
  <2> QED
    BY <2>3, <2>4 DEF ToSet
<1> QED
  BY <1>3, <1>5, <1>6, CountsRank, DefsRank

\* A query ranks spans by the fusion of its lists.
LEMMA QueriesRank ==
    ASSUME NEW query, QueryFields(query), FusedQuery(query), NEW paging \in BOOLEAN,
           NEW named \in BOOLEAN
    PROVE  \E lists \in RankedLists : RanksFrom(query, paging, named, lists)
<1> DEFINE structural == StructuralIds(query)
           lexical == LexicalIds(query, paging)
           two == <<<<8, structural>>, <<8, lexical>>>>
           one(list) == <<<<10, list>>>>
           full == <<<<8, structural>>, <<8, lexical>>, <<3, query.named>>, <<2, query.meant>>>>
           reached == paging /\ AllSearched(query)
           W == Nat \X Seq(Spans)
<1>1. /\ structural \in Seq(Spans) /\ lexical \in Seq(Spans)
      /\ ToSet(structural) = {d.span : d \in query.defs}
      /\ reached => ToSet(lexical) = ToSet(query.hits)
  BY ListsOfQuery
<1>2. query.named \in Seq(Spans) /\ query.meant \in Seq(Spans)
  BY DEF QueryFields
<1> HIDE DEF structural, lexical, reached
<1>3. \A list \in Seq(Spans) : one(list) \in Seq(W)
  OBVIOUS
<1>4. two \in Seq(W) /\ full \in Seq(W)
  <2>1. /\ <<8, structural>> \in W /\ <<8, lexical>> \in W
        /\ <<3, query.named>> \in W /\ <<2, query.meant>> \in W
    BY <1>1, <1>2
  <2> HIDE DEF W
  <2> QED
    BY <2>1
<1>5. \A list : ToSet(list) \subseteq Listed(one(list))
  <2>1. \A list : 1 \in DOMAIN one(list) /\ one(list)[1][2] = list
    OBVIOUS
  <2> HIDE DEF one
  <2> QED
    BY <2>1 DEF Listed
<1>6. ToSet(structural) \cup ToSet(lexical) \subseteq Listed(two)
  <2>1. {1, 2} \subseteq DOMAIN two /\ two[1][2] = structural /\ two[2][2] = lexical
    OBVIOUS
  <2> HIDE DEF two
  <2> QED
    BY <2>1 DEF Listed
<1>7. ToSet(structural) \cup ToSet(lexical) \subseteq Listed(full)
  <2>1. {1, 2} \subseteq DOMAIN full /\ full[1][2] = structural /\ full[2][2] = lexical
    OBVIOUS
  <2> HIDE DEF full
  <2> QED
    BY <2>1 DEF Listed
<1> DEFINE cheap == CheapLists(query, paging)
           more == Escalates(query, paging, named)
<1>14. cheap = CASE query.mode = "lexical"    -> one(lexical)
                 [] query.mode = "structural" -> one(structural)
                 [] OTHER                     -> two
  BY DEF CheapLists, structural, lexical
<1>8. Ranked(query, paging, named) = IF more THEN Fuse(full) ELSE Fuse(cheap)
  BY DEF Ranked, structural, lexical
<1>15. more => query.mode = "auto" /\ ~named
  BY DEF Escalates
<1> HIDE DEF one, two, full, W, more, cheap
<1>9. cheap \in Seq(W)
  BY <1>1, <1>3, <1>4, <1>14
<1>10. reached => Matches(query) \subseteq Listed(cheap) /\ Matches(query) \subseteq Listed(full)
  <2> SUFFICES ASSUME reached
               PROVE  Matches(query) \subseteq Listed(cheap) /\ Matches(query) \subseteq Listed(full)
    OBVIOUS
  <2>1. Matches(query) = (IF query.mode = "structural" THEN {} ELSE ToSet(lexical))
                             \cup (IF query.mode = "lexical" THEN {} ELSE ToSet(structural))
    BY <1>1 DEF Matches
  <2>2. CASE query.mode = "lexical"
    BY <1>5, <1>7, <1>14, <2>1, <2>2
  <2>3. CASE query.mode = "structural"
    BY <1>5, <1>7, <1>14, <2>1, <2>3
  <2>4. CASE query.mode \notin {"lexical", "structural"}
    BY <1>6, <1>7, <1>14, <2>1, <2>4
  <2> QED
    BY <2>2, <2>3, <2>4
<1>11. query.mode = "auto" => cheap = two
  BY <1>14
<1> DEFINE lists == IF more THEN full ELSE cheap
<1>12. /\ lists \in RankedLists /\ Ranked(query, paging, named) = Fuse(lists)
       /\ reached => Matches(query) \subseteq Listed(lists)
       /\ query.mode = "auto" /\ named => lists = two
  <2> HIDE DEF cheap
  <2> QED
    BY <1>4, <1>8, <1>9, <1>10, <1>11, <1>15 DEF RankedLists, W
<1>13. RanksFrom(query, paging, named, lists)
  <2> HIDE DEF lists
  <2> QED
    BY <1>12 DEF RanksFrom, reached, two, structural, lexical
<1> QED
  BY <1>12, <1>13

\* So what it ranks are spans.
LEMMA RankedAreSpans ==
    ASSUME NEW query, QueryFields(query), FusedQuery(query), NEW paging \in BOOLEAN,
           NEW named \in BOOLEAN
    PROVE  Ranked(query, paging, named) \in Seq(Scored)
BY QueriesRank, FusionRanks DEF RanksFrom, Fused

\* t is s without some of its entries, o the places of the others.
PartBy(s, t, o) ==
    /\ o \in [1..Len(t) -> 1..Len(s)]
    /\ \A i, j \in 1..Len(t) : i < j => o[i] < o[j]
    /\ \A i \in 1..Len(t) : t[i] = s[o[i]]

IsPart(s, t) == \E o : PartBy(s, t, o)

\* Leaving out entries keeps the order and the scores.
LEMMA PartsRank ==
    ASSUME NEW s \in Seq(Scored), NEW t \in Seq(Scored), IsPart(s, t)
    PROVE  /\ Ranking(s) => Ranking(t)
           /\ \A lists : ScoredBy(lists, s) => ScoredBy(lists, t)
           /\ SpanSet(t) \subseteq SpanSet(s)
<1>1. PICK o : PartBy(s, t, o)
  BY DEF IsPart
<1>2. /\ \A i \in 1..Len(t) : o[i] \in 1..Len(s) /\ t[i] = s[o[i]]
      /\ \A i, j \in 1..Len(t) : i < j => o[i] < o[j]
  BY <1>1 DEF PartBy
<1>3. ASSUME Ranking(s)
      PROVE  Ranking(t)
  <2> SUFFICES ASSUME NEW i \in 1..Len(t), NEW j \in 1..Len(t), i < j
               PROVE  \/ t[i].score > t[j].score
                      \/ t[i].score = t[j].score /\ t[i].span < t[j].span
    BY DEF Ranking
  <2>1. /\ o[i] \in 1..Len(s) /\ o[j] \in 1..Len(s) /\ o[i] < o[j]
        /\ t[i] = s[o[i]] /\ t[j] = s[o[j]]
    BY <1>2
  <2> QED
    BY <1>3, <2>1 DEF Ranking
<1>4. \A lists : ScoredBy(lists, s) => ScoredBy(lists, t)
  BY <1>2 DEF ScoredBy
<1>5. SpanSet(t) = {t[i].span : i \in 1..Len(t)} /\ SpanSet(s) = {s[i].span : i \in 1..Len(s)}
  BY LenProperties DEF SpanSet
<1>6. SpanSet(t) \subseteq SpanSet(s)
  BY <1>2, <1>5
<1> QED
  BY <1>3, <1>4, <1>6

\* The first entries are a part.
LEMMA FirstArePart ==
    ASSUME NEW S, NEW s \in Seq(S), NEW t \in Seq(S), Len(t) <= Len(s),
           \A i \in 1..Len(t) : t[i] = s[i]
    PROVE  IsPart(s, t)
<1> DEFINE o == [i \in 1..Len(t) |-> i]
<1>1. Len(s) \in Nat /\ Len(t) \in Nat
  BY LenProperties
<1>2. o \in [1..Len(t) -> 1..Len(s)] /\ \A i \in 1..Len(t) : o[i] = i
  BY <1>1
<1> HIDE DEF o
<1>3. PartBy(s, t, o)
  BY <1>2 DEF PartBy
<1> QED
  BY <1>3 DEF IsPart

\* So are the entries at some positions.
LEMMA EntriesArePart ==
    ASSUME NEW S, NEW s \in Seq(S), NEW P \in SUBSET (1..Len(s))
    PROVE  IsPart(s, EntriesAt(s, P))
<1> DEFINE e == EntriesAt(s, P)
<1>1. PICK o : Entries(s, P, e, o)
  BY EntriesInOrder
<1>2. Len(e) = Cardinality(P)
  BY EntriesInOrder
<1> HIDE DEF e
<1>3. PartBy(s, e, o)
  BY <1>1, <1>2 DEF Entries, PartBy
<1> QED
  BY <1>3 DEF IsPart, e

\* What no page gave is part of the spans, and all of it.
LEMMA NotGivenIsPart ==
    ASSUME NEW spans \in Seq(Scored), NEW given
    PROVE  /\ NotGiven(spans, given) \in Seq(Scored)
           /\ IsPart(spans, NotGiven(spans, given))
           /\ SpanSet(NotGiven(spans, given)) \cap given = {}
           /\ Len(NotGiven(spans, given)) = 0 => SpanSet(spans) \subseteq given
<1> DEFINE P == {i \in DOMAIN spans : spans[i].span \notin given}
           e == NotGiven(spans, given)
<1>1. DOMAIN spans = 1..Len(spans)
  BY LenProperties
<1>2. P \in SUBSET (1..Len(spans)) /\ e = EntriesAt(spans, P)
  BY <1>1 DEF NotGiven
<1>3. \A i \in P : spans[i].span \notin given
  OBVIOUS
<1>4. P = {} => SpanSet(spans) \subseteq given
  BY DEF SpanSet
<1> HIDE DEF P, e
<1>5. e \in Seq(Scored) /\ Len(e) = Cardinality(P) /\ IsPart(spans, e)
  BY <1>2, EntriesInOrder, EntriesArePart
<1>6. PICK o : Entries(spans, P, e, o)
  BY <1>2, EntriesInOrder
<1>7. \A i \in 1..Len(e) : e[i].span \notin given
  BY <1>3, <1>5, <1>6 DEF Entries
<1>8. SpanSet(e) \cap given = {}
  <2>1. SpanSet(e) = {e[i].span : i \in 1..Len(e)}
    BY <1>5, LenProperties DEF SpanSet
  <2> QED
    BY <1>7, <2>1
<1>9. Len(e) = 0 => P = {}
  <2>1. IsFiniteSet(P)
    <3>1. 1 \in Int /\ Len(spans) \in Int
      BY LenProperties
    <3>2. IsFiniteSet(1..Len(spans))
      BY <3>1, FS_Interval
    <3> QED
      BY <1>2, <3>2, FS_Subset
  <2> QED
    BY <1>5, <2>1, FS_EmptySet
<1> QED
  BY <1>4, <1>5, <1>8, <1>9 DEF e

\* So is a page.
LEMMA PagesAreSpans ==
    ASSUME NEW query, QueryFields(query), FusedQuery(query), NEW paging \in BOOLEAN,
           NEW named \in BOOLEAN, NEW given
    PROVE  PageOf(Ranked(query, paging, named), query.k, given) \in Seq(Scored)
<1>1. query.k \in Nat
  BY DEF QueryFields
<1>2. NotGiven(Ranked(query, paging, named), given) \in Seq(Scored)
  BY RankedAreSpans, NotGivenIsPart
<1> QED
  BY <1>1, <1>2, AtmostIsPart DEF PageOf

\* More than one span is kept only within the share.
LEMMA ShareHolds ==
    ASSUME NEW spans \in Seq(Scored), NEW share
    PROVE  /\ WithinShare(spans, share) \in Seq(Scored)
           /\ Len(WithinShare(spans, share)) <= 1 \/ TotalCost(WithinShare(spans, share)) <= share
           /\ IsPart(spans, WithinShare(spans, share))
           /\ Len(WithinShare(spans, share)) = 0 => Len(spans) = 0
<1> DEFINE fits(n) == n <= 1 \/ TotalCost(SubSeq(spans, 1, n)) <= share
           kept == {n \in 0..Len(spans) : \A m \in 1..n : fits(m)}
           most == Max(kept)
<1>1. Len(spans) \in Nat /\ \A i \in 1..Len(spans) : spans[i] \in Scored
  BY ValuesOfSequence
<1>2. WithinShare(spans, share) = SubSeq(spans, 1, most)
  BY DEF WithinShare
<1>3. kept \in SUBSET (0..Len(spans)) /\ 0 \in kept
  BY <1>1
<1>4. most \in kept /\ \A n \in kept : n <= most
  <2> HIDE DEF kept
  <2>1. kept # {}
    BY <1>3
  <2> QED
    BY <1>1, <1>3, <2>1, MaxIsIn
<1>10. Len(spans) > 0 => 1 \in kept
  BY <1>1
<1>5. most \in 0..Len(spans) /\ (most \in 1..most => fits(most))
  <2> HIDE DEF most, fits
  <2> QED
    BY <1>4
<1>6. most \in Nat /\ (most <= 1 \/ TotalCost(SubSeq(spans, 1, most)) <= share)
  <2> HIDE DEF most
  <2> QED
    BY <1>1, <1>5
<1> HIDE DEF most
<1>7. most \in Int /\ 1 \in Int /\ \A i \in 1..most : spans[i] \in Scored
  BY <1>1, <1>5
<1>8. /\ SubSeq(spans, 1, most) \in Seq(Scored)
      /\ Len(SubSeq(spans, 1, most)) = IF 1 <= most THEN most - 1 + 1 ELSE 0
  BY <1>7, SubSeqProperties
<1>9. Len(SubSeq(spans, 1, most)) = most
  BY <1>6, <1>8
<1>11. most = 0 => Len(spans) = 0
  <2> HIDE DEF kept
  <2> QED
    BY <1>1, <1>4, <1>6, <1>10 DEF most
<1> DEFINE first == SubSeq(spans, 1, most)
<1>12. first \in Seq(Scored) /\ Len(first) = most /\ most <= Len(spans)
  BY <1>1, <1>5, <1>8, <1>9
<1>13. \A i \in 1..most : first[i] = spans[i]
  <2>1. \A i \in 1..(most - 1 + 1) : first[i] = spans[1 + i - 1]
    BY <1>7, SubSeqProperties
  <2> HIDE DEF first
  <2>2. most - 1 + 1 = most /\ \A i \in 1..most : 1 + i - 1 = i
    BY <1>6
  <2> QED
    BY <2>1, <2>2
<1> HIDE DEF first
<1>14. IsPart(spans, first)
  BY <1>12, <1>13, FirstArePart
<1> QED
  BY <1>2, <1>6, <1>8, <1>9, <1>11, <1>14 DEF first

\* What a query of a batch may take of the budget.
ShareOf(r) == Larger(r.budget \div Len(r.batch), FairFloor)

\* What a query adds are spans, a search's within its share.
LEMMA QueriesFind ==
    ASSUME NEW r, NEW i, NEW query, query = r.batch[i], QueryFields(query),
           r.paging \in BOOLEAN, NEW given
    PROVE  /\ SpansOf(r, i, given) \in Seq(Scored)
           /\ FusedQuery(query) => \/ Len(SpansOf(r, i, given)) <= 1
                                   \/ TotalCost(SpansOf(r, i, given)) <= ShareOf(r)
<1>1. CASE FusedQuery(query)
  <2> DEFINE named == ExactHit(r, i)
             page == PageOf(Ranked(query, r.paging, named), query.k, given)
  <2>3. named \in BOOLEAN
    BY DEF ExactHit
  <2>2. SpansOf(r, i, given) = WithinShare(page, ShareOf(r))
    BY <1>1 DEF SpansOf, ShareOf
  <2> HIDE DEF named
  <2>1. page \in Seq(Scored)
    BY <1>1, <2>3, PagesAreSpans
  <2> HIDE DEF page
  <2> QED
    BY <2>1, <2>2, ShareHolds
<1>2. CASE ~FusedQuery(query)
  BY <1>2 DEF SpansOf, QueryFields
<1> QED
  BY <1>1, <1>2

\* No span is there twice.
LEMMA DeduplicatedOnce ==
    ASSUME NEW spans \in Seq(Scored)
    PROVE  /\ Deduplicated(spans) \in Seq(Scored)
           /\ ToSet(Deduplicated(spans)) \subseteq ToSet(spans)
           /\ \A i, j \in 1..Len(Deduplicated(spans)) :
                  Deduplicated(spans)[i].span = Deduplicated(spans)[j].span => i = j
           /\ Distinct(Deduplicated(spans))
           /\ SpanSet(Deduplicated(spans)) = SpanSet(spans)
           /\ IsPart(spans, Deduplicated(spans))
<1> DEFINE n == Len(spans)
           P == {i \in DOMAIN spans : \A j \in 1..(i - 1) : spans[j].span # spans[i].span}
           m == Cardinality(P)
           d == Deduplicated(spans)
<1>1. n \in Nat /\ DOMAIN spans = 1..n /\ \A i \in 1..n : spans[i] \in ToSet(spans)
  BY ValuesOfSequence
<1>2. P \in SUBSET (1..n) /\ d = EntriesAt(spans, P)
  BY <1>1 DEF Deduplicated
<1>3. \A i \in P : i \in 1..n /\ \A j \in 1..(i - 1) : spans[j].span # spans[i].span
  BY <1>1
<1>4. ASSUME NEW i \in 1..n
      PROVE  \E p \in P : spans[p].span = spans[i].span
  <2> DEFINE Same == {j \in 1..n : spans[j].span = spans[i].span}
  <2>1. Same \in SUBSET Nat /\ Same # {}
    OBVIOUS
  <2>2. PICK p \in Same : \A j \in Same : p <= j
    <3> HIDE DEF Same
    <3> QED
      BY <2>1, LeastNatural
  <2>3. p \in 1..n /\ spans[p].span = spans[i].span
    BY <2>2
  <2>4. ASSUME NEW j \in 1..(p - 1), spans[j].span = spans[p].span
        PROVE  FALSE
    <3>1. j \in 1..n /\ ~(p <= j)
      BY <1>1, <2>3
    <3>2. j \in Same
      BY <2>3, <2>4, <3>1
    <3> QED
      BY <2>2, <3>1, <3>2
  <2>5. p \in P
    BY <1>1, <2>3, <2>4
  <2> QED
    BY <2>3, <2>5
<1> HIDE DEF P, n, d
<1>5. m \in Nat /\ d \in Seq(Scored) /\ Len(d) = m /\ IsPart(spans, d)
  BY <1>2, EntriesInOrder, EntriesArePart DEF n
<1>6. PICK o : Entries(spans, P, d, o)
  BY <1>2, EntriesInOrder DEF n
<1> HIDE DEF m
<1>7. /\ \A i \in 1..m : o[i] \in P /\ d[i] = spans[o[i]]
      /\ \A p \in P : \E i \in 1..m : o[i] = p
      /\ \A i, j \in 1..m : i < j => o[i] < o[j]
  BY <1>6 DEF Entries, m
<1>8. DOMAIN d = 1..m
  BY <1>5, LenProperties
<1>9. ToSet(d) \subseteq ToSet(spans)
  <2> SUFFICES ASSUME NEW i \in 1..m
               PROVE  d[i] \in ToSet(spans)
    BY <1>8 DEF ToSet
  <2> QED
    BY <1>1, <1>3, <1>7
<1>10. ASSUME NEW i \in 1..m, NEW j \in 1..m, i < j
       PROVE  d[i].span # d[j].span
  <2>1. o[i] \in P /\ o[j] \in P /\ o[i] < o[j] /\ d[i] = spans[o[i]] /\ d[j] = spans[o[j]]
    BY <1>7, <1>10
  <2>2. o[i] \in 1..(o[j] - 1)
    <3>1. o[i] \in 1..n /\ o[j] \in 1..n
      BY <1>3, <2>1
    <3> QED
      BY <1>1, <2>1, <3>1
  <2> QED
    BY <1>3, <2>1, <2>2
<1>11. \A i, j \in 1..m : d[i].span = d[j].span => i = j
  <2> SUFFICES ASSUME NEW i \in 1..m, NEW j \in 1..m, d[i].span = d[j].span
               PROVE  i = j
    OBVIOUS
  <2>1. i \in Nat /\ j \in Nat /\ ~(i < j) /\ ~(j < i)
    BY <1>10
  <2> QED
    BY <2>1
<1>12. Distinct(d)
  BY <1>5, <1>11 DEF Distinct
<1>13. SpanSet(d) = SpanSet(spans)
  <2>1. SpanSet(d) = {d[i].span : i \in 1..m} /\ SpanSet(spans) = {spans[i].span : i \in 1..n}
    BY <1>1, <1>8 DEF SpanSet
  <2>2. \A i \in 1..m : d[i].span \in SpanSet(spans)
    BY <1>3, <1>7, <2>1
  <2>3. ASSUME NEW i \in 1..n
        PROVE  spans[i].span \in SpanSet(d)
    <3>1. PICK p \in P : spans[p].span = spans[i].span
      BY <1>4
    <3>2. PICK k \in 1..m : o[k] = p
      BY <1>7
    <3>3. d[k] = spans[p]
      BY <1>7, <3>2
    <3> QED
      BY <2>1, <3>1, <3>3
  <2> QED
    BY <2>1, <2>2, <2>3
<1> QED
  BY <1>5, <1>9, <1>11, <1>12, <1>13 DEF d

\* A request a caller may make.
ValidRequest(r) ==
    /\ r.batch \in Seq(Queries) /\ r.batch # <<>> /\ r.budget \in Nat /\ r.paging \in BOOLEAN

\* What is gathered after each query of a batch.
LEMMA GatheredStepwise ==
    ASSUME NEW r, ValidRequest(r), NEW given
    PROVE  \E g \in [0..Len(r.batch) -> Seq(Scored)] :
               /\ g[0] = <<>>
               /\ \A i \in 1..Len(r.batch) : g[i] = g[i - 1] \o SpansOf(r, i, given)
               /\ Gathered(r, given) = Deduplicated(g[Len(r.batch)])
<1> DEFINE n == Len(r.batch)
           batch == r.batch
           added == [k \in DOMAIN batch |-> SpansOf(r, k, given)]
           adds(i) == added[i]
           X == Seq(Scored)
           none == <<>>
           step == [i \in 1..n |-> [k \in X |-> k \o adds(i)]]
           Right(f) == f = [s \in SUBSET (1..n) |->
                          IF s = {} THEN none ELSE f[s \ {Max(s)}] \o adds(Max(s))]
           iter == CHOOSE f : Right(f)
<1>1. n \in Nat /\ DOMAIN batch = 1..n /\ \A i \in 1..n : batch[i] \in Queries
  BY ValuesOfSequence DEF ValidRequest
<1>2. \A i \in 1..n : adds(i) \in X
  BY <1>1, QueriesFind, AnswersAssumption DEF ValidRequest
<1>13. \A i \in 1..n : adds(i) = SpansOf(r, i, given)
  BY <1>1
<1>3. Gathered(r, given) = Deduplicated(iter[1..n])
  <2>1. Gathered(r, given) = Deduplicated(FoldLeft(LAMBDA all, spans : all \o spans, <<>>, added))
    BY DEF Gathered
  <2>2. Len(added) = n /\ DOMAIN added = 1..n
    BY <1>1
  <2> HIDE DEF added
  <2> QED
    BY <2>1, <2>2 DEF FoldLeft, MapThenFoldSet
<1> HIDE DEF adds
<1>4. IsSteps(n, X, step)
  <2> SUFFICES ASSUME NEW i \in 1..n, NEW k \in X
               PROVE  k \o adds(i) \in X
    BY DEF IsSteps
  <2> QED
    BY <1>2, ConcatProperties
<1>5. \A k \in X, i \in 1..n : step[i][k] = k \o adds(i)
  OBVIOUS
<1>6. none \in X
  OBVIOUS
<1> HIDE DEF X, n, step, iter, batch, none
<1>7. PICK f \in [SUBSET (1..n) -> X] : Collects(n, none, step, f)
  BY <1>1, <1>4, <1>6, RecursionOnPositions DEF HasCollection
<1>8. Right(f)
  <2>1. ASSUME NEW s \in SUBSET (1..n), s # {}
        PROVE  f[s] = f[s \ {Max(s)}] \o adds(Max(s))
    BY <1>1, <1>5, <1>7, <2>1, MaxOfPositions DEF Collects
  <2>2. f[{}] = none
    BY <1>7 DEF Collects
  <2> QED
    BY <2>1, <2>2
<1>9. Right(iter)
  BY <1>8 DEF iter
<1>10. Follows(n, X, none, step, iter)
  <2>1. iter[{}] = none
    BY <1>9
  <2>2. ASSUME NEW s \in SUBSET (1..n), s # {}, iter[s \ {Max(s)}] \in X
        PROVE  iter[s] = step[Max(s)][iter[s \ {Max(s)}]]
    <3>1. Max(s) \in 1..n
      BY <1>1, <2>2, MaxOfPositions
    <3> QED
      BY <1>5, <1>9, <2>2, <3>1
  <2> QED
    BY <2>1, <2>2 DEF Follows
<1>11. PICK g \in [0..n -> X] : Iterates(n, none, step, g) /\ g[n] = iter[1..n]
  <2>1. EndsLike(n, X, none, step, iter[1..n])
    BY <1>1, <1>4, <1>6, <1>10, FoldByPrefixes
  <2> QED
    BY <2>1 DEF EndsLike
<1>12. ASSUME NEW i \in 1..n
       PROVE  g[i] = g[i - 1] \o adds(i)
  <2>1. g[i - 1] \in X
    BY <1>1
  <2> QED
    BY <1>5, <1>11, <2>1 DEF Iterates
<1> QED
  BY <1>3, <1>11, <1>12, <1>13 DEF Iterates, X, n, none, batch

\* What holds of the spans gathered from the first i queries.
GatheredSoFar(part, n, share, g, i) ==
    /\ \A j \in 1..i : ToSet(part[j]) \subseteq ToSet(g[i])
    /\ (\A j \in 1..n : TotalCost(part[j]) <= share) => CostOf(ToSet(g[i])) <= i * share

\* What the queries find is gathered, and costs no more than they do.
LEMMA GatheringKeeps ==
    ASSUME NEW n \in Nat, NEW part \in [1..n -> Seq(Scored)], NEW g \in [0..n -> Seq(Scored)],
           g[0] = <<>>, \A i \in 1..n : g[i] = g[i - 1] \o part[i],
           NEW share \in Nat
    PROVE  GatheredSoFar(part, n, share, g, n)
<1> DEFINE N == {i \in Nat : i <= n => GatheredSoFar(part, n, share, g, i)}
<1>1. 0 \in N
  <2>1. ToSet(<<>>) = {}
    BY DEF ToSet
  <2>2. CostOf({}) = 0
    BY FS_EmptySet, CostWithout
  <2>3. 0 * share = 0 /\ \A j \in 1..0 : FALSE
    OBVIOUS
  <2>4. CostOf(ToSet(g[0])) = 0
    BY <2>1, <2>2
  <2>5. CostOf(ToSet(g[0])) <= 0 * share
    BY <2>3, <2>4
  <2> QED
    BY <2>3, <2>5 DEF GatheredSoFar
<1>2. ASSUME NEW i \in Nat, i \in N
      PROVE  i + 1 \in N
  <2> SUFFICES ASSUME i + 1 <= n
               PROVE  GatheredSoFar(part, n, share, g, i + 1)
    OBVIOUS
  <2> DEFINE k == i + 1
             old == g[i]
             more == part[k]
             T == ToSet(old)
             U == ToSet(more)
             new == ToSet(g[k])
  <2>1. k \in 1..n /\ k - 1 = i /\ i \in 0..n /\ i <= n
    OBVIOUS
  <2>2. g[k] = old \o more /\ old \in Seq(Scored) /\ more \in Seq(Scored)
    BY <2>1
  <2> DEFINE Fit == \A j \in 1..n : TotalCost(part[j]) <= share
  <2>p. GatheredSoFar(part, n, share, g, i)
    BY <1>2, <2>1
  <2> HIDE DEF k, old, more
  <2>3. new = T \cup U
    BY <2>2, JoinedValues
  <2>4. /\ T \in SUBSET Scored /\ IsFiniteSet(T)
        /\ U \in SUBSET Scored /\ IsFiniteSet(U)
    BY <2>2, ValuesOfSequence
  <2>5. CostOf(U) <= TotalCost(more) /\ TotalCost(more) \in Nat
    BY <2>2, TotalOfValues, TotalOfAppended
  <2>6. /\ \A j \in 1..i : ToSet(part[j]) \subseteq T
        /\ Fit => CostOf(T) <= i * share
    BY <2>p DEF GatheredSoFar, old
  <2>7. \A j \in 1..k : j \in 1..i \/ j = k
    BY DEF k
  <2> HIDE DEF T, U, new
  <2>8. CostOf(new) <= CostOf(T) + CostOf(U)
    BY <2>3, <2>4, CostOfBoth
  <2>9. CostOf(T) \in Nat /\ CostOf(U) \in Nat /\ CostOf(new) \in Nat
    <3>1. new \in SUBSET Scored /\ IsFiniteSet(new)
      BY <2>3, <2>4, FS_Union
    <3> QED
      BY <2>4, <3>1, CostWithout
  <2>10. ASSUME Fit
         PROVE  CostOf(new) <= k * share
    <3>1. TotalCost(more) <= share
      BY <2>1, <2>10 DEF more
    <3>2. k * share = i * share + share /\ i * share \in Nat
      BY DEF k
    <3>3. CostOf(T) <= i * share
      BY <2>6, <2>10
    <3> DEFINE a == i * share
               b == k * share
    <3> HIDE DEF a, b, Fit
    <3>4. CostOf(new) <= b
      <4>1. b = a + share /\ a \in Nat /\ CostOf(T) <= a
        BY <3>2, <3>3 DEF a, b
      <4> QED
        BY <2>5, <2>8, <2>9, <3>1, <4>1
    <3> QED
      BY <3>4 DEF b
  <2>11. \A j \in 1..k : ToSet(part[j]) \subseteq new
    BY <2>3, <2>6, <2>7 DEF U, more
  <2>12. GatheredSoFar(part, n, share, g, k)
    BY <2>10, <2>11 DEF new, GatheredSoFar
  <2> QED
    BY <2>12 DEF k
<1> HIDE DEF N
<1>3. Nat \subseteq N
  BY <1>1, <1>2, NaturalInduction
<1> QED
  BY <1>3 DEF N

\* What a request is answered.
AnswersInv ==
    \/ asked = NoRequest /\ answer = NoAnswer
    \/ /\ ValidRequest(asked)
       /\ \E given : (asked.paging \/ given = {}) /\ answer = AnswerTo(asked, given)

\* A single span costs what it costs.
LEMMA TotalOfShort ==
    ASSUME NEW s \in Seq(Scored), Len(s) <= 1
    PROVE  /\ Len(s) = 0 => TotalCost(s) = 0
           /\ Len(s) > 0 => TotalCost(s) = Cost[s[1].span]
<1>1. Len(s) \in Nat
  BY LenProperties
<1>2. ASSUME Len(s) = 0
      PROVE  TotalCost(s) = 0
  <2>1. s = <<>>
    BY <1>2
  <2> QED
    BY <2>1, TotalOfAppended
<1>3. ASSUME Len(s) > 0
      PROVE  TotalCost(s) = Cost[s[1].span]
  <2>1. s # <<>>
    BY <1>3
  <2>2. PICK front \in Seq(Scored), x \in Scored : s = Append(front, x)
    BY <2>1, SequenceEmptyOrAppend
  <2>3. Len(s) = Len(front) + 1 /\ s[Len(front) + 1] = x /\ Len(front) \in Nat
    BY <2>2, AppendProperties, LenProperties
  <2>4. Len(front) = 0
    BY <1>1, <2>3
  <2>5. front = <<>> /\ s[1] = x
    BY <2>3, <2>4
  <2>6. /\ TotalCost(s) = TotalCost(front) + Cost[x.span] /\ Cost[x.span] \in Nat
        /\ TotalCost(front) = 0
    BY <2>2, <2>5, TotalOfAppended
  <2> QED
    BY <2>5, <2>6
<1> QED
  BY <1>2, <1>3

\* The spans of an answer that is not a suggestion.
LEMMA AnswerParts ==
    ASSUME NEW r, ValidRequest(r), NEW given,
           NEW all, all = Gathered(r, given), all # <<>>,
           NEW kept, kept = Pack(all, r.budget)
    PROVE  /\ all \in Seq(Scored) /\ Distinct(all) /\ Packed(all, r.budget, kept)
           /\ AnswerTo(r, given).gathered = all
           /\ AnswerTo(r, given).shown = LostInTheMiddle(kept)
           /\ AnswerTo(r, given).omitted = Len(all) - Len(kept)
           /\ AnswerTo(r, given).found = [i \in DOMAIN r.batch |-> Len(SpansOf(r, i, given))]
<1>1. all \in Seq(Scored) /\ Distinct(all)
  <2>1. PICK g \in [0..Len(r.batch) -> Seq(Scored)] :
            /\ g[0] = <<>>
            /\ \A i \in 1..Len(r.batch) : g[i] = g[i - 1] \o SpansOf(r, i, given)
            /\ Gathered(r, given) = Deduplicated(g[Len(r.batch)])
    BY GatheredStepwise
  <2>2. Len(r.batch) \in Nat
    BY LenProperties DEF ValidRequest
  <2>3. g[Len(r.batch)] \in Seq(Scored)
    BY <2>2
  <2> QED
    BY <2>1, <2>3, DeduplicatedOnce
<1>2. Packed(all, r.budget, kept)
  BY <1>1, PackFits DEF ValidRequest
<1> QED
  BY <1>1, <1>2 DEF AnswerTo

\* All that is found fits where each query has a fair share that its first
\* span does not exceed.
LEMMA FairFits ==
    ASSUME NEW r, ValidRequest(r), NEW share, share = r.budget \div Len(r.batch),
           FairFloor <= share,
           \A i \in DOMAIN r.batch : FusedQuery(r.batch[i]),
           \A i \in DOMAIN r.batch : Len(SpansOf(r, i, {})) > 0
               => Cost[SpansOf(r, i, {})[1].span] <= share
    PROVE  /\ CostOf(ToSet(Gathered(r, {}))) <= r.budget
           /\ \A i \in DOMAIN r.batch : Len(SpansOf(r, i, {})) > 0
                  => SpansOf(r, i, {})[1].span \in SpanSet(Gathered(r, {}))
<1> DEFINE n == Len(r.batch)
           part == [i \in 1..n |-> SpansOf(r, i, {})]
           all == Gathered(r, {})
<1>1. /\ n \in Nat /\ n > 0 /\ DOMAIN r.batch = 1..n /\ r.budget \in Nat /\ r.paging \in BOOLEAN
      /\ \A i \in 1..n : QueryFields(r.batch[i]) /\ FusedQuery(r.batch[i])
  <2>1. r.batch \in Seq(Queries) /\ r.batch # <<>> /\ r.budget \in Nat /\ r.paging \in BOOLEAN
    BY DEF ValidRequest
  <2>2. n \in Nat \ {0}
    BY <2>1, EmptySeq
  <2>3. DOMAIN r.batch = 1..n /\ \A i \in 1..n : r.batch[i] \in Queries
    BY <2>1, ValuesOfSequence
  <2>4. \A i \in 1..n : QueryFields(r.batch[i])
    BY <2>3, AnswersAssumption
  <2> QED
    BY <2>1, <2>2, <2>3, <2>4
<1>2. share \in Nat /\ n * share <= r.budget /\ ShareOf(r) = share
  <2> DEFINE b == r.budget
  <2>1. n \in Nat /\ n > 0 /\ b \in Nat /\ share = b \div n
    BY <1>1
  <2> HIDE DEF b, n
  <2>2. share \in Nat /\ n * share <= b
    BY <2>1
  <2>3. FairFloor \in Nat
    BY AnswersAssumption
  <2>4. ShareOf(r) = share
    BY <2>1, <2>2, <2>3 DEF ShareOf, Larger, b, n
  <2> QED
    BY <2>2, <2>4 DEF b
<1>3. ASSUME NEW i \in 1..n
      PROVE  part[i] \in Seq(Scored) /\ TotalCost(part[i]) <= share
  <2> DEFINE s == part[i]
  <2>1. s \in Seq(Scored) /\ (Len(s) <= 1 \/ TotalCost(s) <= share)
    BY <1>1, <1>2, QueriesFind
  <2>2. Len(s) > 0 => Cost[s[1].span] <= share
    BY <1>1
  <2> HIDE DEF s
  <2>3. Len(s) \in Nat /\ (Len(s) = 0 \/ Len(s) > 0)
    BY <2>1, LenProperties
  <2>4. TotalCost(s) <= share
    BY <1>2, <2>1, <2>2, <2>3, TotalOfShort
  <2> QED
    BY <2>1, <2>4 DEF s
<1>4. PICK g \in [0..n -> Seq(Scored)] :
          /\ g[0] = <<>>
          /\ \A i \in 1..n : g[i] = g[i - 1] \o part[i]
          /\ all = Deduplicated(g[n])
  BY GatheredStepwise
<1> HIDE DEF n, part, all
<1>5. part \in [1..n -> Seq(Scored)]
  BY <1>3 DEF part
<1>6. GatheredSoFar(part, n, share, g, n)
  BY <1>1, <1>2, <1>4, <1>5, GatheringKeeps
<1>7. CostOf(ToSet(g[n])) <= n * share /\ \A i \in 1..n : ToSet(part[i]) \subseteq ToSet(g[n])
  BY <1>3, <1>6 DEF GatheredSoFar
<1>8. g[n] \in Seq(Scored) /\ ToSet(g[n]) \in SUBSET Scored /\ IsFiniteSet(ToSet(g[n]))
  BY <1>1, ValuesOfSequence
<1>9. /\ all \in Seq(Scored) /\ ToSet(all) \subseteq ToSet(g[n])
      /\ SpanSet(all) = SpanSet(g[n])
  BY <1>4, <1>8, DeduplicatedOnce
<1>10. CostOf(ToSet(all)) <= r.budget
  <2> DEFINE product == n * share
             T == ToSet(g[n])
             U == ToSet(all)
  <2>1. CostOf(U) <= CostOf(T) /\ CostOf(T) \in Nat
    BY <1>8, <1>9, CostGrows, CostWithout
  <2>2. CostOf(U) \in Nat
    <3>1. U \in SUBSET Scored /\ IsFiniteSet(U)
      BY <1>9, ValuesOfSequence
    <3> QED
      BY <3>1, CostWithout
  <2>3. CostOf(T) <= product /\ product <= r.budget /\ product \in Nat
    BY <1>1, <1>2, <1>7
  <2> HIDE DEF product, T, U
  <2>4. CostOf(U) <= r.budget
    BY <1>1, <2>1, <2>2, <2>3
  <2> QED
    BY <2>4 DEF U
<1>11. ASSUME NEW i \in 1..n, Len(part[i]) > 0
       PROVE  part[i][1].span \in SpanSet(all)
  <2>1. part[i] \in Seq(Scored)
    BY <1>3
  <2>2. Len(part[i]) \in Nat /\ 1 \in 1..Len(part[i])
    BY <1>11, <2>1, LenProperties
  <2>3. part[i][1] \in ToSet(g[n])
    BY <1>7, <2>1, <2>2, ValuesOfSequence
  <2>4. PICK k \in 1..Len(g[n]) : g[n][k] = part[i][1]
    BY <1>8, <2>3, ValuesOfSequence
  <2>5. DOMAIN g[n] = 1..Len(g[n])
    BY <1>8, ValuesOfSequence
  <2>6. part[i][1].span \in SpanSet(g[n])
    BY <2>4, <2>5 DEF SpanSet
  <2> QED
    BY <1>9, <2>6
<1> QED
  BY <1>1, <1>10, <1>11 DEF part, all

\* What a page has of the lists of its query.
PageFrom(lists, given, page) ==
    /\ page \in Seq(Scored) /\ Ranking(page) /\ ScoredBy(lists, page)
    /\ SpanSet(page) \cap given = {}
    /\ SpanSet(page) = {} => Listed(lists) \subseteq given

\* Its spans are those of the sequence, none if it is empty.
LEMMA NoSpans ==
    ASSUME NEW s \in Seq(Scored)
    PROVE  SpanSet(s) = {} <=> Len(s) = 0
<1>1. Len(s) \in Nat /\ SpanSet(s) = {s[i].span : i \in 1..Len(s)}
  BY LenProperties DEF SpanSet
<1>2. Len(s) > 0 => s[1].span \in SpanSet(s)
  BY <1>1
<1>3. Len(s) = 0 => SpanSet(s) = {}
  BY <1>1
<1>4. Len(s) = 0 \/ Len(s) > 0
  BY <1>1
<1> QED
  BY ONLY <1>2, <1>3, <1>4, Zenon

\* What a query finds is a page of its ranked lists.
LEMMA QueriesPage ==
    ASSUME NEW r, NEW n, NEW query, query = r.batch[n], QueryFields(query), FusedQuery(query),
           r.paging \in BOOLEAN, NEW given,
           NEW lists \in RankedLists, RanksFrom(query, r.paging, ExactHit(r, n), lists)
    PROVE  PageFrom(lists, given, SpansOf(r, n, given))
<1> DEFINE ranked == Ranked(query, r.paging, ExactHit(r, n))
           new == NotGiven(ranked, given)
           page == Atmost(new, query.k)
           added == SpansOf(r, n, given)
<1>1. Fused(lists, ranked)
  BY FusionRanks DEF RanksFrom
<1>2. query.k \in Nat /\ query.k > 0
  BY DEF QueryFields
<1>3. added = WithinShare(page, ShareOf(r))
  BY DEF SpansOf, PageOf, ShareOf
<1> HIDE DEF ranked
<1>4. ranked \in Seq(Scored)
  BY <1>1 DEF Fused
<1>5. /\ new \in Seq(Scored) /\ IsPart(ranked, new) /\ SpanSet(new) \cap given = {}
      /\ Len(new) = 0 => SpanSet(ranked) \subseteq given
  BY <1>4, NotGivenIsPart
<1> HIDE DEF new
<1>6. /\ page \in Seq(Scored) /\ Len(page) = IF query.k < Len(new) THEN query.k ELSE Len(new)
      /\ \A i \in 1..Len(page) : page[i] = new[i]
  BY <1>2, <1>5, AtmostIsPart
<1> HIDE DEF page
<1>7. Len(page) <= Len(new) /\ (Len(page) = 0 => Len(new) = 0)
  BY <1>2, <1>5, <1>6, LenProperties
<1>8. IsPart(new, page)
  BY <1>5, <1>6, <1>7, FirstArePart
<1>9. added \in Seq(Scored) /\ IsPart(page, added) /\ (Len(added) = 0 => Len(page) = 0)
  BY <1>3, <1>6, ShareHolds
<1> HIDE DEF added
<1>10. /\ Ranking(added) /\ ScoredBy(lists, added)
       /\ SpanSet(added) \subseteq SpanSet(new)
  <2>1. Ranking(new) /\ ScoredBy(lists, new)
    BY <1>1, <1>4, <1>5, PartsRank DEF Fused
  <2>2. Ranking(page) /\ ScoredBy(lists, page) /\ SpanSet(page) \subseteq SpanSet(new)
    BY <1>5, <1>6, <1>8, <2>1, PartsRank
  <2> QED
    BY <1>6, <1>9, <2>2, PartsRank
<1>11. SpanSet(added) = {} => Listed(lists) \subseteq given
  BY <1>1, <1>5, <1>7, <1>9, NoSpans DEF Fused
<1> QED
  BY <1>5, <1>9, <1>10, <1>11 DEF PageFrom, added

\* So is the answer to a single query.
LEMMA SingleQueriesPage ==
    ASSUME NEW r, ValidRequest(r), Len(r.batch) = 1, FusedQuery(r.batch[1]), NEW given
    PROVE  \E lists \in RankedLists :
               /\ RanksFrom(r.batch[1], r.paging, ExactHit(r, 1), lists)
               /\ PageFrom(lists, given, Gathered(r, given))
<1> DEFINE query == r.batch[1]
           part == SpansOf(r, 1, given)
           all == Gathered(r, given)
<1>1. QueryFields(query) /\ r.paging \in BOOLEAN
  BY ValuesOfSequence, AnswersAssumption DEF ValidRequest
<1>10. ExactHit(r, 1) \in BOOLEAN
  BY DEF ExactHit
<1>2. PICK lists \in RankedLists : RanksFrom(query, r.paging, ExactHit(r, 1), lists)
  BY <1>1, <1>10, QueriesRank
<1>3. PageFrom(lists, given, part)
  BY <1>1, <1>2, QueriesPage
<1>4. PICK g \in [0..1 -> Seq(Scored)] :
          /\ g[0] = <<>>
          /\ \A i \in 1..1 : g[i] = g[i - 1] \o SpansOf(r, i, given)
          /\ all = Deduplicated(g[1])
  BY GatheredStepwise
<1>5. g[1] = g[0] \o part
  <2>1. 1 \in 1..1 /\ 1 - 1 = 0
    OBVIOUS
  <2> HIDE DEF part
  <2>2. g[1] = g[1 - 1] \o SpansOf(r, 1, given)
    BY <1>4, <2>1
  <2> QED
    BY <2>1, <2>2 DEF part
<1> HIDE DEF part, all, query
<1>6. part \in Seq(Scored)
  BY <1>3 DEF PageFrom
<1>7. g[1] = part
  BY <1>4, <1>5, <1>6, ConcatEmptySeq
<1>8. all \in Seq(Scored) /\ IsPart(part, all) /\ SpanSet(all) = SpanSet(part)
  BY <1>4, <1>6, <1>7, DeduplicatedOnce
<1>9. PageFrom(lists, given, all)
  BY <1>3, <1>6, <1>8, PartsRank DEF PageFrom
<1> QED
  BY <1>2, <1>9 DEF all, query

\* What was gathered in a cycle is what its pages showed and what they left out.
CycleInv == cycle.shown \cup cycle.omitted = seen

LEMMA CycleInitInvariant == AnswersInit => CycleInv
BY DEF AnswersInit, NothingYet, CycleInv

\* A page adds what it has to both, and both start over together.
LEMMA CycleNextInvariant ==
    ASSUME CycleInv, [AnswersNext]_answerVars
    PROVE  CycleInv'
<1>1. CASE UNCHANGED answerVars
  BY <1>1 DEF answerVars, CycleInv
<1>2. CASE Read
  BY <1>2 DEF Read, CycleInv
<1>3. ASSUME NEW batch \in Batches, NEW budget \in Budgets, NEW paging \in BOOLEAN,
             Code([batch |-> batch, budget |-> budget, paging |-> paging])
      PROVE  CycleInv'
  <2>1. CASE ~paging
    BY <1>3, <2>1 DEF Code, CycleInv
  <2>2. CASE paging
    <3> DEFINE page == SpanSet(answer'.gathered)
               before == IF Cardinality(seen) > MaxSeen THEN NothingYet ELSE cycle
    <3>1. seen' = SeenAfter(page, seen) /\ cycle' = CycleAfter(answer', cycle)
      BY <1>3, <2>2 DEF Code
    <3>2. cycle'.shown \cup cycle'.omitted = before.shown \cup before.omitted \cup page
      <4>1. /\ cycle'.shown = before.shown \cup Shown(answer')
            /\ cycle'.omitted = before.omitted \cup (page \ Shown(answer'))
        BY <3>1 DEF CycleAfter
      <4>2. Shown(answer') \subseteq page
        BY DEF Shown
      <4> HIDE DEF before, page
      <4> QED
        BY <4>1, <4>2
    <3>3. before.shown \cup before.omitted = IF Cardinality(seen) > MaxSeen THEN {} ELSE seen
      BY DEF NothingYet, CycleInv
    <3> HIDE DEF before, page
    <3> QED
      BY <3>1, <3>2, <3>3 DEF SeenAfter, CycleInv
  <2> QED
    BY <2>1, <2>2
<1> QED
  BY <1>1, <1>2, <1>3 DEF AnswersNext

\* A page has something new, or there is nothing left.
LEMMA NextPageGoesOn ==
    ASSUME CycleInv, AnswersNext
    PROVE  PageGoesOn
<1>1. CASE Read
  BY <1>1 DEF Read, NoRequest, PageGoesOn, PageOfSearch, PagesEnd
<1>2. ASSUME NEW batch \in Batches, NEW budget \in Budgets, NEW paging \in BOOLEAN,
             Code([batch |-> batch, budget |-> budget, paging |-> paging])
      PROVE  PageGoesOn
  <2> DEFINE r == [batch |-> batch, budget |-> budget, paging |-> paging]
             page == SpanSet(answer'.gathered)
  <2>7. asked' = r /\ asked'.paging = paging /\ asked'.batch = batch
    BY <1>2 DEF Code
  <2> SUFFICES ASSUME paging, Len(batch) = 1, FusedQuery(batch[1])
               PROVE  /\ page \cap seen = {} /\ page \subseteq seen'
                      /\ page = {} /\ AllSearched(batch[1]) => Matches(batch[1]) \subseteq seen
    <3>1. answer'.gathered = <<>> => page = {}
      BY DEF SpanSet
    <3> HIDE DEF r, page
    <3>2. cycle.shown \cup cycle.omitted = seen
      BY DEF CycleInv
    <3>3. PageOfSearch => paging /\ Len(batch) = 1 /\ FusedQuery(batch[1])
      BY <2>7 DEF PageOfSearch
    <3>4. PageOfSearch => page \cap (cycle.shown \cup cycle.omitted) = {} /\ page \subseteq seen'
      BY <3>2, <3>3
    <3>5. PagesEnd => Matches(asked'.batch[1]) \ cycle.omitted \subseteq cycle.shown
      BY <2>7, <3>1, <3>2, <3>3 DEF PagesEnd
    <3> QED
      BY <3>4, <3>5 DEF PageGoesOn, page
  <2>1. /\ ValidRequest(r) /\ r.batch = batch /\ r.paging = TRUE
        /\ batch[1] \in Queries
    <3>1. ValidRequest(r)
      BY AnswersAssumption DEF ValidRequest
    <3>2. batch \in Seq(Queries)
      BY AnswersAssumption
    <3>3. batch[1] \in Queries
      <4>1. 1 \in 1..Len(batch)
        OBVIOUS
      <4> QED
        BY <3>2, <4>1, ValuesOfSequence
    <3> HIDE DEF ValidRequest
    <3>4. r.batch = batch /\ r.paging = TRUE
      OBVIOUS
    <3> QED
      BY <3>1, <3>3, <3>4
  <2>2. answer' = AnswerTo(r, seen) /\ seen' = SeenAfter(page, seen)
    BY <1>2 DEF Code
  <2> HIDE DEF r
  <2>3. answer'.gathered = Gathered(r, seen)
    BY <2>2 DEF AnswerTo
  <2>4. PICK lists \in RankedLists :
            RanksFrom(batch[1], TRUE, ExactHit(r, 1), lists) /\ PageFrom(lists, seen, Gathered(r, seen))
    BY <2>1, SingleQueriesPage
  <2>5. AllSearched(batch[1]) => Matches(batch[1]) \subseteq Listed(lists)
    BY <2>4 DEF RanksFrom
  <2>6. page \subseteq seen'
    BY <2>2 DEF SeenAfter
  <2> QED
    BY <2>3, <2>4, <2>5, <2>6 DEF PageFrom
<1> QED
  BY <1>1, <1>2 DEF AnswersNext

\* No page repeats an earlier one of its cycle, and when a search that reaches
\* every line finds nothing more, the caller was shown every match of it that
\* the budget did not leave out, whatever was asked before.
THEOREM PagesAlwaysGoOn == AnswersSpec => PagesGoOn
<1>1. CycleInv /\ [AnswersNext]_answerVars => [PageGoesOn]_answerVars
  BY NextPageGoesOn
<1>2. CycleInv /\ [AnswersNext]_answerVars => CycleInv'
  BY CycleNextInvariant
<1> QED
  BY <1>1, <1>2, CycleInitInvariant, PTL DEF AnswersSpec, PagesGoOn

-----------------------------------------------------------------------------
(* Where a span stands in an answer. *)

\* The scores fall from the front to the middle and rise from there to the
\* end, whose score only the first exceeds.
EdgesFall(shown) ==
    LET n == Len(shown)
        front == 1..((n + 1) \div 2)
    IN  /\ \A i, j \in front : i < j => shown[i].score >= shown[j].score
        /\ \A i, j \in (1..n) \ front : i < j => shown[i].score <= shown[j].score
        /\ \A i \in 2..(n - 1) : shown[n].score >= shown[i].score

\* A layout of the best first has the best at its ends.
LEMMA LayoutHasEdges ==
    ASSUME NEW ranked \in Seq(Scored), Best(ranked)
    PROVE  EdgesFall(LostInTheMiddle(ranked))
<1> DEFINE n == Len(ranked)
           l == LostInTheMiddle(ranked)
           front == 1..((n + 1) \div 2)
<1>1. n \in Nat /\ \A i \in 1..n : ranked[i].score \in Int
  BY ValuesOfSequence, SpanCosts
<1>2. /\ Len(l) = n
      /\ \A i \in 1..n : l[i] = ranked[PlaceIn(n, i)]
  BY LayoutKeeps
<1> HIDE DEF l, n
<1>3. \A i \in 1..n : PlaceIn(n, i) \in 1..n
  BY <1>1, EveryPlaceOnce
<1>4. ASSUME NEW i \in 1..n, NEW j \in 1..n, PlaceIn(n, i) <= PlaceIn(n, j)
      PROVE  l[i].score >= l[j].score
  <2> DEFINE p == PlaceIn(n, i)
             q == PlaceIn(n, j)
  <2>1. /\ p \in 1..n /\ q \in 1..n /\ p <= q
        /\ l[i].score = ranked[p].score /\ l[j].score = ranked[q].score
    BY <1>2, <1>3, <1>4
  <2> HIDE DEF p, q
  <2>2. CASE p = q
    BY <1>1, <2>1, <2>2
  <2>3. CASE p < q
    BY <2>1, <2>3 DEF Best, n
  <2> QED
    BY <1>1, <2>1, <2>2, <2>3
<1>5. ASSUME NEW i \in front, NEW j \in front, i < j
      PROVE  l[i].score >= l[j].score
  <2>1. i \in 1..n /\ j \in 1..n /\ PlaceIn(n, i) <= PlaceIn(n, j)
    BY <1>1, <1>5 DEF PlaceIn
  <2> QED
    BY <1>4, <2>1
<1>6. ASSUME NEW i \in (1..n) \ front, NEW j \in (1..n) \ front, i < j
      PROVE  l[j].score >= l[i].score
  <2>1. i \in 1..n /\ j \in 1..n /\ PlaceIn(n, j) <= PlaceIn(n, i)
    BY <1>1, <1>6 DEF PlaceIn
  <2> QED
    BY <1>4, <2>1
<1>7. ASSUME NEW i \in 2..(n - 1)
      PROVE  l[n].score >= l[i].score
  <2>1. i \in 1..n /\ n \in 1..n /\ PlaceIn(n, n) <= PlaceIn(n, i)
    BY <1>1 DEF PlaceIn
  <2> QED
    BY <1>4, <2>1
<1>8. \A i \in 1..n : l[i].score \in Int
  BY <1>1, <1>2, <1>3
<1>9. \A i, j \in (1..n) \ front : i < j => l[i].score <= l[j].score
  BY <1>6, <1>8
<1> QED
  BY <1>2, <1>5, <1>7, <1>9 DEF EdgesFall, l

\* What is suggested comes best first, too.
LEMMA SuggestionsAreBest ==
    ASSUME NEW r, ValidRequest(r)
    PROVE  Suggested(r) \in Seq(Scored) /\ Best(Suggested(r))
<1> DEFINE names == {i \in DOMAIN r.batch : r.batch[i].ident}
           query == r.batch[Max(names)]
           outside == \E i \in DOMAIN r.batch : r.batch[i].outside
<1>1. CASE names = {} \/ outside
  <2>1. Suggested(r) = <<>>
    BY <1>1 DEF Suggested
  <2> QED
    BY <2>1 DEF Best
<1>2. CASE names # {} /\ ~outside
  <2>1. r.batch \in Seq(Queries)
    BY DEF ValidRequest
  <2>2. /\ Len(r.batch) \in Nat /\ DOMAIN r.batch = 1..Len(r.batch)
        /\ \A i \in 1..Len(r.batch) : r.batch[i] \in Queries
    BY <2>1, ValuesOfSequence
  <2>3. names \in SUBSET (1..Len(r.batch))
    BY <2>2
  <2>4. Suggested(r) = Atmost(query.near, query.k)
    BY <1>2 DEF Suggested
  <2>5. query \in Queries
    <3> HIDE DEF names
    <3>1. Max(names) \in 1..Len(r.batch)
      BY <1>2, <2>2, <2>3, MaxOfPositions
    <3> QED
      BY <2>2, <3>1
  <2> HIDE DEF query
  <2>6. /\ query.near \in Seq(Scored) /\ query.k \in Nat
        /\ \A i, j \in DOMAIN query.near : i < j => query.near[i].score >= query.near[j].score
    BY <2>5, AnswersAssumption DEF QueryFields
  <2>7. DOMAIN query.near = 1..Len(query.near) /\ Len(query.near) \in Nat
    BY <2>6, LenProperties
  <2> DEFINE s == Suggested(r)
  <2>8. /\ s \in Seq(Scored)
        /\ Len(s) = IF query.k < Len(query.near) THEN query.k ELSE Len(query.near)
        /\ \A i \in 1..Len(s) : s[i] = query.near[i]
    BY <2>4, <2>6, AtmostIsPart
  <2> HIDE DEF s
  <2>9. Len(s) \in Nat /\ Len(s) <= Len(query.near)
    BY <2>6, <2>7, <2>8
  <2>10. Best(s)
    <3> SUFFICES ASSUME NEW i \in 1..Len(s), NEW j \in 1..Len(s), i < j
                 PROVE  s[i].score >= s[j].score
      BY DEF Best
    <3>1. i \in DOMAIN query.near /\ j \in DOMAIN query.near
      BY <2>7, <2>9
    <3> QED
      BY <2>6, <2>8, <3>1
  <2> QED
    BY <2>8, <2>10 DEF s
<1> QED
  BY <1>1, <1>2

\* A larger divisor, a smaller quotient, and never the same quotient where the
\* dividend is no less than the square of the divisor.
LEMMA QuotientsFall ==
    ASSUME NEW c \in Nat, NEW p \in Nat, p > 0, NEW q \in Nat, p <= q, q * q <= c
    PROVE  /\ c \div p \in Nat /\ c \div p > 0
           /\ c \div p >= c \div q
           /\ p < q => c \div p > c \div q
<1> DEFINE a == c \div p
           b == c \div q
<1>1. /\ a \in Nat /\ a * p <= c /\ c < (a + 1) * p
      /\ b \in Nat /\ b * q <= c
  OBVIOUS
<1> HIDE DEF a, b
<1>2. p * p <= q * q /\ p <= q * q
  <2>1. p * p <= p * q /\ p * q <= q * q /\ p <= p * p
    OBVIOUS
  <2> QED
    BY <2>1
<1>3. p <= c
  BY <1>2
<1>4. a > 0
  BY <1>1, <1>3
<1>5. ASSUME p < q, b >= a
      PROVE  FALSE
  <2>1. a * q <= b * q
    BY <1>1, <1>5
  <2>2. a * (p + 1) <= a * q
    BY <1>1, <1>5
  <2>3. a * (p + 1) = a * p + a /\ (a + 1) * p = a * p + p /\ a * p \in Nat
    BY <1>1
  <2>4. a * p + a < a * p + p
    BY <1>1, <2>1, <2>2, <2>3
  <2>5. a + 1 <= p
    BY <1>1, <2>3, <2>4
  <2>6. (a + 1) * p <= p * p
    BY <1>1, <2>5
  <2> QED
    BY <1>1, <1>2, <2>6
<1>6. a >= b
  <2>1. p = q => a = b
    BY DEF a, b
  <2> QED
    BY <1>1, <1>5, <2>1
<1> QED
  BY <1>1, <1>4, <1>5, <1>6 DEF a, b

\* a comes before b in a list.
Ahead(list, a, b) ==
    a \in ToSet(list) /\ (b \in ToSet(list) => RankIn(list, a) < RankIn(list, b))

\* What is ahead in a list that Unit keeps apart contributes more, and what is
\* not behind no less.
LEMMA ContributionFalls ==
    ASSUME NEW list \in Seq(Spans), Len(list) <= 10000, NEW a, NEW b
    PROVE  /\ Contribution(8, list, a) \in Nat
           /\ ~Ahead(list, b, a) => Contribution(8, list, a) >= Contribution(8, list, b)
           /\ Ahead(list, a, b) => Contribution(8, list, a) > Contribution(8, list, b)
<1> DEFINE c == 8 * Unit
           P(s) == RankConstant + RankIn(list, s)
           v(s) == Contribution(8, list, s)
<1>1. c \in Nat /\ c = 121992192
  BY DEF Unit, RankConstant
<1>2. Len(list) \in Nat /\ DOMAIN list = 1..Len(list)
  BY LenProperties
<1>3. ASSUME NEW s \in ToSet(list)
      PROVE  /\ RankIn(list, s) \in Nat /\ P(s) \in Nat /\ P(s) > 0 /\ P(s) <= 10060
             /\ v(s) = c \div P(s)
  <2>1. \E r \in DOMAIN list : list[r] = s
    BY DEF ToSet
  <2>2. RankIn(list, s) \in 1..Len(list)
    BY <1>2, <2>1 DEF RankIn
  <2>3. v(s) = c \div P(s)
    BY DEF Contribution
  <2> HIDE DEF c, v
  <2> QED
    BY <1>2, <2>2, <2>3 DEF RankConstant
<1>4. \A s : s \notin ToSet(list) => v(s) = 0
  BY DEF Contribution
<1> HIDE DEF c, v
<1>5. ASSUME NEW s \in ToSet(list), NEW t \in ToSet(list), P(s) <= P(t)
      PROVE  v(s) \in Nat /\ v(s) > 0 /\ v(s) >= v(t) /\ (P(s) < P(t) => v(s) > v(t))
  <2> DEFINE p == P(s)
             q == P(t)
  <2>1. /\ p \in Nat /\ p > 0 /\ q \in Nat /\ q <= 10060 /\ p <= q
        /\ v(s) = c \div p /\ v(t) = c \div q
    BY <1>3, <1>5
  <2> HIDE DEF p, q
  <2>2. q * q <= 10060 * 10060
    BY <2>1
  <2>3. q * q <= c
    BY <1>1, <2>1, <2>2
  <2>4. /\ c \div p \in Nat /\ c \div p > 0 /\ c \div p >= c \div q
        /\ p < q => c \div p > c \div q
    BY <1>1, <2>1, <2>3, QuotientsFall
  <2> QED
    BY <2>1, <2>4 DEF p, q
<1>6. \A s : v(s) \in Nat /\ (s \in ToSet(list) => v(s) > 0)
  <2> SUFFICES ASSUME NEW s
               PROVE  v(s) \in Nat /\ (s \in ToSet(list) => v(s) > 0)
    OBVIOUS
  <2>1. CASE s \in ToSet(list)
    <3>1. P(s) <= P(s)
      BY <1>3, <2>1
    <3> HIDE DEF P
    <3> QED
      BY <1>5, <2>1, <3>1
  <2>2. CASE s \notin ToSet(list)
    BY <1>4, <2>2
  <2> QED
    BY <2>1, <2>2
<1>7. ASSUME ~Ahead(list, b, a)
      PROVE  v(a) >= v(b)
  <2>1. CASE b \notin ToSet(list)
    BY <1>4, <1>6, <2>1
  <2>2. CASE b \in ToSet(list)
    <3>1. a \in ToSet(list) /\ ~(RankIn(list, b) < RankIn(list, a))
      BY <1>7, <2>2 DEF Ahead
    <3>2. P(a) <= P(b)
      BY <1>3, <2>2, <3>1 DEF RankConstant
    <3> QED
      BY <1>5, <2>2, <3>1, <3>2
  <2> QED
    BY <2>1, <2>2
<1>8. ASSUME Ahead(list, a, b)
      PROVE  v(a) > v(b)
  <2>1. CASE b \notin ToSet(list)
    <3>1. v(b) = 0 /\ v(a) > 0
      BY <1>4, <1>6, <1>8, <2>1 DEF Ahead
    <3> QED
      BY <3>1
  <2>2. CASE b \in ToSet(list)
    <3>1. a \in ToSet(list) /\ RankIn(list, a) < RankIn(list, b)
      BY <1>8, <2>2 DEF Ahead
    <3>2. P(a) < P(b) /\ P(a) <= P(b)
      BY <1>3, <2>2, <3>1 DEF RankConstant
    <3> QED
      BY <1>5, <2>2, <3>1, <3>2
  <2> QED
    BY <2>1, <2>2
<1> QED
  BY <1>6, <1>7, <1>8 DEF v

\* The score of two lists is the sum of what each contributes.
LEMMA ScoreOfTwo ==
    ASSUME NEW s \in Seq(Spans), NEW l \in Seq(Spans), NEW x,
           Contribution(8, s, x) \in Nat, Contribution(8, l, x) \in Nat
    PROVE  Score(<<<<8, s>>, <<8, l>>>>, x) = Contribution(8, s, x) + Contribution(8, l, x)
<1> DEFINE u == Contribution(8, s, x)
           v == Contribution(8, l, x)
           both == [i \in {1, 2} |-> IF i = 1 THEN u ELSE v]
           second == [i \in {2} |-> v]
           none == [i \in {} |-> 0]
           lists == <<<<8, s>>, <<8, l>>>>
<1>1. Score(lists, x) = SumFunction(both)
  <2>1. DOMAIN lists = {1, 2} /\ lists[1] = <<8, s>> /\ lists[2] = <<8, l>>
    OBVIOUS
  <2>2. \A i \in {1, 2} : Contribution(lists[i][1], lists[i][2], x) = IF i = 1 THEN u ELSE v
    BY <2>1
  <2> HIDE DEF u, v, lists
  <2>3. [i \in DOMAIN lists |-> Contribution(lists[i][1], lists[i][2], x)] = both
    BY <2>1, <2>2
  <2> QED
    BY <2>3 DEF Score
<1>2. u \in Nat /\ v \in Nat
  OBVIOUS
<1> HIDE DEF u, v
<1>3. /\ both \in [{1, 2} -> Nat] /\ both[1] = u /\ both[2] = v
      /\ second \in [{2} -> Nat] /\ second[2] = v
      /\ none \in [{} -> Nat]
  BY <1>2
<1>4. IsFiniteSet({1, 2}) /\ IsFiniteSet({2}) /\ IsFiniteSet({})
  <2>1. IsFiniteSet({}) /\ IsFiniteSet({2})
    BY FS_EmptySet, FS_Singleton
  <2>2. IsFiniteSet({2} \cup {1}) /\ {2} \cup {1} = {1, 2}
    BY <2>1, FS_AddElement
  <2> QED
    BY <2>1, <2>2
<1>5. Without({1, 2}, both, 1, second) /\ Without({2}, second, 2, none)
  <2>1. {1, 2} \ {1} = {2} /\ {2} \ {2} = {}
    OBVIOUS
  <2> HIDE DEF both, second, none
  <2> QED
    BY <1>3, <2>1 DEF Without
<1> HIDE DEF both, second, none
<1>6. SumFunction(both) = u + SumFunction(second)
  <2>1. 1 \in {1, 2} /\ both[1] = u
    BY <1>3
  <2>2. \A y \in {1, 2} : \A w : Without({1, 2}, both, y, w)
                                    => SumFunction(both) = both[y] + SumFunction(w)
    BY <1>3, <1>4, SumOfValues
  <2> QED
    BY <1>5, <2>1, <2>2
<1>7. SumFunction(second) = v + SumFunction(none) /\ SumFunction(none) = 0
  <2>1. 2 \in {2} /\ second[2] = v
    BY <1>3
  <2>2. \A y \in {2} : \A w : Without({2}, second, y, w)
                                 => SumFunction(second) = second[y] + SumFunction(w)
    BY <1>3, <1>4, SumOfValues
  <2>3. SumFunction(none) = 0
    BY <1>3, <1>4, SumOfValues
  <2> QED
    BY <1>5, <2>1, <2>2, <2>3
<1> QED
  BY <1>1, <1>2, <1>6, <1>7 DEF u, v, lists

\* What a higher score comes first by in a page of ranked spans.
LEMMA HigherComesFirst ==
    ASSUME NEW lists \in RankedLists, NEW page \in Seq(Scored),
           Ranking(page), ScoredBy(lists, page),
           NEW a \in SpanSet(page), NEW b \in SpanSet(page),
           Score(lists, a) > Score(lists, b)
    PROVE  (CHOOSE i \in DOMAIN page : page[i].span = a)
               < (CHOOSE i \in DOMAIN page : page[i].span = b)
<1> DEFINE at(s) == CHOOSE i \in DOMAIN page : page[i].span = s
<1>1. Len(page) \in Nat /\ DOMAIN page = 1..Len(page)
  BY LenProperties
<1>2. /\ at(a) \in 1..Len(page) /\ page[at(a)].span = a
      /\ at(b) \in 1..Len(page) /\ page[at(b)].span = b
  <2>1. /\ \E i \in DOMAIN page : page[i].span = a
        /\ \E i \in DOMAIN page : page[i].span = b
    BY DEF SpanSet
  <2> QED
    BY <1>1, <2>1
<1> HIDE DEF at
<1> DEFINE i == at(a)
           j == at(b)
           u == Score(lists, a)
           v == Score(lists, b)
<1>3. u \in Int /\ v \in Int /\ u > v
  BY ScoresAreNumbers
<1>4. page[i].score = u /\ page[j].score = v
  BY <1>2 DEF ScoredBy
<1>5. j < i => v > u \/ v = u
  BY <1>2, <1>4 DEF Ranking
<1>6. i = j => u = v
  BY <1>4
<1>7. i \in Int /\ j \in Int
  BY <1>1, <1>2
<1> HIDE DEF i, j, u, v
<1>8. i < j
  BY <1>3, <1>5, <1>6, <1>7
<1> QED
  BY <1>8 DEF i, j, at

\* What is ahead in a list and behind in none has the higher score of two.
LEMMA AheadScoresMore ==
    ASSUME NEW s \in Seq(Spans), NEW l \in Seq(Spans), Len(s) <= 10000, Len(l) <= 10000,
           NEW a, NEW b, Ahead(s, a, b) \/ Ahead(l, a, b), ~Ahead(s, b, a), ~Ahead(l, b, a)
    PROVE  Score(<<<<8, s>>, <<8, l>>>>, a) > Score(<<<<8, s>>, <<8, l>>>>, b)
<1> DEFINE u(x) == Contribution(8, s, x)
           v(x) == Contribution(8, l, x)
<1>1. /\ u(a) \in Nat /\ u(b) \in Nat /\ u(a) >= u(b)
      /\ Ahead(s, a, b) => u(a) > u(b)
  BY ContributionFalls
<1>2. /\ v(a) \in Nat /\ v(b) \in Nat /\ v(a) >= v(b)
      /\ Ahead(l, a, b) => v(a) > v(b)
  BY ContributionFalls
<1>3. /\ Score(<<<<8, s>>, <<8, l>>>>, a) = u(a) + v(a)
      /\ Score(<<<<8, s>>, <<8, l>>>>, b) = u(b) + v(b)
  BY <1>1, <1>2, ScoreOfTwo
<1> HIDE DEF u, v
<1> QED
  BY <1>1, <1>2, <1>3

\* The two cheap lists of a query.
TwoLists(query, paging) == {StructuralIds(query), LexicalIds(query, paging)}

\* The first of two in an order of spans.
StandsBefore(page, a, b) ==
    (CHOOSE i \in DOMAIN page : page[i].span = a) < (CHOOSE i \in DOMAIN page : page[i].span = b)

\* A request for the name of a symbol.
NamesSymbol(r) ==
    /\ Len(r.batch) = 1
    /\ FusedQuery(r.batch[1])
    /\ r.batch[1].mode = "auto"
    /\ \E d \in r.batch[1].defs : d.span \in r.batch[1].exact

\* The answer to the name of a symbol keeps what its two lists agree on.
LEMMA NamedKeepOrder ==
    ASSUME ListsAreShort, NEW r, ValidRequest(r), NamesSymbol(r), NEW given,
           NEW all, all = Gathered(r, given),
           NEW a \in SpanSet(all), NEW b \in SpanSet(all),
           \E l \in TwoLists(r.batch[1], r.paging) : Ahead(l, a, b),
           \A l \in TwoLists(r.batch[1], r.paging) : ~Ahead(l, b, a)
    PROVE  StandsBefore(all, a, b)
<1> DEFINE query == r.batch[1]
           s == StructuralIds(query)
           l == LexicalIds(query, r.paging)
<1>1. query \in Queries /\ QueryFields(query) /\ r.paging \in BOOLEAN
  BY ValuesOfSequence, AnswersAssumption DEF ValidRequest, NamesSymbol
<1>2. PICK lists \in RankedLists :
          RanksFrom(query, r.paging, ExactHit(r, 1), lists) /\ PageFrom(lists, given, all)
  BY SingleQueriesPage DEF NamesSymbol
<1>8. ExactHit(r, 1)
  BY DEF ExactHit, Cheap, NamesSymbol
<1>3. lists = <<<<8, s>>, <<8, l>>>>
  BY <1>2, <1>8 DEF RanksFrom, NamesSymbol
<1>4. s \in Seq(Spans) /\ l \in Seq(Spans) /\ Len(s) <= 10000 /\ Len(l) <= 10000
  BY <1>1, ListsOfQuery DEF ListsAreShort, NamesSymbol
<1>5. (Ahead(s, a, b) \/ Ahead(l, a, b)) /\ ~Ahead(s, b, a) /\ ~Ahead(l, b, a)
  BY DEF TwoLists
<1> HIDE DEF s, l
<1>6. Score(lists, a) > Score(lists, b)
  BY <1>3, <1>4, <1>5, AheadScoresMore
<1>7. all \in Seq(Scored) /\ Ranking(all) /\ ScoredBy(lists, all)
  BY <1>2 DEF PageFrom
<1> QED
  BY <1>2, <1>6, <1>7, HigherComesFirst DEF StandsBefore

\* What is shown comes from a layout of the best first.
LEMMA AnswersFall ==
    ASSUME NEW r, ValidRequest(r), NEW given
    PROVE  EdgesFall(AnswerTo(r, given).shown)
<1> DEFINE all == Gathered(r, given)
           kept == IF all = <<>> THEN Suggested(r) ELSE Pack(all, r.budget)
<1>1. AnswerTo(r, given).shown = LostInTheMiddle(kept)
  BY DEF AnswerTo
<1>2. kept \in Seq(Scored) /\ Best(kept)
  <2>1. CASE all = <<>>
    BY <2>1, SuggestionsAreBest
  <2>2. CASE all # <<>>
    <3>1. Packed(all, r.budget, Pack(all, r.budget))
      BY <2>2, AnswerParts
    <3> QED
      BY <2>2, <3>1 DEF Packed
  <2> QED
    BY <2>1, <2>2
<1> HIDE DEF kept
<1> QED
  BY <1>1, <1>2, LayoutHasEdges

\* The best of every answer are at its ends.
LEMMA InvariantImpliesEdges ==
    ASSUME ListsAreShort, AnswersInv
    PROVE  BestAtTheEdges
<1>1. EdgesFall(answer.shown)
  <2>1. CASE asked = NoRequest /\ answer = NoAnswer
    <3>1. answer.shown = <<>>
      BY <2>1 DEF NoAnswer
    <3> QED
      BY <3>1 DEF EdgesFall
  <2>2. CASE asked # NoRequest \/ answer # NoAnswer
    BY <2>2, AnswersFall DEF AnswersInv
  <2> QED
    BY <2>1, <2>2
<1>2. ASSUME NamesSymbol(asked), NEW a \in SpanSet(answer.gathered), NEW b \in SpanSet(answer.gathered),
             \E l \in TwoLists(asked.batch[1], asked.paging) : Ahead(l, a, b),
             \A l \in TwoLists(asked.batch[1], asked.paging) : ~Ahead(l, b, a)
      PROVE  StandsBefore(answer.gathered, a, b)
  <2>1. asked # NoRequest
    BY <1>2 DEF NamesSymbol, NoRequest
  <2>2. ValidRequest(asked)
    BY <2>1 DEF AnswersInv
  <2>3. PICK given : answer = AnswerTo(asked, given)
    BY <2>1 DEF AnswersInv
  <2> DEFINE all == answer.gathered
  <2>4. all = Gathered(asked, given)
    BY <2>3 DEF AnswerTo
  <2> HIDE DEF all
  <2> QED
    BY <1>2, <2>2, <2>4, NamedKeepOrder DEF all
<1> QED
  BY <1>1, <1>2 DEF BestAtTheEdges, EdgesFall, NamesSymbol, TwoLists, StandsBefore, Ahead

\* Every answer is within its budget, and leaves out only what it must.
LEMMA InvariantImpliesFits == AnswersInv => AnswerFits
<1> SUFFICES ASSUME AnswersInv, answer.gathered # <<>>
             PROVE  AnswerFits
  BY DEF AnswerFits
<1>1. ValidRequest(asked)
  BY DEF AnswersInv, NoAnswer
<1>2. PICK given : (asked.paging \/ given = {}) /\ answer = AnswerTo(asked, given)
  BY DEF AnswersInv, NoAnswer
<1> DEFINE all == Gathered(asked, given)
           kept == Pack(all, asked.budget)
           shown == answer.shown
           better(x) == {y \in ToSet(shown) : y.score >= x.score}
           first(i) == SpansOf(asked, i, {})[1]
           share == asked.budget \div Len(asked.batch)
           tops == {first(i) : i \in {j \in DOMAIN asked.batch : answer.found[j] > 0}}
           fair == /\ ~asked.paging
                   /\ \A i \in DOMAIN asked.batch : FusedQuery(asked.batch[i])
                   /\ FairFloor <= share
                   /\ \A x \in tops : Cost[x.span] <= share
<1>3. answer.gathered = all /\ all # <<>> /\ asked.budget \in Nat
  BY <1>1, <1>2 DEF AnswerTo, ValidRequest
<1> HIDE DEF all, kept
<1>4. /\ all \in Seq(Scored) /\ Distinct(all) /\ Packed(all, asked.budget, kept)
      /\ answer.shown = LostInTheMiddle(kept)
      /\ answer.omitted = Len(all) - Len(kept)
      /\ answer.found = [i \in DOMAIN asked.batch |-> Len(SpansOf(asked, i, given))]
  BY <1>1, <1>2, <1>3, AnswerParts DEF all, kept
<1>5. /\ kept \in Seq(Scored) /\ Distinct(kept) /\ ToSet(kept) \subseteq ToSet(all)
      /\ CostOf(ToSet(kept)) <= asked.budget
  BY <1>4 DEF Packed
<1>6. shown \in Seq(Scored) /\ Len(shown) = Len(kept) /\ ToSet(shown) = ToSet(kept)
  BY <1>4, <1>5, LayoutKeeps
<1> HIDE DEF shown
<1>7. ToSet(kept) \in SUBSET Scored /\ IsFiniteSet(ToSet(kept))
  BY <1>5, ValuesOfSequence
<1>8. ASSUME NEW x \in ToSet(all), x.span \notin SpanSet(shown)
      PROVE  CostOf(better(x)) + Cost[x.span] > asked.budget
  <2>1. x \notin ToSet(kept)
    BY <1>6, <1>8, SpansOfValues
  <2>2. PICK k \in SUBSET ToSet(kept) :
            (\A y \in k : y.score >= x.score) /\ CostOf(k) + Cost[x.span] > asked.budget
    BY <1>4, <2>1 DEF Packed
  <2>3. k \subseteq better(x) /\ better(x) \in SUBSET ToSet(kept)
    BY <1>6, <2>2
  <2> DEFINE T == better(x)
  <2> HIDE DEF T, better
  <2>4. T \in SUBSET Scored /\ IsFiniteSet(T) /\ k \in SUBSET T
    BY <1>7, <2>3, FS_Subset DEF T
  <2>5. CostOf(k) <= CostOf(T) /\ CostOf(T) \in Nat
    BY <2>4, CostGrows, CostWithout
  <2>6. CostOf(k) \in Nat /\ Cost[x.span] \in Nat
    <3>1. k \in SUBSET Scored /\ IsFiniteSet(k)
      BY <2>4, FS_Subset
    <3>2. x \in Scored
      BY <1>4, ValuesOfSequence
    <3> QED
      BY <3>1, <3>2, CostWithout, SpanCosts
  <2>7. CostOf(T) + Cost[x.span] > asked.budget
    BY <1>3, <2>2, <2>5, <2>6
  <2> QED
    BY <2>7 DEF T
<1>9. ASSUME fair
      PROVE  answer.omitted = 0 /\ {x.span : x \in tops} \subseteq SpanSet(shown)
  <2>1. given = {}
    BY <1>2, <1>9
  <2>2. \A i \in DOMAIN asked.batch : answer.found[i] = Len(SpansOf(asked, i, {}))
    BY <1>4, <2>1
  <2>3. \A i \in DOMAIN asked.batch : Len(SpansOf(asked, i, {})) > 0
            => Cost[first(i).span] <= share
    BY <1>9, <2>2
  <2>4. /\ CostOf(ToSet(all)) <= asked.budget
        /\ \A i \in DOMAIN asked.batch : Len(SpansOf(asked, i, {})) > 0
               => first(i).span \in SpanSet(all)
    BY <1>1, <1>9, <2>1, <2>3, FairFits DEF all
  <2>5. ToSet(kept) = ToSet(all)
    BY <1>4, <2>4 DEF Packed
  <2>6. Len(kept) = Len(all) /\ Len(all) \in Nat
    BY <1>4, <1>5, <2>5, DistinctLength, LenProperties
  <2>7. SpanSet(shown) = SpanSet(all)
    BY <1>4, <1>6, <2>5, SpansOfValues
  <2>8. \A x \in tops : x.span \in SpanSet(shown)
    BY <2>2, <2>4, <2>7
  <2>9. answer.omitted = 0
    BY <1>4, <2>6
  <2> HIDE DEF tops
  <2> QED
    BY <2>8, <2>9
<1>10. answer.omitted = Len(answer.gathered) - Len(shown)
  BY <1>3, <1>4, <1>6
<1>11. CostOf(ToSet(shown)) <= asked.budget
  BY <1>5, <1>6
<1> QED
  BY <1>3, <1>8, <1>9, <1>10, <1>11 DEF AnswerFits, shown

\* At first nothing is asked.
LEMMA AnswersInitInvariant == AnswersInit => AnswersInv
BY DEF AnswersInit, AnswersInv

\* Each call is answered as AnswerTo says.
LEMMA AnswersNextInvariant ==
    ASSUME AnswersInv, [AnswersNext]_answerVars
    PROVE  AnswersInv'
<1>1. CASE UNCHANGED answerVars
  BY <1>1 DEF answerVars, AnswersInv
<1>2. CASE Read
  BY <1>2 DEF Read, AnswersInv
<1>3. ASSUME NEW batch \in Batches, NEW budget \in Budgets, NEW paging \in BOOLEAN,
             Code([batch |-> batch, budget |-> budget, paging |-> paging])
      PROVE  AnswersInv'
  <2> DEFINE r == [batch |-> batch, budget |-> budget, paging |-> paging]
             given == IF paging THEN seen ELSE {}
  <2>1. ValidRequest(r)
    BY AnswersAssumption DEF ValidRequest
  <2>2. asked' = r /\ answer' = AnswerTo(r, given)
    BY <1>3 DEF Code
  <2>3. r.paging \/ given = {}
    OBVIOUS
  <2> HIDE DEF r, given
  <2> QED
    BY <2>1, <2>2, <2>3 DEF AnswersInv
<1> QED
  BY <1>1, <1>2, <1>3 DEF AnswersNext

\* An answer of the code tool is within its budget and leaves a span out only
\* where it does not fit beside better ones; a batch whose queries have a fair
\* share that their first spans do not exceed is answered in full.
THEOREM AnswersAlwaysFit == AnswersSpec => []AnswerFits
<1>1. AnswersInv /\ [AnswersNext]_answerVars => AnswersInv'
  BY AnswersNextInvariant
<1> QED
  BY <1>1, InvariantImpliesFits, AnswersInitInvariant, PTL DEF AnswersSpec

\* Where the lists of a query are within the reach of the unit of the scores,
\* the best spans of every answer are at its ends, and what the search for a
\* name and the search for text agree on keeps its order.
THEOREM BestAlwaysAtTheEdges ==
    ASSUME ListsAreShort
    PROVE  AnswersSpec => []BestAtTheEdges
<1>1. AnswersInv /\ [AnswersNext]_answerVars => AnswersInv'
  BY AnswersNextInvariant
<1> QED
  BY <1>1, InvariantImpliesEdges, AnswersInitInvariant, PTL DEF AnswersSpec

-----------------------------------------------------------------------------
(***************************************************************************)
(* The composition.                                                        *)
(***************************************************************************)

ServerInv == LookupInv /\ ConnInv /\ TransportInv /\ SessionInv /\ AnswersInv /\ CycleInv

\* A step of one part stutters in another.
LEMMA PartsAreApart ==
    ASSUME [ServerStep]_serverVars
    PROVE  /\ [AnswersNext]_answerVars
           /\ [LookupNext]_lookupVars
           /\ [ConnNext]_connVars
           /\ [TransportNext]_transportVars
           /\ [SessionNext]_sessionVars
<1>1. CASE UNCHANGED serverVars
  BY <1>1 DEF serverVars
<1>2. CASE AnswersNext /\ UNCHANGED <<sessionVars, lookupVars, connVars, transportVars>>
  BY <1>2
<1>3. CASE SessionNext /\ UNCHANGED <<answerVars, lookupVars, connVars, transportVars>>
  BY <1>3
<1>4. CASE LookupNext /\ UNCHANGED <<answerVars, sessionVars, connVars, transportVars>>
  BY <1>4
<1>5. CASE ConnNext /\ UNCHANGED <<answerVars, sessionVars, lookupVars, transportVars>>
  BY <1>5
<1>6. CASE TransportNext /\ UNCHANGED <<answerVars, sessionVars, lookupVars, connVars>>
  BY <1>6
<1> QED
  BY <1>1, <1>2, <1>3, <1>4, <1>5, <1>6 DEF ServerStep

LEMMA ServerInitInvariant == ServerInit => ServerInv
BY LookupInitInvariant, ConnInitInvariant, TransportInitInvariant, SessionInitInvariant,
   AnswersInitInvariant, CycleInitInvariant
   DEF ServerInit, ServerInv

LEMMA ServerNextInvariant ==
    ASSUME ServerInv, [ServerStep]_serverVars
    PROVE  ServerInv'
BY PartsAreApart, LookupNextInvariant, ConnNextInvariant, TransportNextInvariant,
   SessionNextInvariant, AnswersNextInvariant, CycleNextInvariant
   DEF ServerInv

\* Lookups, kept connections and HTTP clients get the answers to what they
\* asked, in every behaviour of the server.
THEOREM RepliesAlwaysMatch == ServerSpec => []RepliesMatch
<1>1. ServerInv /\ [ServerStep]_serverVars => ServerInv'
  BY ServerNextInvariant
<1>2. ServerInv => RepliesMatch
  <2>1. LookupInv => LookupIsAnswer
    BY DEF LookupInv, FoundAtTheEnd, LookupIsAnswer
  <2>2. ConnInv => AnswerIsMine
    BY DEF ConnInv
  <2> QED
    BY <2>1, <2>2, InvariantImpliesRight DEF ServerInv, RepliesMatch
<1> QED
  BY <1>1, <1>2, ServerInitInvariant, PTL DEF ServerSpec

\* The memory of a session stays true beside everything else the server does.
THEOREM ServerRemembers == ServerSpec => []MemoryIsTrue
<1>1. ServerInv /\ [ServerStep]_serverVars => ServerInv'
  BY ServerNextInvariant
<1>2. ServerInv => MemoryIsTrue
  BY InvariantImpliesTrue DEF ServerInv
<1> QED
  BY <1>1, <1>2, ServerInitInvariant, PTL DEF ServerSpec

\* An answer of the code tool is within its budget beside everything else, too.
THEOREM ServerAnswersFit == ServerSpec => []AnswerFits
<1>1. ServerInv /\ [ServerStep]_serverVars => ServerInv'
  BY ServerNextInvariant
<1>2. ServerInv => AnswerFits
  BY InvariantImpliesFits DEF ServerInv
<1> QED
  BY <1>1, <1>2, ServerInitInvariant, PTL DEF ServerSpec

\* Paging goes on beside everything else, too.
THEOREM ServerPagesGoOn == ServerSpec => PagesGoOn
<1>1. ServerInv /\ [ServerStep]_serverVars => [PageGoesOn]_answerVars
  BY PartsAreApart, NextPageGoesOn DEF ServerInv
<1>2. ServerInv /\ [ServerStep]_serverVars => ServerInv'
  BY ServerNextInvariant
<1> QED
  BY <1>1, <1>2, ServerInitInvariant, PTL DEF ServerSpec, PagesGoOn

\* So do the ends of an answer hold the best.
THEOREM ServerShowsTheBest ==
    ASSUME ListsAreShort
    PROVE  ServerSpec => []BestAtTheEdges
<1>1. ServerInv /\ [ServerStep]_serverVars => ServerInv'
  BY ServerNextInvariant
<1>2. ServerInv => BestAtTheEdges
  BY InvariantImpliesEdges DEF ServerInv
<1> QED
  BY <1>1, <1>2, ServerInitInvariant, PTL DEF ServerSpec

\* Lookups, kept connections and HTTP clients implement one abstract
\* specification: a call gets the answer to it once, while its caller waits,
\* or is given up.
THEOREM CallsAlwaysKept == ServerSpec => CallsAreKept
<1>1. ServerInit => LookupCalls!Init /\ ConnCalls!Init /\ ClientCalls!Init
  BY LookupStartsAsACall, ConnStartsAsACall, ClientsStartAsCalls DEF ServerInit
<1>2. ServerInv /\ [ServerStep]_serverVars => ServerInv'
  BY ServerNextInvariant
<1>3. ServerInv /\ ServerInv' /\ [ServerStep]_serverVars =>
          /\ [LookupCalls!Next]_(LookupCalls!vars)
          /\ [ConnCalls!Next]_(ConnCalls!vars)
          /\ [ClientCalls!Next]_(ClientCalls!vars)
  BY PartsAreApart, LookupStepIsACall, ConnStepIsACall, TransportStepIsACall DEF ServerInv
<1> QED
  BY <1>1, <1>2, <1>3, ServerInitInvariant, PTL
     DEF ServerSpec, CallsAreKept, LookupCalls!Spec, ConnCalls!Spec, ClientCalls!Spec

=============================================================================
