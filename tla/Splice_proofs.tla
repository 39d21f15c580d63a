----------------------------- MODULE Splice_proofs -----------------------------
(***************************************************************************)
(* Proofs about the edits of apply.rs, for any text and any bodies: the    *)
(* hunk shown for an edit is the edit, and a text that is written well     *)
(* stays so, in a language with braces and in one of indentation. Every    *)
(* edit is lines p + 1..q of a text t replaced by m new ones. Such an edit *)
(* fits (Fitted) if there is room for the new lines, they are one          *)
(* definition, and they are written into what is open there; whatever fits *)
(* leaves a text that is written well and keeps the other lines            *)
(* (FittedIsGood), and each of the edits fits.                             *)
(***************************************************************************)
EXTENDS Splice, Recursion, SequenceTheorems

(***************************************************************************)
(* The edits of a text, in four parts: a symbol, and the trivia above it,  *)
(* lie in the text; a hunk between two texts that agree outside of it is   *)
(* what a patch needs; the texts that are joined, cut and replaced are     *)
(* texts with known lines; and so each edit shows what it changed.         *)
(***************************************************************************)

\* A symbol starts and ends in the text, in this order.
LEMMA SpanEndWithin ==
    ASSUME NEW S, NEW t \in Seq(S), NEW i \in 1..Len(t)
    PROVE  SpanEnd(t, i) \in i..Len(t)
<1>1. Len(t) \in Nat /\ i \in Nat /\ i \in i..Len(t) /\ Len(t) \in i..Len(t)
  BY LenProperties
<1> DEFINE n == Len(t)
           C == {j \in i..n : CountIn(t, Openers, i, j) = CountIn(t, {"close"}, i, j)} \cup {n}
           D == {j \in i..n : /\ j = i \/ t[j].kind \notin NoCode
                              /\ Deeper(t, i, j)}
<1>2. Min(C) \in i..n
  <2>1. C \in SUBSET Nat /\ C # {} /\ C \subseteq i..n
    BY <1>1
  <2> HIDE DEF C
  <2>2. Min(C) \in C
    BY <2>1, MinIsIn
  <2> QED
    BY <2>1, <2>2
<1>3. Max(D) \in i..n
  <2>1. Deeper(t, i, i)
    BY <1>1 DEF Deeper
  <2>2. i \in D
    BY <1>1, <2>1
  <2>3. D \in SUBSET (0..n) /\ D # {} /\ D \subseteq i..n
    BY <1>1, <2>2
  <2> HIDE DEF D
  <2>4. Max(D) \in D
    BY <1>1, <2>3, MaxIsIn
  <2> QED
    BY <2>3, <2>4
<1>4. SpanEnd(t, i) = i \/ SpanEnd(t, i) = Min(C) \/ SpanEnd(t, i) = Max(D)
  BY DEF SpanEnd
<1> QED
  BY <1>1, <1>2, <1>3, <1>4

\* A symbol of a text lies in it.
LEMMA SymbolsWithin ==
    ASSUME NEW S, NEW t \in Seq(S), NEW s \in Symbols(t)
    PROVE  s.start \in 1..Len(t) /\ s.end \in s.start..Len(t)
<1>1. PICK i \in DOMAIN t :
          s = [id |-> t[i].id, name |-> t[i].name, start |-> i, end |-> SpanEnd(t, i)]
  BY DEF Symbols
<1>2. i \in 1..Len(t)
  BY LenProperties
<1> QED
  BY <1>1, <1>2, SpanEndWithin

\* The line that opens the comment above line k, if there is one.
OpeningLine(t, k) == Max({0} \cup {j \in 1..k : t[j].kind \in OpensAny})

\* Where the trivia above line i start, by where they start for the lines above.
TopAbove(t, f, i) ==
    IF i = 1 THEN 1
    ELSE IF t[i - 1].kind \in Attached THEN f[i - 1]
    ELSE IF /\ t[i - 1].kind \in EndsBlock
            /\ OpeningLine(t, i - 1) # 0
            /\ t[OpeningLine(t, i - 1)].kind \in OpensDoc
    THEN f[OpeningLine(t, i - 1)]
    ELSE i

\* The last line above that starts a comment.
LEMMA OpeningAbove ==
    ASSUME NEW t, NEW k \in Nat
    PROVE  /\ OpeningLine(t, k) \in 0..k
           /\ OpeningLine(t, k) # 0 => t[OpeningLine(t, k)].kind \in OpensAny
           /\ \A j \in 1..k : t[j].kind \in OpensAny => j <= OpeningLine(t, k)
<1> DEFINE C == {0} \cup {j \in 1..k : t[j].kind \in OpensAny}
<1>1. C \in SUBSET (0..k) /\ C # {} /\ \A j \in C : j = 0 \/ t[j].kind \in OpensAny
  OBVIOUS
<1>2. \A j \in 1..k : t[j].kind \in OpensAny => j \in C
  OBVIOUS
<1>3. OpeningLine(t, k) = Max(C)
  BY DEF OpeningLine
<1> HIDE DEF C
<1>4. Max(C) \in C /\ \A j \in C : j <= Max(C)
  BY <1>1, MaxIsIn
<1> QED
  BY <1>1, <1>2, <1>3, <1>4

\* There is such a start for every line.
LEMMA TriviaTopIs ==
    ASSUME NEW t, NEW s \in Nat \ {0}
    PROVE  \E f : TriviaTop(t, s) = f[s] /\ \A i \in 1..s : f[i] = TopAbove(t, f, i)
<1>1. s \in Nat /\ 1 \in 1..s
  OBVIOUS
<1> DEFINE opening(k) == Max({0} \cup {j \in 1..k : t[j].kind \in OpensAny})
           Top(f, i) ==
             IF i = 1 THEN 1
             ELSE IF t[i - 1].kind \in Attached THEN f[i - 1]
             ELSE IF /\ t[i - 1].kind \in EndsBlock
                     /\ opening(i - 1) # 0
                     /\ t[opening(i - 1)].kind \in OpensDoc
             THEN f[opening(i - 1)]
             ELSE i
           Right(f) == f = [i \in 1..s |-> Top(f, i)]
           iter == CHOOSE f : Right(f)
           X == 1..s
           step == [i \in 1..s |-> [f \in [1..s -> X] |-> Top(f, i)]]
<1>2. TriviaTop(t, s) = iter[s]
  BY DEF TriviaTop
<1>0. \A f, i : Top(f, i) = TopAbove(t, f, i)
  BY DEF TopAbove, OpeningLine
<1>3. ASSUME NEW i \in 1..s
      PROVE  opening(i - 1) \in 0..(i - 1)
  <2>1. i - 1 \in Nat
    OBVIOUS
  <2>2. OpeningLine(t, i - 1) \in 0..(i - 1)
    BY <2>1, OpeningAbove
  <2> QED
    BY <2>2 DEF OpeningLine
<1> HIDE DEF opening
<1>4. ASSUME NEW i \in 1..s, NEW f, \A j \in 1..(i - 1) : f[j] \in X
      PROVE  Top(f, i) \in X
  <2>1. i = 1 \/ i - 1 \in 1..(i - 1)
    OBVIOUS
  <2>2. opening(i - 1) # 0 => opening(i - 1) \in 1..(i - 1)
    BY <1>3
  <2> QED
    BY <1>1, <1>4, <2>1, <2>2
<1>5. ASSUME NEW i \in 1..s, NEW f \in [1..s -> X], NEW g \in [1..s -> X],
             \A j \in 1..(i - 1) : f[j] = g[j]
      PROVE  Top(f, i) = Top(g, i)
  <2>1. i = 1 \/ i - 1 \in 1..(i - 1)
    OBVIOUS
  <2>2. opening(i - 1) # 0 => opening(i - 1) \in 1..(i - 1)
    BY <1>3
  <2> QED
    BY <1>5, <2>1, <2>2
<1> HIDE DEF Top
<1>6. LooksBack(s, X, step)
  <2>1. step \in [1..s -> [[1..s -> X] -> X]]
    <3>1. \A i \in 1..s : \A j \in 1..(i - 1) : j \in 1..s
      BY <1>1
    <3> QED
      BY <1>4, <3>1
  <2>2. ASSUME NEW i \in 1..s, NEW f \in [1..s -> X], NEW g \in [1..s -> X],
               \A j \in 1..(i - 1) : f[j] = g[j]
        PROVE  step[i][f] = step[i][g]
    BY <1>5, <2>2
  <2> HIDE DEF step
  <2> QED
    BY <2>1, <2>2 DEF LooksBack
<1>7. PICK f \in [1..s -> X] : IsFixed(s, step, f)
  <2> HIDE DEF step, X
  <2>1. 1 \in X
    BY <1>1 DEF X
  <2>2. HasFixed(s, X, step)
    BY <1>1, <1>6, <2>1, CourseOfValues
  <2> QED
    BY <2>2 DEF HasFixed
<1>8. Right(f)
  <2>1. \A i \in 1..s : f[i] = step[i][f]
    BY <1>7 DEF IsFixed
  <2>2. \A i \in 1..s : step[i][f] = Top(f, i)
    OBVIOUS
  <2> HIDE DEF step
  <2>3. \A i \in 1..s : f[i] = Top(f, i)
    BY <2>1, <2>2
  <2> QED
    BY <2>3
<1>9. Right(iter)
  <2> HIDE DEF Right
  <2> QED
    BY <1>8
<1>10. \A i \in 1..s : iter[i] = Top(iter, i)
  <2> HIDE DEF iter
  <2> QED
    BY <1>9
<1> HIDE DEF iter
<1>11. \A i \in 1..s : iter[i] = TopAbove(t, iter, i)
  BY <1>0, <1>10
<1> QED
  BY <1>2, <1>11

\* What holds of a line if it does of the ones above it holds of all.
LEMMA LineByLine ==
    ASSUME NEW s \in Nat, NEW P, \A i \in 1..s : (\A j \in 1..(i - 1) : j \in P) => i \in P
    PROVE  \A i \in 1..s : i \in P
<1> DEFINE I == {m \in Nat : m <= s => \A j \in 1..m : j \in P}
<1>1. 0 \in I
  OBVIOUS
<1>2. ASSUME NEW m \in Nat, m \in I
      PROVE  m + 1 \in I
  <2> SUFFICES ASSUME m + 1 <= s
               PROVE  \A j \in 1..(m + 1) : j \in P
    OBVIOUS
  <2>1. \A j \in 1..m : j \in P
    BY <1>2
  <2>2. m + 1 \in 1..s /\ m + 1 - 1 = m
    OBVIOUS
  <2>3. m + 1 \in P
    BY <2>1, <2>2
  <2>4. \A j \in 1..(m + 1) : j \in 1..m \/ j = m + 1
    OBVIOUS
  <2> QED
    BY <2>1, <2>3, <2>4
<1>3. s \in I
  <2> HIDE DEF I
  <2> QED
    BY <1>1, <1>2, NaturalInduction
<1> QED
  BY <1>3

\* The trivia above a symbol start in the text.
LEMMA TriviaTopWithin ==
    ASSUME NEW S, NEW t \in Seq(S), NEW s \in 1..Len(t)
    PROVE  TriviaTop(t, s) \in 1..s
<1>1. s \in Nat \ {0}
  BY LenProperties
<1>2. PICK f : TriviaTop(t, s) = f[s] /\ \A i \in 1..s : f[i] = TopAbove(t, f, i)
  BY <1>1, TriviaTopIs
<1> DEFINE P == {i \in 1..s : f[i] \in 1..s}
<1>3. ASSUME NEW i \in 1..s, \A j \in 1..(i - 1) : j \in P
      PROVE  i \in P
  <2>1. i = 1 \/ i - 1 \in 1..(i - 1)
    OBVIOUS
  <2>2. i - 1 \in Nat
    OBVIOUS
  <2>3. OpeningLine(t, i - 1) # 0 => OpeningLine(t, i - 1) \in 1..(i - 1)
    BY <2>2, OpeningAbove
  <2>4. TopAbove(t, f, i) \in 1..s
    BY <1>1, <1>3, <2>1, <2>3 DEF TopAbove
  <2> QED
    BY <1>2, <2>4
<1> HIDE DEF P
<1>4. \A i \in 1..s : i \in P
  BY <1>1, <1>3, LineByLine
<1> QED
  BY <1>1, <1>2, <1>4 DEF P

\* h is a hunk around lines a + 1..b of old, which became lines a + 1..c of new.
HunkAt(old, new, a, b, c, before, after, h) ==
    /\ a \in Nat /\ b \in Nat /\ c \in Nat /\ before \in Nat /\ after \in Nat
    /\ before <= a /\ a <= b /\ b + after <= Len(old) /\ a <= c /\ c <= Len(new)
    /\ SubSeq(old, 1, a) = SubSeq(new, 1, a)
    /\ SubSeq(old, b + 1, Len(old)) = SubSeq(new, c + 1, Len(new))
    /\ h = Hunk(SubSeq(old, a - before + 1, a), SubSeq(old, a + 1, b),
                SubSeq(new, a + 1, c), SubSeq(old, b + 1, b + after),
                a - before + 1, (b - a) + before + after, (c - a) + before + after)

\* A hunk whose context is the old text around the change, put where its
\* header says, gives the new text.
LEMMA PatchFits ==
    ASSUME NEW S, NEW old \in Seq(S), NEW new \in Seq(S),
           NEW a, NEW b, NEW c, NEW before, NEW after, NEW h,
           HunkAt(old, new, a, b, c, before, after, h)
    PROVE  Patched(old, h) = <<new>>
<1>0. a \in Nat /\ b \in Nat /\ c \in Nat /\ before \in Nat /\ after \in Nat
  BY DEF HunkAt
<1> USE <1>0
<1> DEFINE n == Len(old)
           k == Len(new)
           pre == SubSeq(old, a - before + 1, a)
           removed == SubSeq(old, a + 1, b)
           added == SubSeq(new, a + 1, c)
           post == SubSeq(old, b + 1, b + after)
           head == SubSeq(old, 1, a - before)
           tail == SubSeq(old, b + after + 1, n)
<1>1. n \in Nat /\ k \in Nat
  BY LenProperties
<1> HIDE DEF n, k
<1>2. /\ before <= a /\ a <= b /\ b + after <= n /\ a <= c /\ c <= k
  BY DEF n, k, HunkAt
<1>3. /\ a - before + 1 \in 1..(n + 1) /\ a \in ((a - before + 1) - 1)..n
      /\ a + 1 \in 1..(n + 1) /\ b \in ((a + 1) - 1)..n
      /\ a + 1 \in 1..(k + 1) /\ c \in ((a + 1) - 1)..k
      /\ b + 1 \in 1..(n + 1) /\ b + after \in ((b + 1) - 1)..n
  BY <1>1, <1>2
<1>4. /\ 1 \in 1..(n + 1) /\ a - before \in (1 - 1)..n /\ a \in (a - before)..n
      /\ b + after + 1 \in 1..(n + 1) /\ n \in ((b + after + 1) - 1)..n
      /\ b \in a..n /\ b + after \in b..n /\ n \in (b + after)..n
      /\ b \in ((a - before + 1) - 1)..n
      /\ 1 \in 1..(k + 1) /\ a \in (1 - 1)..k /\ c \in a..k /\ c \in (1 - 1)..k /\ k \in c..k
  BY <1>1, <1>2
<1>5. /\ a - (a - before + 1) + 1 = before
      /\ b - (a + 1) + 1 = b - a
      /\ c - (a + 1) + 1 = c - a
      /\ (b + after) - (b + 1) + 1 = after
  BY <1>1
<1>6. /\ pre \in Seq(S) /\ Len(pre) = before
      /\ removed \in Seq(S) /\ Len(removed) = b - a
      /\ added \in Seq(S) /\ Len(added) = c - a
      /\ post \in Seq(S) /\ Len(post) = after
  <2>1. pre \in Seq(S) /\ Len(pre) = before
    BY <1>3, <1>5, PartOf DEF n
  <2>2. removed \in Seq(S) /\ Len(removed) = b - a
    BY <1>3, <1>5, PartOf DEF n
  <2>3. added \in Seq(S) /\ Len(added) = c - a
    BY <1>3, <1>5, PartOf DEF k
  <2>4. post \in Seq(S) /\ Len(post) = after
    BY <1>3, <1>5, PartOf DEF n
  <2> QED
    BY <2>1, <2>2, <2>3, <2>4
<1>7. pre \o removed \o post = SubSeq(old, a - before + 1, b + after)
  <2>1. pre \o removed = SubSeq(old, a - before + 1, b)
    BY <1>3, <1>4, ConcatAdjacentSubSeq DEF n
  <2>2. SubSeq(old, a - before + 1, b) \o post = SubSeq(old, a - before + 1, b + after)
    BY <1>3, <1>4, ConcatAdjacentSubSeq DEF n
  <2> QED
    BY <2>1, <2>2
<1>8. head \o pre = SubSeq(new, 1, a)
  <2>1. head \o pre = SubSeq(old, 1, a)
    BY <1>4, ConcatAdjacentSubSeq DEF n
  <2> QED
    BY <2>1 DEF HunkAt
<1>9. post \o tail = SubSeq(new, c + 1, k)
  <2>1. post \o tail = SubSeq(old, b + 1, n)
    BY <1>3, <1>4, ConcatAdjacentSubSeq DEF n
  <2> QED
    BY <2>1 DEF n, k, HunkAt
<1>10. SubSeq(new, 1, a) \o added = SubSeq(new, 1, c)
  BY <1>4, ConcatAdjacentSubSeq DEF k
<1>11. SubSeq(new, 1, c) \o SubSeq(new, c + 1, k) = new
  BY <1>4, ConcatAdjacentSubSeq, SubSeqFull DEF k
<1>12. SubSeq(new, 1, c) \in Seq(S) /\ tail \in Seq(S)
  BY <1>4, PartOf DEF n, k
<1> HIDE DEF pre, removed, added, post, head, tail
<1>13. head \o pre \o added \o post \o tail = new
  <2> DEFINE first == SubSeq(new, 1, c)
  <2>1. first \o post \o tail = first \o (post \o tail)
    <3>1. first \in Seq(S) /\ post \in Seq(S) /\ tail \in Seq(S)
      BY <1>6, <1>12
    <3> HIDE DEF first
    <3> QED
      BY ONLY <3>1, ConcatAssociative, SMTT(20)
  <2> QED
    BY <1>8, <1>9, <1>10, <1>11, <2>1
<1> DEFINE start == a - before + 1
           oldCount == (b - a) + before + after
           newCount == (c - a) + before + after
<1>17. h = Hunk(pre, removed, added, post, start, oldCount, newCount)
  BY DEF pre, removed, added, post, HunkAt
<1>14. /\ h.pre = pre /\ h.removed = removed /\ h.added = added /\ h.post = post
       /\ h.start = start /\ h.oldCount = oldCount /\ h.newCount = newCount
  BY <1>17 DEF Hunk
<1>15. /\ oldCount = Len(pre) + Len(removed) + Len(post)
       /\ newCount = Len(pre) + Len(added) + Len(post)
       /\ start - 1 = a - before
       /\ start + oldCount - 1 = b + after
  BY <1>1, <1>6
<1> HIDE DEF start, oldCount, newCount
<1>16. Patched(old, h) = <<new>>
  <2>1. SubSeq(old, h.start, b + after) = h.pre \o h.removed \o h.post
    BY <1>7, <1>14 DEF start
  <2>2. SubSeq(old, 1, h.start - 1) \o h.pre \o h.added \o h.post
            \o SubSeq(old, b + after + 1, Len(old)) = new
    BY <1>13, <1>14, <1>15 DEF head, tail, n
  <2> QED
    BY <1>2, <1>14, <1>15, <2>1, <2>2 DEF Patched, n
<1> QED
  BY <1>16

\* The hunk of lines s..e that were replaced by newLen lines.
LEMMA UnifiedDiffFits ==
    ASSUME NEW S, NEW old \in Seq(S), NEW new \in Seq(S),
           NEW s \in 1..Len(old), NEW e \in s..Len(old), NEW newLen \in Nat,
           Len(new) = Len(old) - (e - s + 1) + newLen,
           SubSeq(old, 1, s - 1) = SubSeq(new, 1, s - 1),
           SubSeq(old, e + 1, Len(old)) = SubSeq(new, s + newLen, Len(new))
    PROVE  Patched(old, UnifiedDiff(old, new, s, e, newLen)) = <<new>>
<1>0. old \in Seq(S) /\ new \in Seq(S)
  OBVIOUS
<1> DEFINE n == Len(old)
           k == Len(new)
           before == Min({s - 1, Ctx})
           after == Min({n - e, Ctx})
           c == s + newLen - 1
<1>1. n \in Nat /\ k \in Nat /\ Ctx \in Nat
  BY LenProperties, SpliceAssumption
<1> HIDE DEF n, k
<1>2. /\ s \in 1..n /\ e \in s..n /\ k = n - (e - s + 1) + newLen
      /\ SubSeq(old, e + 1, n) = SubSeq(new, s + newLen, k)
  BY DEF n, k
<1>3. /\ s - 1 \in Int /\ n - e \in Int
      /\ c \in Nat /\ c <= k /\ s - 1 <= c /\ s + newLen = c + 1 /\ c - (s - 1) = newLen
      /\ e - (s - 1) = e - s + 1 /\ s - 1 + 1 = s /\ s - 1 \in Nat /\ e \in Nat /\ s - 1 <= e
  BY <1>1, <1>2
<1>4. before = IF s - 1 <= Ctx THEN s - 1 ELSE Ctx
  <2>1. s - 1 \in Int /\ Ctx \in Int
    BY <1>1, <1>3
  <2> QED
    BY ONLY <2>1, MinOfTwo
<1>5. after = IF n - e <= Ctx THEN n - e ELSE Ctx
  BY <1>1, <1>3, MinOfTwo
<1> HIDE DEF before, after
<1>6. before \in Nat /\ before <= s - 1 /\ after \in Nat /\ e + after <= n
  BY <1>1, <1>2, <1>4, <1>5
<1>7. Min({c, k}) = c
  <2> HIDE DEF c
  <2> QED
    BY <1>1, <1>3, MinOfTwo
<1>8. UnifiedDiff(old, new, s, e, newLen)
        = Hunk(SubSeq(old, s - before, s - 1), SubSeq(old, s, e), SubSeq(new, s, Min({c, k})),
               SubSeq(old, e + 1, e + after),
               s - before, (e - s + 1) + before + after, newLen + before + after)
  BY DEF UnifiedDiff, before, after, n, k, c
<1> DEFINE a == s - 1
           start == s - before
           oldCount == (e - s + 1) + before + after
           newCount == newLen + before + after
<1>9. /\ a \in Nat /\ a <= c /\ before <= a /\ a <= e /\ a + 1 = s /\ a - before + 1 = s - before
      /\ start = a - before + 1
      /\ oldCount = (e - a) + before + after
      /\ newCount = (c - a) + before + after
  BY <1>1, <1>2, <1>3, <1>6
<1>10. SubSeq(old, 1, a) = SubSeq(new, 1, a)
  OBVIOUS
<1>11. SubSeq(old, e + 1, Len(old)) = SubSeq(new, c + 1, Len(new))
  BY <1>2, <1>3 DEF n, k
<1>12. UnifiedDiff(old, new, s, e, newLen)
        = Hunk(SubSeq(old, a - before + 1, a), SubSeq(old, a + 1, e), SubSeq(new, a + 1, c),
               SubSeq(old, e + 1, e + after), start, oldCount, newCount)
  BY <1>7, <1>8, <1>9
<1> HIDE DEF a, c, start, oldCount, newCount
<1>13. /\ a \in Nat /\ e \in Nat /\ c \in Nat /\ before \in Nat /\ after \in Nat
       /\ before <= a /\ a <= e /\ e + after <= Len(old) /\ a <= c /\ c <= Len(new)
  BY <1>3, <1>6, <1>9 DEF n, k
<1> DEFINE h == UnifiedDiff(old, new, s, e, newLen)
<1>14. HunkAt(old, new, a, e, c, before, after, h)
  BY <1>9, <1>10, <1>11, <1>12, <1>13 DEF HunkAt
<1> HIDE DEF h
<1>15. Patched(old, h) = <<new>>
  BY <1>0, <1>14, PatchFits
<1> QED
  BY <1>15 DEF h

\* The hunk between the longest common beginning and the longest common end.
LEMMA LineDiffFits ==
    ASSUME NEW S, NEW old \in Seq(S), NEW new \in Seq(S)
    PROVE  Patched(old, LineDiff(old, new)) = <<new>>
<1>0. old \in Seq(S) /\ new \in Seq(S)
  OBVIOUS
<1> DEFINE m == Len(old)
           k == Len(new)
           n == Min({m, k})
           P == {i \in 0..n : \A j \in 1..i : old[j] = new[j]}
           p == Max(P)
           Q == {i \in 0..(n - p) : \A j \in 0..(i - 1) : old[m - j] = new[k - j]}
           s == Max(Q)
           before == Min({p, Ctx})
           after == Min({s, Ctx})
           oldEnd == m - s
           newEnd == k - s
<1>1. m \in Nat /\ k \in Nat /\ Ctx \in Nat
  BY LenProperties, SpliceAssumption
<1>2. n = IF m <= k THEN m ELSE k
  <2> HIDE DEF m, k
  <2> QED
    BY <1>1, MinOfTwo
<1> HIDE DEF n
<1>3. n \in Nat /\ n <= m /\ n <= k
  <2> HIDE DEF m, k
  <2> QED
    BY <1>1, <1>2
<1>4. p \in 0..n /\ \A j \in 1..p : old[j] = new[j]
  <2>1. 0 \in P /\ P \in SUBSET (0..n)
    BY <1>3
  <2>2. P # {}
    BY <2>1
  <2>3. p \in P
    <3> HIDE DEF P
    <3> QED
      BY <1>3, <2>1, <2>2, MaxIsIn
  <2> HIDE DEF p
  <2> QED
    BY <2>3
<1> HIDE DEF P, p
<1>5. n - p \in Nat
  BY <1>3, <1>4
<1>6. s \in 0..(n - p) /\ \A j \in 0..(s - 1) : old[m - j] = new[k - j]
  <2>1. 0 \in Q /\ Q \in SUBSET (0..(n - p))
    BY <1>5
  <2>2. Q # {}
    BY <2>1
  <2>3. s \in Q
    <3> HIDE DEF Q
    <3> QED
      BY <1>5, <2>1, <2>2, MaxIsIn
  <2> HIDE DEF s
  <2> QED
    BY <2>3
<1> HIDE DEF Q, s
<1>7. /\ before = IF p <= Ctx THEN p ELSE Ctx
      /\ after = IF s <= Ctx THEN s ELSE Ctx
  BY <1>1, <1>4, <1>6, MinOfTwo
<1> HIDE DEF before, after
<1>8. LineDiff(old, new)
        = Hunk(SubSeq(old, p - before + 1, p), SubSeq(old, p + 1, oldEnd),
               SubSeq(new, p + 1, newEnd), SubSeq(old, oldEnd + 1, oldEnd + after),
               p - before + 1, (oldEnd - p) + before + after, (newEnd - p) + before + after)
  BY DEF LineDiff, before, after, s, Q, p, P, n
<1> HIDE DEF m, k
<1>9. /\ before \in Nat /\ before <= p /\ after \in Nat /\ after <= s
      /\ p \in Nat /\ oldEnd \in Nat /\ newEnd \in Nat
      /\ p <= oldEnd /\ p <= newEnd /\ oldEnd + after <= m /\ newEnd <= k
      /\ p <= m /\ p <= k /\ s <= m /\ s <= k /\ s \in Nat
  BY <1>1, <1>3, <1>4, <1>6, <1>7
<1>10. SubSeq(old, 1, p) = SubSeq(new, 1, p)
  <2>1. /\ 1 \in 1..(m + 1) /\ 1 \in 1..(k + 1) /\ 1 + p - 1 <= m /\ 1 + p - 1 <= k /\ 1 + p - 1 = p
    BY <1>1, <1>9
  <2>2. \A i \in 1..p : old[1 + i - 1] = new[1 + i - 1]
    <3>1. \A i \in 1..p : 1 + i - 1 = i
      OBVIOUS
    <3> QED
      BY <1>4, <3>1
  <2>3. SameParts(old, 1, p, new, 1, p, p)
    BY <1>9, <2>1, <2>2 DEF SameParts, m, k
  <2>4. Part(old, 1, p) = Part(new, 1, p)
    BY <1>0, <2>3, EqualParts
  <2> QED
    BY <2>4 DEF Part
<1>11. SubSeq(old, oldEnd + 1, m) = SubSeq(new, newEnd + 1, k)
  <2>1. /\ oldEnd + 1 \in 1..(m + 1) /\ newEnd + 1 \in 1..(k + 1)
        /\ oldEnd + 1 + s - 1 = m /\ newEnd + 1 + s - 1 = k
        /\ oldEnd + 1 + s - 1 <= m /\ newEnd + 1 + s - 1 <= k
    BY <1>1, <1>9
  <2>2. \A i \in 1..s : old[oldEnd + 1 + i - 1] = new[newEnd + 1 + i - 1]
    <3>1. \A i \in 1..s : /\ s - i \in 0..(s - 1)
                          /\ oldEnd + 1 + i - 1 = m - (s - i)
                          /\ newEnd + 1 + i - 1 = k - (s - i)
      BY <1>1, <1>9
    <3> HIDE DEF oldEnd, newEnd
    <3> QED
      BY <1>6, <3>1
  <2>3. SubSeq(old, oldEnd + 1, oldEnd + 1 + s - 1) = SubSeq(new, newEnd + 1, newEnd + 1 + s - 1)
    <3> DEFINE u == oldEnd + 1
               v == newEnd + 1
               x == u + s - 1
               y == v + s - 1
    <3>1. /\ s \in Nat /\ u \in 1..(Len(old) + 1) /\ v \in 1..(Len(new) + 1)
          /\ x = u + s - 1 /\ x <= Len(old) /\ y = v + s - 1 /\ y <= Len(new)
          /\ \A i \in 1..s : old[u + i - 1] = new[v + i - 1]
      BY <1>9, <2>1, <2>2 DEF m, k
    <3> HIDE DEF u, v, x, y
    <3>2. SameParts(old, u, x, new, v, y, s)
      BY ONLY <3>1 DEF SameParts
    <3>3. Part(old, u, x) = Part(new, v, y)
      BY <1>0, <3>2, EqualParts
    <3> QED
      BY <3>3 DEF Part, u, v, x, y
  <2> QED
    BY <2>1, <2>3
<1> DEFINE start == p - before + 1
           oldCount == (oldEnd - p) + before + after
           newCount == (newEnd - p) + before + after
<1>12. /\ start = p - before + 1
       /\ oldCount = (oldEnd - p) + before + after
       /\ newCount = (newEnd - p) + before + after
  OBVIOUS
<1> HIDE DEF oldEnd, newEnd, start, oldCount, newCount
<1>13. LineDiff(old, new)
        = Hunk(SubSeq(old, p - before + 1, p), SubSeq(old, p + 1, oldEnd),
               SubSeq(new, p + 1, newEnd), SubSeq(old, oldEnd + 1, oldEnd + after),
               start, oldCount, newCount)
  BY <1>8, <1>12
<1>14. /\ p \in Nat /\ oldEnd \in Nat /\ newEnd \in Nat /\ before \in Nat /\ after \in Nat
       /\ before <= p /\ p <= oldEnd /\ oldEnd + after <= Len(old)
       /\ p <= newEnd /\ newEnd <= Len(new)
  BY <1>9 DEF m, k
<1>15. SubSeq(old, oldEnd + 1, Len(old)) = SubSeq(new, newEnd + 1, Len(new))
  BY <1>11 DEF m, k
<1> DEFINE h == LineDiff(old, new)
<1>16. HunkAt(old, new, p, oldEnd, newEnd, before, after, h)
  BY <1>10, <1>12, <1>13, <1>14, <1>15 DEF HunkAt
<1> HIDE DEF h
<1>17. Patched(old, h) = <<new>>
  BY <1>0, <1>16, PatchFits
<1> QED
  BY <1>17 DEF h

-----------------------------------------------------------------------------
\* A sequence, of whatever lines.
IsText(t) == \E S : t \in Seq(S)

\* Two texts, one after the other, are a text.
LEMMA TextJoin ==
    ASSUME NEW s, NEW t, IsText(s), IsText(t)
    PROVE  /\ IsText(s \o t)
           /\ Len(s) \in Nat /\ Len(t) \in Nat
           /\ Len(s \o t) = Len(s) + Len(t)
           /\ \A i \in 1..Len(s) : (s \o t)[i] = s[i]
           /\ \A i \in 1..Len(t) : (s \o t)[Len(s) + i] = t[i]
<1>1. PICK S : s \in Seq(S)
  BY DEF IsText
<1>2. PICK T : t \in Seq(T)
  BY DEF IsText
<1> DEFINE U == S \cup T
<1>3. s \in Seq(U) /\ t \in Seq(U)
  BY <1>1, <1>2, SeqMonotonic
<1>4. Len(s) \in Nat /\ Len(t) \in Nat
  BY <1>1, <1>2, LenProperties
<1> HIDE DEF U
<1>5. /\ s \o t \in Seq(U)
      /\ Len(s \o t) = Len(s) + Len(t)
      /\ \A i \in 1..(Len(s) + Len(t)) : (s \o t)[i] = IF i <= Len(s) THEN s[i] ELSE t[i - Len(s)]
  BY <1>3, ConcatProperties
<1>6. \A i \in 1..Len(s) : i \in 1..(Len(s) + Len(t)) /\ i <= Len(s)
  BY <1>4
<1>7. \A i \in 1..Len(t) : /\ Len(s) + i \in 1..(Len(s) + Len(t))
                           /\ ~(Len(s) + i <= Len(s)) /\ Len(s) + i - Len(s) = i
  BY <1>4
<1> DEFINE j == s \o t
<1>8. \A i \in 1..Len(s) : j[i] = s[i]
  <2> HIDE DEF j
  <2> QED
    BY <1>5, <1>6 DEF j
<1>9. \A i \in 1..Len(t) : j[Len(s) + i] = t[i]
  <2> HIDE DEF j
  <2> QED
    BY <1>5, <1>7 DEF j
<1> QED
  BY <1>4, <1>5, <1>8, <1>9 DEF IsText

\* A part of a text is a text.
LEMMA TextPart ==
    ASSUME NEW t, IsText(t), NEW m \in 1..(Len(t) + 1), NEW n \in (m - 1)..Len(t)
    PROVE  /\ IsText(SubSeq(t, m, n))
           /\ Len(SubSeq(t, m, n)) = n - m + 1
           /\ \A i \in 1..(n - m + 1) : SubSeq(t, m, n)[i] = t[m + i - 1]
<1>1. PICK S : t \in Seq(S)
  BY DEF IsText
<1> QED
  BY <1>1, PartOf DEF IsText

\* What the program sees of a text.
LEMMA ContentsOfText ==
    ASSUME NEW t, IsText(t)
    PROVE  /\ IsText(Contents(t))
           /\ Len(Contents(t)) = Len(t)
           /\ Len(t) \in Nat
           /\ \A i \in 1..Len(t) : Contents(t)[i] = Seen(t[i])
<1>1. PICK S : t \in Seq(S)
  BY DEF IsText
<1>2. Len(t) \in Nat /\ DOMAIN t = 1..Len(t)
  BY <1>1, LenProperties
<1> DEFINE c == [i \in 1..Len(t) |-> Seen(t[i])]
           V == {Seen(t[i]) : i \in 1..Len(t)}
<1>3. Contents(t) = c
  BY <1>2 DEF Contents
<1>4. c \in Seq(V) /\ Len(c) = Len(t)
  BY <1>2
<1> QED
  BY <1>2, <1>3, <1>4 DEF IsText

\* A text made from another line by line.
LEMMA MappedText ==
    ASSUME NEW t, IsText(t), NEW u, DOMAIN u = DOMAIN t, u = [k \in DOMAIN u |-> u[k]]
    PROVE  IsText(u) /\ Len(u) = Len(t)
<1>1. PICK S : t \in Seq(S)
  BY DEF IsText
<1>2. Len(t) \in Nat /\ DOMAIN t = 1..Len(t)
  BY <1>1, LenProperties
<1> DEFINE V == {u[i] : i \in 1..Len(t)}
<1>3. u \in [1..Len(t) -> V]
  BY <1>2
<1>4. u \in Seq(V) /\ Len(u) = Len(t)
  BY <1>2, <1>3
<1> QED
  BY <1>4 DEF IsText

\* So is no line.
LEMMA EmptyText == IsText(<<>>) /\ Len(<<>>) = 0
BY DEF IsText

\* One line is a text.
LEMMA OneLine ==
    ASSUME NEW l
    PROVE  IsText(<<l>>) /\ Len(<<l>>) = 1
<1>1. <<l>> \in Seq({l})
  OBVIOUS
<1> QED
  BY <1>1 DEF IsText

\* Only the empty text has no lines.
LEMMA EmptyIffShort ==
    ASSUME NEW t, IsText(t)
    PROVE  Len(t) \in Nat /\ (t = <<>> <=> Len(t) = 0)
<1>1. PICK S : t \in Seq(S)
  BY DEF IsText
<1> QED
  BY <1>1, LenProperties, EmptySeq

\* A body that is moved to the right keeps its lines.
LEMMA ReindentedText ==
    ASSUME NEW body, IsText(body), NEW ind
    PROVE  IsText(ReindentBlock(body, ind)) /\ Len(ReindentBlock(body, ind)) = Len(body)
<1> DEFINE u == ReindentBlock(body, ind)
<1>1. DOMAIN u = DOMAIN body /\ u = [k \in DOMAIN u |-> u[k]]
  BY DEF ReindentBlock
<1> HIDE DEF u
<1>2. IsText(u) /\ Len(u) = Len(body)
  BY <1>1, MappedText
<1> QED
  BY <1>2 DEF u

\* The body of an edit is a text.
LEMMA AuthoredText ==
    ASSUME NEW t, NEW body, IsText(body), NEW id, NEW own
    PROVE  IsText(Authored(t, body, id, own)) /\ Len(Authored(t, body, id, own)) = Len(body)
<1> DEFINE u == Authored(t, body, id, own)
<1>1. DOMAIN u = DOMAIN body /\ u = [k \in DOMAIN u |-> u[k]]
  BY DEF Authored
<1> HIDE DEF u
<1>2. IsText(u) /\ Len(u) = Len(body)
  BY <1>1, MappedText
<1> QED
  BY <1>2 DEF u

-----------------------------------------------------------------------------
\* len lines of new are in the place of lines first..last of t.
PutIn(t, first, last, len, new) ==
    /\ IsText(new)
    /\ first \in 1..Len(t) /\ last \in first..Len(t) /\ len \in Nat
    /\ Len(new) = Len(t) - (last - first + 1) + len
    /\ \A i \in 1..(first - 1) : new[i] = t[i]
    /\ \A i \in 1..(Len(t) - last) : new[first - 1 + len + i] = t[last + i]

\* A replacement puts the body where the symbol was.
LEMMA ReplacedLines ==
    ASSUME NEW t, IsText(t), NEW s \in Symbols(t), NEW body, IsText(body),
           NEW len, len = Max({Len(body), 1}), NEW new, new = Replaced(t, s, body)
    PROVE  PutIn(t, s.start, s.end, len, new)
<1> DEFINE first == s.start
           last == s.end
           n == Len(t)
           mid == IF body = <<>>
                  THEN <<[Blank EXCEPT !.id = s.id, !.own = t[s.start].own]>>
                  ELSE Authored(t, body, s.id, t[s.start].own)
           head == SubSeq(t, 1, first - 1)
           tail == SubSeq(t, last + 1, n)
<1>1. first \in 1..n /\ last \in first..n /\ n \in Nat
  BY SymbolsWithin, EmptyIffShort DEF IsText
<1>2. IsText(mid) /\ Len(mid) = len /\ len \in Nat
  <2>1. Len(body) \in Nat /\ (body = <<>> <=> Len(body) = 0)
    BY EmptyIffShort
  <2>2. len = IF Len(body) <= 1 THEN 1 ELSE Len(body)
    BY <2>1, MaxOfTwo
  <2>3. CASE body = <<>>
    <3>1. mid = <<[Blank EXCEPT !.id = s.id, !.own = t[s.start].own]>>
      BY <2>3
    <3> HIDE DEF mid
    <3>2. IsText(mid) /\ Len(mid) = 1
      BY <3>1, OneLine
    <3> QED
      BY <2>1, <2>2, <2>3, <3>2
  <2>4. CASE body # <<>>
    <3>1. mid = Authored(t, body, s.id, t[s.start].own)
      BY <2>4
    <3> HIDE DEF mid
    <3>2. IsText(mid) /\ Len(mid) = Len(body)
      BY <3>1, AuthoredText
    <3> QED
      BY <2>1, <2>2, <2>4, <3>2
  <2> QED
    BY <2>3, <2>4
<1>3. new = head \o mid \o tail
  BY DEF Replaced
<1> HIDE DEF first, last, n, mid
<1>4. /\ 1 \in 1..(n + 1) /\ first - 1 \in (1 - 1)..n /\ (first - 1) - 1 + 1 = first - 1
      /\ last + 1 \in 1..(n + 1) /\ n \in ((last + 1) - 1)..n /\ n - (last + 1) + 1 = n - last
      /\ first - 1 \in Nat /\ n - last \in Nat
  BY <1>1
<1>5. IsText(head) /\ Len(head) = first - 1 /\ \A i \in 1..(first - 1) : head[i] = t[i]
  <2>1. \A i \in 1..(first - 1) : 1 + i - 1 = i
    BY <1>1
  <2>2. IsText(head) /\ Len(head) = first - 1 /\ \A i \in 1..(first - 1) : head[i] = t[1 + i - 1]
    BY <1>4, TextPart DEF n
  <2> HIDE DEF head
  <2> QED
    BY <2>1, <2>2
<1>6. IsText(tail) /\ Len(tail) = n - last /\ \A i \in 1..(n - last) : tail[i] = t[last + i]
  <2>1. \A i \in 1..(n - last) : last + 1 + i - 1 = last + i
    BY <1>1
  <2>2. IsText(tail) /\ Len(tail) = n - last /\ \A i \in 1..(n - last) : tail[i] = t[last + 1 + i - 1]
    BY <1>4, TextPart DEF n
  <2> HIDE DEF tail
  <2> QED
    BY <2>1, <2>2
<1> HIDE DEF head, tail
<1> DEFINE front == head \o mid
<1>7. /\ IsText(front) /\ Len(front) = (first - 1) + len
      /\ \A i \in 1..(first - 1) : front[i] = t[i]
  BY <1>2, <1>5, TextJoin
<1> HIDE DEF front
<1>8. /\ IsText(new) /\ Len(new) = (first - 1) + len + (n - last)
      /\ \A i \in 1..((first - 1) + len) : new[i] = front[i]
      /\ \A i \in 1..(n - last) : new[(first - 1) + len + i] = t[last + i]
  <2> DEFINE j == front \o tail
  <2>1. new = j
    BY <1>3 DEF front
  <2>2. /\ IsText(j) /\ Len(j) = Len(front) + Len(tail)
        /\ \A i \in 1..Len(front) : j[i] = front[i]
        /\ \A i \in 1..Len(tail) : j[Len(front) + i] = tail[i]
    <3>1. IsText(front) /\ IsText(tail)
      BY <1>6, <1>7
    <3> QED
      BY ONLY <3>1, TextJoin
  <2> HIDE DEF j
  <2>3. \A i \in 1..(n - last) : j[(first - 1) + len + i] = tail[i]
    BY <1>6, <1>7, <2>2
  <2> QED
    BY <1>6, <1>7, <2>1, <2>2, <2>3
<1>9. \A i \in 1..(first - 1) : new[i] = t[i]
  <2>1. \A i \in 1..(first - 1) : i \in 1..((first - 1) + len)
    BY <1>2, <1>4
  <2> QED
    BY <1>7, <1>8, <2>1
<1>10. Len(new) = n - (last - first + 1) + len
  BY <1>1, <1>2, <1>8
<1>11. \A i \in 1..(n - last) : new[first - 1 + len + i] = t[last + i]
  BY <1>8
<1>12. PutIn(t, first, last, len, new)
  BY <1>1, <1>2, <1>8, <1>9, <1>10, <1>11 DEF PutIn, n
<1> QED
  BY <1>12 DEF first, last

\* The hunk shown for a replacement is the replacement.
LEMMA ReplaceShowsChange ==
    ASSUME NEW t, IsText(t), NEW s \in Symbols(t), NEW body, IsText(body),
           NEW len, len = Max({Len(body), 1}), NEW new, new = Replaced(t, s, body)
    PROVE  /\ IsText(new)
           /\ Patched(Contents(t), UnifiedDiff(Contents(t), Contents(new), s.start, s.end, len))
                = <<Contents(new)>>
<1> DEFINE first == s.start
           last == s.end
           n == Len(t)
           k == Len(new)
           c == Contents(t)
           d == Contents(new)
<1>1. /\ IsText(new) /\ first \in 1..n /\ last \in first..n /\ len \in Nat
      /\ k = n - (last - first + 1) + len
      /\ \A i \in 1..(first - 1) : new[i] = t[i]
      /\ \A i \in 1..(n - last) : new[first - 1 + len + i] = t[last + i]
  <2>1. PutIn(t, s.start, s.end, len, new)
    BY ReplacedLines
  <2> QED
    BY <2>1 DEF PutIn
<1>2. /\ IsText(c) /\ Len(c) = n /\ n \in Nat /\ \A i \in 1..n : c[i] = Seen(t[i])
      /\ IsText(d) /\ Len(d) = k /\ k \in Nat /\ \A i \in 1..k : d[i] = Seen(new[i])
  BY <1>1, ContentsOfText
<1> HIDE DEF first, last, n, k, c, d
<1>3. PICK S : c \in Seq(S) /\ d \in Seq(S)
  <2>1. PICK S1 : c \in Seq(S1)
    BY <1>2 DEF IsText
  <2>2. PICK S2 : d \in Seq(S2)
    BY <1>2 DEF IsText
  <2>3. c \in Seq(S1 \cup S2) /\ d \in Seq(S1 \cup S2)
    BY <2>1, <2>2, SeqMonotonic
  <2> QED
    BY <2>3
<1>4. SubSeq(c, 1, first - 1) = SubSeq(d, 1, first - 1)
  <2> DEFINE p == first - 1
  <2>1. /\ p \in Nat /\ 1 \in 1..(n + 1) /\ 1 \in 1..(k + 1)
        /\ p = 1 + p - 1 /\ p <= n /\ p <= k
    BY <1>1, <1>2
  <2>2. \A i \in 1..p : c[1 + i - 1] = d[1 + i - 1]
    <3>1. \A i \in 1..p : 1 + i - 1 = i /\ i \in 1..n /\ i \in 1..k
      BY <2>1, <1>2
    <3>2. \A i \in 1..p : new[i] = t[i]
      BY <1>1
    <3> HIDE DEF p
    <3>3. \A i \in 1..p : c[i] = d[i]
      BY <1>2, <3>1, <3>2
    <3> QED
      BY <3>1, <3>3
  <2> HIDE DEF p
  <2>3. SameParts(c, 1, p, d, 1, p, p)
    BY <1>2, <2>1, <2>2 DEF SameParts
  <2>4. Part(c, 1, p) = Part(d, 1, p)
    BY <1>3, <2>3, EqualParts
  <2> QED
    BY <2>4 DEF Part, p
<1>5. SubSeq(c, last + 1, n) = SubSeq(d, first + len, k)
  <2> DEFINE p == n - last
             x == last + 1
             y == first + len
  <2>1. /\ p \in Nat /\ x \in 1..(n + 1) /\ n = x + p - 1 /\ n <= n
        /\ y \in 1..(k + 1) /\ k = y + p - 1 /\ k <= k
    BY <1>1, <1>2
  <2>2. \A i \in 1..p : c[x + i - 1] = d[y + i - 1]
    <3>1. \A i \in 1..p : /\ x + i - 1 = last + i /\ x + i - 1 \in 1..n
                          /\ y + i - 1 = first - 1 + len + i /\ y + i - 1 \in 1..k
      BY <1>1, <1>2
    <3>2. \A i \in 1..p : new[first - 1 + len + i] = t[last + i]
      BY <1>1
    <3> HIDE DEF p, x, y
    <3>3. \A i \in 1..p : c[x + i - 1] = Seen(t[last + i]) /\ d[y + i - 1] = Seen(new[first - 1 + len + i])
      BY <1>2, <3>1
    <3> QED
      BY <3>2, <3>3
  <2> HIDE DEF p, x, y
  <2>3. SameParts(c, x, n, d, y, k, p)
    BY <1>2, <2>1, <2>2 DEF SameParts
  <2>4. Part(c, x, n) = Part(d, y, k)
    BY <1>3, <2>3, EqualParts
  <2> QED
    BY <2>4 DEF Part, x, y
<1>6. Patched(c, UnifiedDiff(c, d, first, last, len)) = <<d>>
  <2>1. /\ first \in 1..Len(c) /\ last \in first..Len(c)
        /\ Len(d) = Len(c) - (last - first + 1) + len
        /\ SubSeq(c, last + 1, Len(c)) = SubSeq(d, first + len, Len(d))
    BY <1>1, <1>2, <1>5
  <2> QED
    BY <1>1, <1>3, <1>4, <2>1, UnifiedDiffFits
<1> QED
  BY <1>1, <1>6 DEF first, last, c, d

\* Any change that is shown as the difference of two texts.
LEMMA LineDiffShowsChange ==
    ASSUME NEW t, IsText(t), NEW new, IsText(new)
    PROVE  Patched(Contents(t), LineDiff(Contents(t), Contents(new))) = <<Contents(new)>>
<1>1. IsText(Contents(t)) /\ IsText(Contents(new))
  BY ContentsOfText
<1>2. PICK S1 : Contents(t) \in Seq(S1)
  BY <1>1 DEF IsText
<1>3. PICK S2 : Contents(new) \in Seq(S2)
  BY <1>1 DEF IsText
<1> DEFINE S == S1 \cup S2
<1>4. Contents(t) \in Seq(S) /\ Contents(new) \in Seq(S)
  BY <1>2, <1>3, SeqMonotonic
<1> QED
  BY <1>4, LineDiffFits

\* A deletion leaves a text.
LEMMA DeletedText ==
    ASSUME NEW t, IsText(t), NEW s \in Symbols(t)
    PROVE  IsText(Deleted(t, s))
<1> DEFINE n == Len(t)
           top == TriviaTop(t, s.start)
           next == IF s.end < n /\ IsBlank(t[s.end + 1]) THEN s.end + 2 ELSE s.end + 1
<1>1. s.start \in 1..n /\ s.end \in s.start..n /\ n \in Nat
  BY SymbolsWithin, EmptyIffShort DEF IsText
<1>2. top \in 1..s.start
  BY <1>1, TriviaTopWithin DEF IsText
<1>3. next \in 1..(n + 1) /\ n \in (next - 1)..n
  <2> HIDE DEF n
  <2> QED
    BY <1>1
<1> HIDE DEF top, next
<1>4. 1 \in 1..(n + 1) /\ top - 1 \in (1 - 1)..n
  BY <1>1, <1>2
<1>5. IsText(SubSeq(t, 1, top - 1)) /\ IsText(SubSeq(t, next, n))
  BY <1>3, <1>4, TextPart
<1> DEFINE x == SubSeq(t, 1, top - 1)
           y == SubSeq(t, next, n)
<1>6. Deleted(t, s) = x \o y
  BY DEF Deleted, top, next
<1> HIDE DEF x, y
<1>7. IsText(x) /\ IsText(y)
  BY <1>5 DEF x, y
<1> QED
  BY <1>6, <1>7, TextJoin

\* An insertion leaves a text.
LEMMA InsertedText ==
    ASSUME NEW t, IsText(t), NEW at \in 0..Len(t), NEW block, IsText(block), NEW last
    PROVE  IsText(Inserted(t, at, block, last))
<1> DEFINE n == Len(t)
           x == SubSeq(t, 1, at)
           y == SubSeq(t, at + 1, n)
           b == <<Blank>>
           z == b \o block
           mid == IF at = n /\ ~last THEN block ELSE z
<1>1. n \in Nat
  BY EmptyIffShort
<1>2. 1 \in 1..(n + 1) /\ at \in (1 - 1)..n /\ at + 1 \in 1..(n + 1) /\ n \in ((at + 1) - 1)..n
  BY <1>1
<1>3. IsText(x) /\ IsText(y)
  BY <1>2, TextPart
<1>4. IsText(mid)
  <2>1. IsText(b)
    BY OneLine
  <2> HIDE DEF b
  <2>2. IsText(z)
    BY <2>1, TextJoin
  <2> HIDE DEF z
  <2> QED
    BY <2>2
<1>5. Inserted(t, at, block, last) = x \o mid \o y
  BY DEF Inserted
<1> HIDE DEF x, y, mid
<1> DEFINE u == x \o mid
<1>6. IsText(u)
  BY <1>3, <1>4, TextJoin
<1> HIDE DEF u
<1>7. IsText(u \o y)
  BY <1>3, <1>6, TextJoin
<1> QED
  BY <1>5, <1>7 DEF u

\* The lines above a symbol end in the text.
LEMMA LinesBeforeWithin ==
    ASSUME NEW t, IsText(t), NEW s \in Symbols(t), NEW place \in Places
    PROVE  LinesBefore(t, place, s) \in 0..Len(t)
<1>1. s.start \in 1..Len(t) /\ s.end \in s.start..Len(t) /\ Len(t) \in Nat
  BY SymbolsWithin, EmptyIffShort DEF IsText
<1>2. TriviaTop(t, s.start) \in 1..s.start
  BY <1>1, TriviaTopWithin DEF IsText
<1>3. CASE place = "after"
  BY <1>1, <1>3 DEF LinesBefore
<1>4. CASE place = "before"
  BY <1>1, <1>2, <1>4 DEF LinesBefore
<1>5. CASE place = "into"
  BY <1>1, <1>5 DEF LinesBefore
<1> QED
  BY <1>3, <1>4, <1>5 DEF Places

-----------------------------------------------------------------------------
\* The text is one of a language there is.
SpliceInv == lang \in DOMAIN Originals /\ IsText(text)

\* A text of the repository is a text.
LEMMA SpliceInitInvariant == SpliceInit => SpliceInv
<1> SUFFICES ASSUME SpliceInit
             PROVE  SpliceInv
  OBVIOUS
<1>1. lang \in DOMAIN Originals /\ text \in Seq(TextLine)
  BY SpliceAssumption DEF SpliceInit
<1> QED
  BY <1>1 DEF SpliceInv, IsText

\* What a name is resolved to is a symbol of the text.
LEMMA ResolvedIsSymbol ==
    ASSUME NEW t, NEW container, NEW name, NEW want, NEW s \in ResolveSpan(t, container, name, want)
    PROVE  s \in Symbols(t)
BY DEF ResolveSpan, Candidates

\* The bodies an edit brings are texts.
LEMMA BodyIsText ==
    ASSUME SpliceInv, NEW body \in Bodies[lang] \cup {<<>>}
    PROVE  IsText(body)
<1>1. CASE body = <<>>
  BY <1>1, EmptyText
<1>2. CASE body \in Bodies[lang]
  <2>1. body \in Seq(BodyLine)
    BY <1>2, SpliceAssumption DEF SpliceInv
  <2> QED
    BY <2>1 DEF IsText
<1> QED
  BY <1>1, <1>2

\* Every edit leaves a text and shows what it changed.
LEMMA SpliceNextShowsChange ==
    ASSUME SpliceInv, SpliceNext
    PROVE  SpliceInv' /\ Patched(Contents(text), diff') = <<Contents(text')>>
<1>0. lang \in DOMAIN Originals /\ IsText(text)
  BY DEF SpliceInv
<1>1. ASSUME NEW container, NEW name, NEW want, Delete(container, name, want)
      PROVE  SpliceInv' /\ Patched(Contents(text), diff') = <<Contents(text')>>
  <2>1. PICK s \in ResolveSpan(text, container, name, want) :
            /\ text' = Deleted(text, s)
            /\ diff' = LineDiff(Contents(text), Contents(Deleted(text, s)))
    BY <1>1 DEF Delete
  <2>2. IsText(text') /\ lang' = lang
    BY <1>0, <1>1, <2>1, ResolvedIsSymbol, DeletedText DEF Delete
  <2>3. diff' = LineDiff(Contents(text), Contents(text'))
    BY <2>1
  <2> QED
    BY <1>0, <2>2, <2>3, LineDiffShowsChange DEF SpliceInv
<1>2. ASSUME NEW container, NEW name, NEW want, NEW body \in Bodies[lang] \cup {<<>>},
             Replace(container, name, want, body)
      PROVE  SpliceInv' /\ Patched(Contents(text), diff') = <<Contents(text')>>
  <2>1. PICK s \in ResolveSpan(text, container, name, want) :
            /\ text' = Replaced(text, s, body)
            /\ diff' = UnifiedDiff(Contents(text), Contents(Replaced(text, s, body)),
                           s.start, s.end, Max({Len(body), 1}))
    BY <1>2 DEF Replace
  <2> DEFINE new == Replaced(text, s, body)
             len == Max({Len(body), 1})
  <2>2. IsText(body)
    BY BodyIsText
  <2>3. s \in Symbols(text)
    BY ResolvedIsSymbol
  <2>4. text' = new /\ diff' = UnifiedDiff(Contents(text), Contents(new), s.start, s.end, len)
    BY <2>1
  <2>5. /\ IsText(new)
        /\ Patched(Contents(text), UnifiedDiff(Contents(text), Contents(new), s.start, s.end, len))
             = <<Contents(new)>>
    BY <1>0, <2>2, <2>3, ReplaceShowsChange
  <2>6. lang' = lang
    BY <1>2 DEF Replace
  <2> HIDE DEF new, len
  <2> QED
    BY <1>0, <2>4, <2>5, <2>6 DEF SpliceInv
<1>3. ASSUME NEW container, NEW name, NEW want, NEW body \in Bodies[lang], NEW place \in Places,
             Insert(container, name, want, place, body)
      PROVE  SpliceInv' /\ Patched(Contents(text), diff') = <<Contents(text')>>
  <2>1. PICK s \in ResolveSpan(text, container, name, want) :
            LET at == LinesBefore(text, place, s)
                block == Authored(text, ReindentBlock(body, IndentAt(text, place, s, at)),
                                  FreshId(text), Meant(text, place, s))
            IN  /\ text' = Inserted(text, at, block, eol)
                /\ diff' = LineDiff(Contents(text), Contents(Inserted(text, at, block, eol)))
    BY <1>3 DEF Insert
  <2> DEFINE at == LinesBefore(text, place, s)
             shifted == ReindentBlock(body, IndentAt(text, place, s, at))
             block == Authored(text, shifted, FreshId(text), Meant(text, place, s))
  <2>2. at \in 0..Len(text)
    BY <1>0, ResolvedIsSymbol, LinesBeforeWithin
  <2>3. IsText(shifted)
    BY BodyIsText, ReindentedText
  <2>4. IsText(block)
    <3> HIDE DEF shifted
    <3> QED
      BY <2>3, AuthoredText
  <2>5. text' = Inserted(text, at, block, eol)
    BY <2>1
  <2>6. diff' = LineDiff(Contents(text), Contents(text'))
    BY <2>1, <2>5
  <2> HIDE DEF at, block
  <2>7. IsText(text') /\ lang' = lang
    BY <1>0, <1>3, <2>2, <2>4, <2>5, InsertedText DEF Insert
  <2> QED
    BY <1>0, <2>6, <2>7, LineDiffShowsChange DEF SpliceInv
<1>4. ASSUME NEW body \in Bodies[lang], InsertEnd(body)
      PROVE  SpliceInv' /\ Patched(Contents(text), diff') = <<Contents(text')>>
  <2> DEFINE shifted == ReindentBlock(body, 0)
             block == Authored(text, shifted, FreshId(text), {})
  <2>1. IsText(shifted)
    BY BodyIsText, ReindentedText
  <2>2. IsText(block)
    <3> HIDE DEF shifted
    <3> QED
      BY <2>1, AuthoredText
  <2>3. text' = Inserted(text, Len(text), block, eol)
    BY <1>4 DEF InsertEnd
  <2>4. diff' = LineDiff(Contents(text), Contents(text'))
    BY <1>4 DEF InsertEnd
  <2> HIDE DEF block
  <2>5. Len(text) \in 0..Len(text)
    BY <1>0, EmptyIffShort
  <2>6. IsText(text') /\ lang' = lang
    BY <1>0, <1>4, <2>2, <2>3, <2>5, InsertedText DEF InsertEnd
  <2> QED
    BY <1>0, <2>4, <2>6, LineDiffShowsChange DEF SpliceInv
<1> QED
  BY <1>1, <1>2, <1>3, <1>4 DEF SpliceNext

\* Whatever is edited how often, and whatever the parser makes of the text:
\* the hunk shown for an edit, applied to the old text, gives the new one.
THEOREM DiffsAreTheChange == SpliceSpec => DiffIsTheChange
<1>1. SpliceInv /\ [SpliceNext]_spliceVars => SpliceInv'
  <2>1. SpliceInv /\ UNCHANGED spliceVars => SpliceInv'
    BY DEF SpliceInv, IsText, spliceVars
  <2> QED
    BY <2>1, SpliceNextShowsChange
<1>2. SpliceInv /\ [SpliceNext]_spliceVars
          => [Patched(Contents(text), diff') = <<Contents(text')>>]_spliceVars
  BY SpliceNextShowsChange
<1> QED
  BY <1>1, <1>2, SpliceInitInvariant, PTL DEF SpliceSpec, DiffIsTheChange

-----------------------------------------------------------------------------
(***************************************************************************)
(* The spans of definitions after an edit. Where blocks end with a closing *)
(* line they are read off the depth of each line; where they go by         *)
(* indentation, off what is deeper. Either way an edit that fits moves no  *)
(* other line into or out of a definition.                                 *)
(***************************************************************************)

\* How many blocks are open after line j, where blocks end with a closing line.
Depth(t, j) == CountIn(t, Openers, 1, j) - CountIn(t, {"close"}, 1, j)

\* What line j adds to a count.
Counts(t, K, j) == IF t[j].kind \in K THEN 1 ELSE 0

\* Lines are counted one by one.
LEMMA CountStep ==
    ASSUME NEW t, NEW K, NEW i \in Nat \ {0}, NEW j \in Nat, i <= j + 1
    PROVE  /\ CountIn(t, K, i, j) \in Nat
           /\ CountIn(t, K, i, i - 1) = 0
           /\ CountIn(t, K, i, j + 1)
                = CountIn(t, K, i, j) + Counts(t, K, j + 1)
<1> USE DEF Counts
<1> DEFINE A == {k \in i..j : t[k].kind \in K}
           B == {k \in i..(j + 1) : t[k].kind \in K}
           C == {k \in i..(i - 1) : t[k].kind \in K}
<1>1. IsFiniteSet(A) /\ Cardinality(A) \in Nat
  <2>1. IsFiniteSet(i..j)
    BY FS_Interval
  <2>2. A \subseteq i..j
    OBVIOUS
  <2> HIDE DEF A
  <2> QED
    BY <2>1, <2>2, FS_Subset, FS_CardinalityType
<1>2. j + 1 \notin A
  OBVIOUS
<1>3. B = IF t[j + 1].kind \in K THEN A \cup {j + 1} ELSE A
  <2>1. i..(j + 1) = (i..j) \cup {j + 1}
    OBVIOUS
  <2> QED
    BY <2>1
<1>4. C = {}
  OBVIOUS
<1>5. CountIn(t, K, i, j) = Cardinality(A) /\ CountIn(t, K, i, j + 1) = Cardinality(B)
      /\ CountIn(t, K, i, i - 1) = Cardinality(C)
  BY DEF CountIn
<1> HIDE DEF A, B, C
<1>6. CASE t[j + 1].kind \in K
  <2>1. Cardinality(B) = Cardinality(A) + 1
    BY <1>1, <1>2, <1>3, <1>6, FS_AddElement
  <2> QED
    BY <1>1, <1>4, <1>5, <1>6, <2>1, FS_EmptySet
<1>7. CASE t[j + 1].kind \notin K
  <2>1. Cardinality(B) = Cardinality(A) + 0
    BY <1>1, <1>3, <1>7
  <2> QED
    BY <1>1, <1>4, <1>5, <1>7, <2>1, FS_EmptySet
<1> QED
  BY <1>6, <1>7

\* What is counted between two lines is the difference of what is counted before.
LEMMA CountSplit ==
    ASSUME NEW t, NEW K, NEW i \in Nat \ {0}, NEW j \in Nat, i <= j + 1
    PROVE  CountIn(t, K, i, j) = CountIn(t, K, 1, j) - CountIn(t, K, 1, i - 1)
<1> DEFINE c(a, b) == CountIn(t, K, a, b)
           S == {d \in Nat : c(i, i - 1 + d) = c(1, i - 1 + d) - c(1, i - 1)}
<1>1. \A a \in Nat : c(1, a) \in Nat
  <2> SUFFICES ASSUME NEW a \in Nat
               PROVE  c(1, a) \in Nat
    OBVIOUS
  <2>1. 1 \in Nat \ {0} /\ 1 <= a + 1
    OBVIOUS
  <2> QED
    BY <2>1, CountStep
<1>2. i - 1 \in Nat /\ j - (i - 1) \in Nat
  OBVIOUS
<1>3. 0 \in S
  <2>1. c(i, i - 1) = 0 /\ i - 1 + 0 = i - 1
    BY CountStep
  <2> HIDE DEF c
  <2> QED
    BY <1>1, <1>2, <2>1
<1>4. ASSUME NEW d \in Nat, d \in S
      PROVE  d + 1 \in S
  <2> DEFINE b == i - 1 + d
             more == Counts(t, K, b + 1)
  <2>1. b \in Nat /\ i <= b + 1 /\ 1 <= b + 1 /\ 1 \in Nat \ {0} /\ i - 1 + (d + 1) = b + 1
    OBVIOUS
  <2>4. c(i, b) = c(1, b) - c(1, i - 1)
    BY <1>4
  <2>5. more \in Nat
    BY DEF Counts
  <2> HIDE DEF b
  <2>2. c(i, b) \in Nat /\ c(i, b + 1) = c(i, b) + more
    BY <2>1, CountStep
  <2>3. c(1, b) \in Nat /\ c(1, b + 1) = c(1, b) + more
    BY <2>1, CountStep
  <2> HIDE DEF c, more
  <2>6. c(i, b + 1) = c(1, b + 1) - c(1, i - 1)
    BY <1>1, <1>2, <2>2, <2>3, <2>4, <2>5
  <2> QED
    BY <2>1, <2>6
<1>5. j - (i - 1) \in S
  <2> HIDE DEF S
  <2> QED
    BY <1>2, <1>3, <1>4, NaturalInduction
<1>6. i - 1 + (j - (i - 1)) = j
  OBVIOUS
<1> HIDE DEF c
<1>7. c(i, j) = c(1, j) - c(1, i - 1)
  BY <1>5, <1>6
<1> QED
  BY <1>7 DEF c

\* A line opens a block, closes one, or does neither.
LEMMA DepthStep ==
    ASSUME NEW t, NEW j \in Nat
    PROVE  /\ Depth(t, j) \in Int /\ Depth(t, 0) = 0
           /\ t[j + 1].kind \in Openers => Depth(t, j + 1) = Depth(t, j) + 1
           /\ t[j + 1].kind = "close" => Depth(t, j + 1) = Depth(t, j) - 1
           /\ t[j + 1].kind \notin Openers \cup {"close"} => Depth(t, j + 1) = Depth(t, j)
<1>1. 1 \in Nat \ {0} /\ 1 <= j + 1 /\ 1 - 1 = 0
  OBVIOUS
<1> DEFINE a(n) == CountIn(t, Openers, 1, n)
           b(n) == CountIn(t, {"close"}, 1, n)
<1>2. /\ a(j) \in Nat /\ a(1 - 1) = 0
      /\ a(j + 1) = a(j) + Counts(t, Openers, j + 1)
  BY <1>1, CountStep
<1>3. /\ b(j) \in Nat /\ b(1 - 1) = 0
      /\ b(j + 1) = b(j) + Counts(t, {"close"}, j + 1)
  BY <1>1, CountStep
<1>4. Depth(t, j) = a(j) - b(j) /\ Depth(t, j + 1) = a(j + 1) - b(j + 1) /\ Depth(t, 0) = a(0) - b(0)
  BY DEF Depth
<1>5. "close" \notin Openers
  BY DEF Openers
<1> HIDE DEF a, b
<1> QED
  BY <1>1, <1>2, <1>3, <1>4, <1>5 DEF Counts

\* As many blocks are opened as closed between two lines of the same depth.
LEMMA DepthBetween ==
    ASSUME NEW t, NEW i \in Nat \ {0}, NEW j \in Nat, i <= j + 1
    PROVE  CountIn(t, Openers, i, j) = CountIn(t, {"close"}, i, j)
               <=> Depth(t, j) = Depth(t, i - 1)
<1>1. 1 \in Nat \ {0} /\ 1 <= j + 1 /\ 1 <= i - 1 + 1 /\ i - 1 \in Nat
  OBVIOUS
<1> DEFINE a(n) == CountIn(t, Openers, 1, n)
           b(n) == CountIn(t, {"close"}, 1, n)
<1>2. a(j) \in Nat /\ a(i - 1) \in Nat /\ b(j) \in Nat /\ b(i - 1) \in Nat
  BY <1>1, CountStep
<1>3. CountIn(t, Openers, i, j) = a(j) - a(i - 1) /\ CountIn(t, {"close"}, i, j) = b(j) - b(i - 1)
  BY CountSplit
<1>4. Depth(t, j) = a(j) - b(j) /\ Depth(t, i - 1) = a(i - 1) - b(i - 1)
  BY DEF Depth
<1> HIDE DEF a, b
<1> QED
  BY <1>2, <1>3, <1>4

\* A line changes the depth by at most one.
LEMMA DepthMoves ==
    ASSUME NEW t, NEW j \in Nat \ {0}
    PROVE  /\ Depth(t, j) \in Int /\ Depth(t, j - 1) \in Int
           /\ Depth(t, j) >= Depth(t, j - 1) - 1 /\ Depth(t, j) <= Depth(t, j - 1) + 1
           /\ t[j].kind \in Openers <=> Depth(t, j) = Depth(t, j - 1) + 1
           /\ t[j].kind = "close" <=> Depth(t, j) = Depth(t, j - 1) - 1
<1>1. j - 1 \in Nat /\ (j - 1) + 1 = j
  OBVIOUS
<1> DEFINE i == j - 1
<1>2. i \in Nat /\ i + 1 = j
  BY <1>1
<1> HIDE DEF i
<1>3. /\ Depth(t, i) \in Int
      /\ t[i + 1].kind \in Openers => Depth(t, i + 1) = Depth(t, i) + 1
      /\ t[i + 1].kind = "close" => Depth(t, i + 1) = Depth(t, i) - 1
      /\ t[i + 1].kind \notin Openers \cup {"close"} => Depth(t, i + 1) = Depth(t, i)
  BY <1>2, DepthStep
<1>4. "close" \notin Openers
  BY DEF Openers
<1>5. /\ Depth(t, j) \in Int
      /\ Depth(t, j) >= Depth(t, i) - 1 /\ Depth(t, j) <= Depth(t, i) + 1
      /\ t[j].kind \in Openers <=> Depth(t, j) = Depth(t, i) + 1
      /\ t[j].kind = "close" <=> Depth(t, j) = Depth(t, i) - 1
  BY <1>2, <1>3, <1>4
<1> QED
  BY <1>3, <1>5 DEF i

\* In a balanced text the depth is never negative, and 0 at the end.
LEMMA BalancedDepth ==
    ASSUME NEW t, IsText(t), Balanced(t)
    PROVE  Depth(t, Len(t)) = 0 /\ \A j \in 0..Len(t) : Depth(t, j) \in Nat
<1>1. Len(t) \in Nat /\ DOMAIN t = 1..Len(t)
  <2>1. PICK S : t \in Seq(S)
    BY DEF IsText
  <2> QED
    BY <2>1, LenProperties
<1>2. CountIn(t, Openers, 1, Len(t)) = CountIn(t, {"close"}, 1, Len(t))
      /\ \A j \in 1..Len(t) : CountIn(t, {"close"}, 1, j) <= CountIn(t, Openers, 1, j)
  BY <1>1 DEF Balanced
<1>3. \A j \in Nat : CountIn(t, Openers, 1, j) \in Nat /\ CountIn(t, {"close"}, 1, j) \in Nat
  <2> SUFFICES ASSUME NEW j \in Nat
               PROVE  CountIn(t, Openers, 1, j) \in Nat /\ CountIn(t, {"close"}, 1, j) \in Nat
    OBVIOUS
  <2>1. 1 \in Nat \ {0} /\ 1 <= j + 1
    OBVIOUS
  <2> QED
    BY <2>1, CountStep
<1>4. Depth(t, 0) = 0
  BY DepthStep
<1>5. ASSUME NEW j \in 1..Len(t)
      PROVE  Depth(t, j) \in Nat
  <2>1. j \in Nat
    BY <1>1
  <2> DEFINE a == CountIn(t, Openers, 1, j)
             b == CountIn(t, {"close"}, 1, j)
  <2>2. a \in Nat /\ b \in Nat /\ b <= a
    BY <1>2, <1>3, <2>1
  <2>3. Depth(t, j) = a - b
    BY DEF Depth
  <2> HIDE DEF a, b
  <2> QED
    BY <2>2, <2>3
<1>6. Depth(t, Len(t)) = 0
  BY <1>1, <1>2, <1>3 DEF Depth
<1> QED
  BY <1>1, <1>4, <1>5, <1>6

\* A definition reaches to the line that closes it: until there the depth is greater than above it.
LEMMA SpanInBraces ==
    ASSUME Braces, NEW t, IsText(t), Balanced(t),
           NEW i \in 1..Len(t), t[i].kind \in Headers
    PROVE  /\ SpanEnd(t, i) \in i..Len(t)
           /\ Depth(t, SpanEnd(t, i)) = Depth(t, i - 1)
           /\ \A j \in i..(SpanEnd(t, i) - 1) : Depth(t, j) > Depth(t, i - 1)
           /\ t[SpanEnd(t, i)].kind = "close" \/ (SpanEnd(t, i) = i /\ t[i].kind = "one")
<1> DEFINE n == Len(t)
           e == SpanEnd(t, i)
           d == Depth(t, i - 1)
<1>1. n \in Nat /\ e \in i..n /\ i \in Nat \ {0}
  BY SpanEndWithin, EmptyIffShort DEF IsText
<1>2. d \in Nat /\ Depth(t, n) = 0 /\ \A j \in 0..n : Depth(t, j) \in Nat
  <2>1. i - 1 \in 0..n
    BY <1>1
  <2> QED
    BY <2>1, BalancedDepth
<1>3. CASE t[i].kind = "one"
  <2>1. e = i
    BY <1>3 DEF SpanEnd
  <2>2. t[i].kind \notin Openers /\ t[i].kind # "close"
    BY <1>3 DEF Openers
  <2>3. Depth(t, i) = d
    <3>1. /\ Depth(t, i) \in Int /\ d \in Int /\ Depth(t, i) >= d - 1 /\ Depth(t, i) <= d + 1
          /\ t[i].kind \in Openers <=> Depth(t, i) = d + 1
          /\ t[i].kind = "close" <=> Depth(t, i) = d - 1
      BY <1>1, DepthMoves
    <3> HIDE DEF d
    <3> QED
      BY <2>2, <3>1
  <2> QED
    BY <1>1, <1>3, <2>1, <2>3
<1>4. CASE t[i].kind # "one"
  <2> DEFINE C == {j \in i..n : CountIn(t, Openers, i, j) = CountIn(t, {"close"}, i, j)} \cup {n}
             D == {j \in i..n : Depth(t, j) = d} \cup {n}
  <2>1. e = Min(C)
    BY <1>4 DEF SpanEnd
  <2>2. C = D
    <3>1. \A j \in i..n : CountIn(t, Openers, i, j) = CountIn(t, {"close"}, i, j) <=> Depth(t, j) = d
      <4> SUFFICES ASSUME NEW j \in i..n
                   PROVE  CountIn(t, Openers, i, j) = CountIn(t, {"close"}, i, j) <=> Depth(t, j) = d
        OBVIOUS
      <4>1. j \in Nat /\ i <= j + 1
        BY <1>1
      <4> QED
        BY <1>1, <4>1, DepthBetween
    <3> HIDE DEF d, n
    <3> QED
      BY <3>1
  <2>3. e \in D /\ \A j \in D : e <= j
    <3>1. D \in SUBSET Nat /\ D # {}
      BY <1>1
    <3> HIDE DEF D, C, e
    <3> QED
      BY <2>1, <2>2, <3>1, MinIsIn
  <2>4. Depth(t, i) = d + 1
    <3>1. t[i].kind \in Openers
      BY <1>4 DEF Headers, Openers
    <3> QED
      BY <1>1, <3>1, DepthMoves
  <2>5. \A j \in i..(e - 1) : Depth(t, j) # d
    BY <1>1, <2>3
  <2> HIDE DEF n, d, e, C, D
  <2> DEFINE S == {m \in Nat : i + m < e => Depth(t, i + m) > d}
  <2>6. 0 \in S
    BY <1>1, <1>2, <2>4
  <2>7. ASSUME NEW m \in Nat, m \in S
        PROVE  m + 1 \in S
    <3> SUFFICES ASSUME i + (m + 1) < e
                 PROVE  Depth(t, i + (m + 1)) > d
      OBVIOUS
    <3> DEFINE j == i + (m + 1)
    <3>1. j \in Nat \ {0} /\ j - 1 = i + m /\ i + m < e /\ j \in i..(e - 1)
      BY <1>1
    <3> HIDE DEF j
    <3>2. Depth(t, j) \in Int /\ Depth(t, j - 1) \in Int /\ Depth(t, j) >= Depth(t, j - 1) - 1
      BY <3>1, DepthMoves
    <3>3. Depth(t, j - 1) > d
      BY <2>7, <3>1
    <3>4. Depth(t, j) > d
      BY <1>2, <2>5, <3>1, <3>2, <3>3
    <3> QED
      BY <3>4 DEF j
  <2>8. \A m \in Nat : m \in S
    <3> HIDE DEF S
    <3> QED
      BY <2>6, <2>7, NaturalInduction
  <2>9. \A j \in i..(e - 1) : Depth(t, j) > d
    <3> SUFFICES ASSUME NEW j \in i..(e - 1)
                 PROVE  Depth(t, j) > d
      OBVIOUS
    <3>1. j - i \in Nat /\ i + (j - i) = j /\ i + (j - i) < e
      BY <1>1
    <3> QED
      BY <2>8, <3>1
  <2>10. e # i
    <3> SUFFICES ASSUME e = i
                 PROVE  FALSE
      OBVIOUS
    <3>1. Depth(t, e) # d
      BY <1>2, <2>4
    <3>2. e = n
      BY <2>3, <3>1 DEF D
    <3> QED
      BY <1>2, <2>4, <3>2
  <2>11. e \in Nat \ {0} /\ e - 1 \in i..(e - 1)
    BY <1>1, <2>10
  <2>12. /\ Depth(t, e) \in Int /\ Depth(t, e - 1) \in Int
         /\ Depth(t, e) >= Depth(t, e - 1) - 1
         /\ Depth(t, e) = Depth(t, e - 1) - 1 => t[e].kind = "close"
    BY <2>11, DepthMoves
  <2>13. Depth(t, e) = d
    <3>1. CASE Depth(t, e) # d
      <4>1. e = n
        BY <2>3, <3>1 DEF D
      <4>2. Depth(t, e - 1) > d
        BY <2>9, <2>11
      <4> QED
        BY <1>2, <2>12, <4>1, <4>2
    <3> QED
      BY <3>1
  <2>14. t[e].kind = "close"
    <3>1. Depth(t, e - 1) > d
      BY <2>9, <2>11
    <3> QED
      BY <1>2, <2>12, <2>13, <3>1
  <2> QED
    BY <1>1, <2>9, <2>13, <2>14 DEF n, e, d
<1> QED
  BY <1>3, <1>4

-----------------------------------------------------------------------------
\* Line k is in the span of the definition at line i.
In(t, i, k) == i <= k /\ k <= SpanEnd(t, i)

\* u is t with m lines in the place of lines p + 1..q.
Spliced(t, u, p, q, m) ==
    /\ IsText(t) /\ IsText(u)
    /\ p \in 0..Len(t) /\ q \in p..Len(t) /\ m \in Nat
    /\ Len(u) = Len(t) - q + (p + m)
    /\ \A i \in 1..p : u[i] = t[i]
    /\ \A i \in (q + 1)..Len(t) : u[i - q + (p + m)] = t[i]

\* Where a line that stays is found afterwards.
Moved(p, q, m, i) == IF i <= p THEN i ELSE i - q + (p + m)

\* The lines that stay.
Stays(t, p, q) == 1..p \cup (q + 1)..Len(t)

\* A line is in a definition if all lines between are deeper.
LEMMA InByDepth ==
    ASSUME Braces, NEW t, IsText(t), Balanced(t),
           NEW i \in 1..Len(t), t[i].kind \in Headers, NEW k \in i..Len(t)
    PROVE  In(t, i, k) <=> \A j \in i..(k - 1) : Depth(t, j) > Depth(t, i - 1)
<1>1. /\ SpanEnd(t, i) \in i..Len(t)
      /\ Depth(t, SpanEnd(t, i)) = Depth(t, i - 1)
      /\ \A j \in i..(SpanEnd(t, i) - 1) : Depth(t, j) > Depth(t, i - 1)
  BY SpanInBraces
<1>2. Len(t) \in Nat
  BY EmptyIffShort
<1>3. Depth(t, i - 1) \in Nat
  <2>1. i - 1 \in 0..Len(t)
    BY <1>2
  <2> QED
    BY <2>1, BalancedDepth
<1> DEFINE e == SpanEnd(t, i)
           d == Depth(t, i - 1)
<1> HIDE DEF e, d
<1>4. CASE k <= e
  BY <1>1, <1>2, <1>4 DEF In, e, d
<1>5. CASE ~(k <= e)
  <2>1. e \in i..(k - 1)
    BY <1>1, <1>2, <1>5 DEF e
  <2>2. ~(Depth(t, e) > d)
    BY <1>1, <1>3 DEF e, d
  <2> QED
    BY <1>5, <2>1, <2>2 DEF In, e, d
<1> QED
  BY <1>4, <1>5

\* Lines of the same kind change the depth alike.
LEMMA DepthAlike ==
    ASSUME NEW t, NEW u, NEW i \in Nat, NEW j \in Nat, t[i + 1].kind = u[j + 1].kind
    PROVE  /\ Depth(t, i) \in Int /\ Depth(u, j) \in Int
           /\ Depth(t, i + 1) - Depth(t, i) = Depth(u, j + 1) - Depth(u, j)
<1>1. /\ Depth(t, i) \in Int
      /\ t[i + 1].kind \in Openers => Depth(t, i + 1) = Depth(t, i) + 1
      /\ t[i + 1].kind = "close" => Depth(t, i + 1) = Depth(t, i) - 1
      /\ t[i + 1].kind \notin Openers \cup {"close"} => Depth(t, i + 1) = Depth(t, i)
  BY DepthStep
<1>2. /\ Depth(u, j) \in Int
      /\ u[j + 1].kind \in Openers => Depth(u, j + 1) = Depth(u, j) + 1
      /\ u[j + 1].kind = "close" => Depth(u, j + 1) = Depth(u, j) - 1
      /\ u[j + 1].kind \notin Openers \cup {"close"} => Depth(u, j + 1) = Depth(u, j)
  BY DepthStep
<1>3. CASE t[i + 1].kind \in Openers
  BY <1>1, <1>2, <1>3
<1>4. CASE t[i + 1].kind = "close"
  BY <1>1, <1>2, <1>4
<1>5. CASE t[i + 1].kind \notin Openers \cup {"close"}
  BY <1>1, <1>2, <1>5
<1> QED
  BY <1>3, <1>4, <1>5

\* The lines that stay are as deep as they were.
LEMMA DepthOfSpliced ==
    ASSUME NEW t, NEW u, NEW p, NEW q, NEW m, Spliced(t, u, p, q, m), Balanced(t), Balanced(u)
    PROVE  /\ \A j \in 0..p : Depth(u, j) = Depth(t, j)
           /\ \A j \in q..Len(t) : Depth(u, j - q + (p + m)) = Depth(t, j)
           /\ Depth(u, p + m) = Depth(t, q)
<1>1. /\ IsText(t) /\ IsText(u) /\ Len(t) \in Nat /\ Len(u) \in Nat
      /\ p \in Nat /\ q \in Nat /\ m \in Nat /\ p <= q /\ q <= Len(t)
      /\ Len(u) = Len(t) - q + (p + m)
  BY EmptyIffShort DEF Spliced
<1>2. /\ \A i \in 1..p : u[i] = t[i]
      /\ \A i \in (q + 1)..Len(t) : u[i - q + (p + m)] = t[i]
  BY DEF Spliced
<1> DEFINE n == Len(t)
           c == Depth(u, p + m) - Depth(t, q)
           S == {j \in Nat : j <= p => Depth(u, j) = Depth(t, j)}
           T == {j \in Nat : q + j <= n => Depth(u, (p + m) + j) - Depth(t, q + j) = c}
<1>3. 0 \in S
  BY DepthStep
<1>4. ASSUME NEW j \in Nat, j \in S
      PROVE  j + 1 \in S
  <2> SUFFICES ASSUME j + 1 <= p
               PROVE  Depth(u, j + 1) = Depth(t, j + 1)
    OBVIOUS
  <2>1. Depth(u, j) = Depth(t, j)
    BY <1>1, <1>4
  <2>2. u[j + 1] = t[j + 1]
    BY <1>1, <1>2
  <2>3. Depth(t, j) \in Int /\ Depth(t, j + 1) - Depth(t, j) = Depth(u, j + 1) - Depth(u, j)
    BY <2>2, DepthAlike
  <2>4. Depth(t, j + 1) \in Int /\ Depth(u, j + 1) \in Int
    BY DepthStep
  <2> QED
    BY <2>1, <2>3, <2>4
<1>5. \A j \in Nat : j \in S
  <2> HIDE DEF S
  <2> QED
    BY <1>3, <1>4, NaturalInduction
<1>6. 0 \in T
  BY <1>1
<1>7. ASSUME NEW j \in Nat, j \in T
      PROVE  j + 1 \in T
  <2> SUFFICES ASSUME q + (j + 1) <= n
               PROVE  Depth(u, (p + m) + (j + 1)) - Depth(t, q + (j + 1)) = c
    OBVIOUS
  <2> DEFINE a == q + j
             b == (p + m) + j
  <2>1. a \in Nat /\ b \in Nat /\ a + 1 = q + (j + 1) /\ b + 1 = (p + m) + (j + 1)
        /\ a + 1 \in (q + 1)..n /\ (a + 1) - q + (p + m) = b + 1
    BY <1>1
  <2>2. Depth(u, b) - Depth(t, a) = c
    BY <1>1, <1>7
  <2>3. u[b + 1] = t[a + 1]
    BY <1>2, <2>1
  <2> HIDE DEF a, b, c
  <2>4. /\ Depth(t, a) \in Int /\ Depth(u, b) \in Int
        /\ Depth(t, a + 1) - Depth(t, a) = Depth(u, b + 1) - Depth(u, b)
    BY <2>1, <2>3, DepthAlike
  <2>5. Depth(t, a + 1) \in Int /\ Depth(u, b + 1) \in Int
    <3>1. a + 1 \in Nat /\ b + 1 \in Nat
      BY <2>1
    <3> QED
      BY <3>1, DepthStep
  <2>6. Depth(u, b + 1) - Depth(t, a + 1) = c
    BY <2>2, <2>4, <2>5
  <2> QED
    BY <2>1, <2>6
<1>8. \A j \in Nat : j \in T
  <2> HIDE DEF T
  <2> QED
    BY <1>6, <1>7, NaturalInduction
<1>9. c = 0
  <2>1. n - q \in Nat /\ q + (n - q) = n /\ (p + m) + (n - q) = Len(u)
    BY <1>1
  <2>2. Depth(t, n) = 0 /\ Depth(u, Len(u)) = 0
    BY <1>1, BalancedDepth
  <2>3. n - q \in T
    BY <1>8, <2>1
  <2> HIDE DEF c
  <2>4. n <= n => Depth(u, Len(u)) - Depth(t, n) = c
    BY <2>1, <2>3
  <2> QED
    BY <1>1, <2>2, <2>4
<1> HIDE DEF c
<1>10. ASSUME NEW j \in q..n
       PROVE  Depth(u, j - q + (p + m)) = Depth(t, j)
  <2>1. j - q \in Nat /\ q + (j - q) = j /\ (p + m) + (j - q) = j - q + (p + m) /\ j <= n /\ j \in Nat
    BY <1>1
  <2>2. j - q \in T
    BY <1>8, <2>1
  <2>3. Depth(u, j - q + (p + m)) - Depth(t, j) = 0
    BY <1>9, <2>1, <2>2
  <2>4. Depth(u, j - q + (p + m)) \in Int /\ Depth(t, j) \in Int
    <3>1. j - q + (p + m) \in Nat
      BY <1>1, <2>1
    <3> QED
      BY <2>1, <3>1, DepthStep
  <2> QED
    BY <2>3, <2>4
<1>11. Depth(u, p + m) = Depth(t, q)
  <2>1. q \in q..n /\ q - q + (p + m) = p + m
    BY <1>1
  <2> QED
    BY <1>10, <2>1
<1>12. \A j \in 0..p : Depth(u, j) = Depth(t, j)
  <2>1. \A j \in 0..p : j \in Nat /\ j <= p
    BY <1>1
  <2> HIDE DEF n
  <2> QED
    BY <1>5, <2>1
<1> QED
  BY <1>10, <1>11, <1>12

-----------------------------------------------------------------------------
\* Lines p + 1..p + m of u are empty up to line h, where a definition starts
\* that has no other one inside.
NewLines(u, p, m, h) ==
    /\ h \in (p + 1)..(p + m + 1)
    /\ \A k \in (p + 1)..(h - 1) : IsBlank(u[k])
    /\ h <= p + m => u[h].kind \in Headers /\ (u[h].kind = "one" => h = p + m)
    /\ \A k \in (h + 1)..(p + m) :
        u[k].kind \in {"stmt", "close"} \cup NoCode /\ (u[k].kind = "close" => k = p + m)

\* A line of code; comments and empty lines are in no block by themselves.
Solid(l) == l.kind \notin NoCode

\* What an edit does to spans: the lines that stay are in the same definitions
\* as before, the new ones in those of B and in the new one, and nothing else is.
SameSpans(t, u, p, q, m) ==
    \A i, k \in Stays(t, p, q) :
        i <= k /\ t[i].kind \in Headers =>
            /\ In(u, Moved(p, q, m, i), Moved(p, q, m, k)) /\ ~IsBlank(t[k]) => In(t, i, k)
            /\ In(t, i, k) /\ Solid(t[k]) => In(u, Moved(p, q, m, i), Moved(p, q, m, k))

\* The new lines are in the definitions of B and in the new one.
NewSpans(u, p, m, h, B) ==
    /\ \A i \in 1..p, k \in h..(p + m) :
        u[i].kind \in Headers =>
            /\ In(u, i, k) /\ ~IsBlank(u[k]) => i \in B
            /\ i \in B /\ Solid(u[k]) => In(u, i, k)
    /\ \A k \in h..(p + m) : Solid(u[k]) => In(u, h, k)

\* What stays is in no new definition, and was in none that is taken away.
NothingElse(t, u, p, q, m, h) ==
    /\ h <= p + m => \A k \in (p + m + 1)..Len(u) : ~IsBlank(u[k]) => ~In(u, h, k)
    /\ \A i \in (p + 1)..q, k \in (q + 1)..Len(t) :
        t[i].kind \in Headers /\ Solid(t[k]) => ~In(t, i, k)

\* The definitions that are open between lines p and p + 1.
Open(t, p) ==
    {i \in 1..p : t[i].kind \in Headers /\ \A j \in i..p : Depth(t, j) > Depth(t, i - 1)}

\* What is taken away is not less deep than what is around it.
Level(t, p, q) ==
    Depth(t, q) = Depth(t, p) /\ \A j \in p..q : Depth(t, j) >= Depth(t, p)

\* The new lines are one definition: its inner lines are deeper.
LEMMA DepthOfNew ==
    ASSUME NEW u, NEW p \in Nat, NEW m \in Nat, NEW h, NewLines(u, p, m, h),
           Depth(u, p + m) = Depth(u, p)
    PROVE  /\ \A j \in p..(h - 1) : Depth(u, j) = Depth(u, p)
           /\ \A j \in p..(p + m) : Depth(u, j) >= Depth(u, p)
           /\ \A j \in h..(p + m - 1) : Depth(u, j) > Depth(u, p)
<1> DEFINE d == Depth(u, p)
           e == p + m
           S == {j \in Nat : p + j <= h - 1 => Depth(u, p + j) = d}
           T == {j \in Nat : h + j <= e - 1 => Depth(u, h + j) = d + 1}
<1>1. /\ h \in Nat \ {0} /\ h \in (p + 1)..(e + 1) /\ e \in Nat /\ d \in Int
  BY DepthStep DEF NewLines
<1>2. /\ \A k \in (p + 1)..(h - 1) : IsBlank(u[k])
      /\ h <= e => u[h].kind \in Headers /\ (u[h].kind = "one" => h = e)
      /\ \A k \in (h + 1)..e :
          u[k].kind \in {"stmt", "close"} \cup NoCode /\ (u[k].kind = "close" => k = e)
  BY DEF NewLines
<1> HIDE DEF d, e
<1>3. 0 \in S
  BY DEF d
<1>4. ASSUME NEW j \in Nat, j \in S
      PROVE  j + 1 \in S
  <2> SUFFICES ASSUME p + (j + 1) <= h - 1
               PROVE  Depth(u, p + (j + 1)) = d
    OBVIOUS
  <2> DEFINE a == p + j
  <2>1. a \in Nat /\ a + 1 = p + (j + 1) /\ a + 1 \in (p + 1)..(h - 1)
    BY <1>1
  <2>2. Depth(u, a) = d
    BY <1>1, <1>4
  <2>3. IsBlank(u[a + 1])
    BY <1>2, <2>1
  <2>4. u[a + 1].kind \notin Openers \cup {"close"}
    BY <2>3 DEF IsBlank, Openers
  <2> HIDE DEF a
  <2>5. Depth(u, a + 1) = Depth(u, a)
    BY <2>1, <2>4, DepthStep
  <2> QED
    BY <2>1, <2>2, <2>5
<1>5. \A j \in Nat : j \in S
  <2> HIDE DEF S
  <2> QED
    BY <1>3, <1>4, NaturalInduction
<1>6. ASSUME NEW j \in p..(h - 1)
      PROVE  Depth(u, j) = d
  <2>1. j - p \in Nat /\ p + (j - p) = j /\ j <= h - 1
    BY <1>1
  <2>2. j - p \in S
    BY <1>5, <2>1
  <2> QED
    BY <2>1, <2>2
<1>7. 0 \in T
  <2> SUFFICES ASSUME h + 0 <= e - 1
               PROVE  Depth(u, h + 0) = d + 1
    OBVIOUS
  <2>1. h <= e /\ h # e /\ h - 1 \in p..(h - 1) /\ h - 1 \in Nat /\ (h - 1) + 1 = h
    BY <1>1
  <2>2. u[h].kind \in Openers
    BY <1>2, <2>1 DEF Headers, Openers
  <2>3. Depth(u, h) = Depth(u, h - 1) + 1
    BY <1>1, <2>2, DepthMoves
  <2> QED
    BY <1>1, <1>6, <2>1, <2>3
<1>8. ASSUME NEW j \in Nat, j \in T
      PROVE  j + 1 \in T
  <2> SUFFICES ASSUME h + (j + 1) <= e - 1
               PROVE  Depth(u, h + (j + 1)) = d + 1
    OBVIOUS
  <2> DEFINE a == h + j
  <2>1. a \in Nat /\ a + 1 = h + (j + 1) /\ a + 1 \in (h + 1)..e /\ a + 1 # e
    BY <1>1
  <2>2. Depth(u, a) = d + 1
    BY <1>1, <1>8
  <2> HIDE DEF a
  <2>3. u[a + 1].kind \in {"stmt", "close"} \cup NoCode /\ u[a + 1].kind # "close"
    BY <1>2, <2>1
  <2>4. u[a + 1].kind \notin Openers \cup {"close"}
    BY <2>3 DEF NoCode, Openers
  <2>5. Depth(u, a + 1) = Depth(u, a)
    BY <2>1, <2>4, DepthStep
  <2> QED
    BY <2>1, <2>2, <2>5
<1>9. \A j \in Nat : j \in T
  <2> HIDE DEF T
  <2> QED
    BY <1>7, <1>8, NaturalInduction
<1>10. ASSUME NEW j \in h..(e - 1)
       PROVE  Depth(u, j) = d + 1
  <2>1. j - h \in Nat /\ h + (j - h) = j /\ j <= e - 1
    BY <1>1
  <2>2. j - h \in T
    BY <1>9, <2>1
  <2> QED
    BY <2>1, <2>2
<1>11. Depth(u, e) = d
  BY DEF d, e
<1>12. ASSUME NEW j \in p..e
       PROVE  Depth(u, j) >= d
  <2>1. j \in p..(h - 1) \/ j \in h..(e - 1) \/ j = e
    BY <1>1
  <2> QED
    BY <1>1, <1>6, <1>10, <1>11, <2>1
<1>13. \A j \in h..(e - 1) : Depth(u, j) > d
  BY <1>1, <1>10
<1> QED
  BY <1>6, <1>12, <1>13 DEF d, e

\* Where blocks end with a closing line.
LEMMA SpansInBraces ==
    ASSUME Braces, NEW t, NEW u, NEW p, NEW q, NEW m, NEW h, Spliced(t, u, p, q, m),
           Balanced(t), Balanced(u), NewLines(u, p, m, h), Level(t, p, q)
    PROVE  /\ SameSpans(t, u, p, q, m)
           /\ NewSpans(u, p, m, h, Open(t, p))
           /\ NothingElse(t, u, p, q, m, h)
<1> DEFINE n == Len(t)
           l == Len(u)
           d == Depth(t, p)
<1>1. /\ IsText(t) /\ IsText(u) /\ n \in Nat /\ l \in Nat
      /\ p \in Nat /\ q \in Nat /\ m \in Nat /\ p <= q /\ q <= n
      /\ l = n - q + (p + m)
  BY EmptyIffShort DEF Spliced
<1>2. /\ \A i \in 1..p : u[i] = t[i]
      /\ \A i \in (q + 1)..n : u[i - q + (p + m)] = t[i]
  BY DEF Spliced
<1>3. /\ \A j \in 0..p : Depth(u, j) = Depth(t, j)
      /\ \A j \in q..n : Depth(u, j - q + (p + m)) = Depth(t, j)
      /\ Depth(u, p + m) = Depth(t, q)
  BY DepthOfSpliced
<1>4. /\ Depth(t, q) = d /\ \A j \in p..q : Depth(t, j) >= d
  BY DEF Level
<1>5. Depth(u, p) = d /\ Depth(u, p + m) = d
  <2>1. p \in 0..p
    BY <1>1
  <2> QED
    BY <1>3, <1>4, <2>1
<1>6. /\ \A j \in p..(h - 1) : Depth(u, j) = d
      /\ \A j \in p..(p + m) : Depth(u, j) >= d
      /\ \A j \in h..(p + m - 1) : Depth(u, j) > d
  <2>1. Depth(u, p + m) = Depth(u, p)
    BY <1>5
  <2> QED
    BY <1>1, <1>5, <2>1, DepthOfNew
<1>7. h \in (p + 1)..(p + m + 1) /\ (h <= p + m => u[h].kind \in Headers)
  BY DEF NewLines
<1>8. \A j \in 0..n : Depth(t, j) \in Nat
  BY <1>1, BalancedDepth
<1>9. \A j \in 0..l : Depth(u, j) \in Nat
  BY <1>1, BalancedDepth
<1>10. \A i \in 1..n : \A k \in i..n : t[i].kind \in Headers =>
           (In(t, i, k) <=> \A j \in i..(k - 1) : Depth(t, j) > Depth(t, i - 1))
  BY <1>1, InByDepth
<1>11. \A i \in 1..l : \A k \in i..l : u[i].kind \in Headers =>
           (In(u, i, k) <=> \A j \in i..(k - 1) : Depth(u, j) > Depth(u, i - 1))
  BY <1>1, InByDepth
<1> HIDE DEF n, l, d
<1>12. ASSUME NEW i \in Stays(t, p, q), NEW k \in Stays(t, p, q), i <= k, t[i].kind \in Headers
       PROVE  In(u, Moved(p, q, m, i), Moved(p, q, m, k)) <=> In(t, i, k)
  <2>1. (i \in 1..p \/ i \in (q + 1)..n) /\ (k \in 1..p \/ k \in (q + 1)..n)
    BY DEF Stays, n
  <2>2. CASE i \in 1..p /\ k \in 1..p
    <3>1. /\ i \in 1..n /\ k \in i..n /\ i \in 1..l /\ k \in i..l
          /\ Moved(p, q, m, i) = i /\ Moved(p, q, m, k) = k /\ u[i] = t[i]
          /\ i - 1 \in 0..p /\ \A j \in i..(k - 1) : j \in 0..p
      BY <1>1, <1>2, <1>12, <2>2 DEF Moved
    <3>2. (\A j \in i..(k - 1) : Depth(u, j) > Depth(u, i - 1))
             <=> (\A j \in i..(k - 1) : Depth(t, j) > Depth(t, i - 1))
      BY <1>3, <3>1
    <3> QED
      BY <1>10, <1>11, <1>12, <3>1, <3>2
  <2>3. CASE i \in 1..p /\ k \in (q + 1)..n
    <3> DEFINE b == k - q + (p + m)
    <3>1. /\ i \in 1..n /\ k \in i..n /\ i \in 1..l /\ b \in i..l
          /\ Moved(p, q, m, i) = i /\ Moved(p, q, m, k) = b /\ u[i] = t[i]
          /\ i - 1 \in 0..p /\ i - 1 \in 0..n
      BY <1>1, <1>2, <1>12, <2>3 DEF Moved
    <3>2. Depth(u, i - 1) = Depth(t, i - 1) /\ Depth(t, i - 1) \in Nat
      BY <1>3, <1>8, <3>1
    <3> DEFINE x == Depth(t, i - 1)
    <3>3. ASSUME \A j \in i..(b - 1) : Depth(u, j) > x
          PROVE  \A j \in i..(k - 1) : Depth(t, j) > x
      <4> SUFFICES ASSUME NEW j \in i..(k - 1)
                   PROVE  Depth(t, j) > x
        OBVIOUS
      <4>1. p \in i..(b - 1) /\ d > x
        <5>1. p \in i..(b - 1)
          BY <1>1, <2>3
        <5> QED
          BY <1>5, <3>3, <5>1
      <4>2. CASE j <= p
        <5>1. j \in 0..p /\ j \in i..(b - 1)
          BY <1>1, <2>3, <4>2
        <5> QED
          BY <1>3, <3>3, <5>1
      <4>3. CASE p < j /\ j < q
        <5>1. j \in p..q /\ j \in 0..n
          BY <1>1, <4>3
        <5>2. Depth(t, j) >= d /\ Depth(t, j) \in Nat /\ d \in Nat
          <6>1. p \in 0..n
            BY <1>1
          <6> QED
            BY <1>4, <1>8, <5>1, <6>1 DEF d
        <5> HIDE DEF x
        <5> QED
          BY <4>1, <5>2, <3>2 DEF x
      <4>4. CASE q <= j
        <5>1. j \in q..n /\ j - q + (p + m) \in i..(b - 1)
          BY <1>1, <2>3, <4>4
        <5> QED
          BY <1>3, <3>3, <5>1
      <4> QED
        BY <1>1, <2>3, <4>2, <4>3, <4>4
    <3>4. ASSUME \A j \in i..(k - 1) : Depth(t, j) > x
          PROVE  \A j \in i..(b - 1) : Depth(u, j) > x
      <4> SUFFICES ASSUME NEW j \in i..(b - 1)
                   PROVE  Depth(u, j) > x
        OBVIOUS
      <4>1. p \in i..(k - 1) /\ d > x
        <5>1. p \in i..(k - 1)
          BY <1>1, <2>3
        <5> QED
          BY <3>4, <5>1 DEF d
      <4>2. CASE j <= p
        <5>1. j \in 0..p /\ j \in i..(k - 1)
          BY <1>1, <2>3, <4>2
        <5> QED
          BY <1>3, <3>4, <5>1
      <4>3. CASE p < j /\ j < p + m
        <5>1. j \in p..(p + m) /\ j \in 0..l
          BY <1>1, <4>3
        <5>2. Depth(u, j) >= d /\ Depth(u, j) \in Nat /\ d \in Nat
          <6>1. p \in 0..n
            BY <1>1
          <6> QED
            BY <1>6, <1>8, <1>9, <5>1, <6>1 DEF d
        <5> HIDE DEF x
        <5> QED
          BY <4>1, <5>2, <3>2 DEF x
      <4>4. CASE p + m <= j
        <5> DEFINE a == j - (p + m) + q
        <5>1. a \in q..n /\ a \in i..(k - 1) /\ a - q + (p + m) = j
          BY <1>1, <2>3, <4>4
        <5> HIDE DEF a
        <5>2. Depth(u, a - q + (p + m)) = Depth(t, a) /\ Depth(t, a) > x
          BY <1>3, <3>4, <5>1
        <5> QED
          BY <5>1, <5>2
      <4> QED
        BY <1>1, <2>3, <4>2, <4>3, <4>4
    <3>5. In(t, i, k) <=> \A j \in i..(k - 1) : Depth(t, j) > x
      BY <1>10, <1>12, <3>1
    <3>6. In(u, i, b) <=> \A j \in i..(b - 1) : Depth(u, j) > x
      BY <1>11, <1>12, <3>1, <3>2
    <3> QED
      BY <3>1, <3>3, <3>4, <3>5, <3>6
  <2>4. CASE i \in (q + 1)..n /\ k \in (q + 1)..n
    <3> DEFINE a == i - q + (p + m)
               b == k - q + (p + m)
    <3>1. /\ i \in 1..n /\ k \in i..n /\ a \in 1..l /\ b \in a..l
          /\ Moved(p, q, m, i) = a /\ Moved(p, q, m, k) = b /\ u[a] = t[i]
          /\ i - 1 \in q..n /\ (i - 1) - q + (p + m) = a - 1
      BY <1>1, <1>2, <1>12, <2>4 DEF Moved
    <3>2. Depth(u, a - 1) = Depth(t, i - 1)
      BY <1>3, <3>1
    <3> DEFINE x == Depth(t, i - 1)
    <3>3. ASSUME \A j \in a..(b - 1) : Depth(u, j) > x, NEW j \in i..(k - 1)
          PROVE  Depth(t, j) > x
      <4>1. j \in q..n /\ j - q + (p + m) \in a..(b - 1)
        BY <1>1, <2>4
      <4> QED
        BY <1>3, <3>3, <4>1
    <3>4. ASSUME \A j \in i..(k - 1) : Depth(t, j) > x, NEW j \in a..(b - 1)
          PROVE  Depth(u, j) > x
      <4> DEFINE c == j - (p + m) + q
      <4>1. c \in q..n /\ c \in i..(k - 1) /\ c - q + (p + m) = j
        BY <1>1, <2>4
      <4> HIDE DEF c
      <4>2. Depth(u, c - q + (p + m)) = Depth(t, c) /\ Depth(t, c) > x
        BY <1>3, <3>4, <4>1
      <4> QED
        BY <4>1, <4>2
    <3>5. In(t, i, k) <=> \A j \in i..(k - 1) : Depth(t, j) > x
      BY <1>10, <1>12, <3>1
    <3>6. In(u, a, b) <=> \A j \in a..(b - 1) : Depth(u, j) > x
      BY <1>11, <1>12, <3>1, <3>2
    <3> QED
      BY <3>1, <3>3, <3>4, <3>5, <3>6
  <2>5. ~(i \in (q + 1)..n /\ k \in 1..p)
    BY <1>1, <1>12
  <2> QED
    BY <2>1, <2>2, <2>3, <2>4, <2>5
<1>13. ASSUME NEW i \in 1..p, NEW k \in h..(p + m), u[i].kind \in Headers
       PROVE  In(u, i, k) <=> i \in Open(t, p)
  <2>1. /\ i \in 1..l /\ k \in i..l /\ u[i] = t[i] /\ i - 1 \in 0..p /\ i - 1 \in 0..n
        /\ i \in 1..n
    BY <1>1, <1>2, <1>7
  <2>2. Depth(u, i - 1) = Depth(t, i - 1) /\ Depth(t, i - 1) \in Nat
    BY <1>3, <1>8, <2>1
  <2> DEFINE x == Depth(t, i - 1)
  <2>3. i \in Open(t, p) <=> \A j \in i..p : Depth(t, j) > x
    BY <1>13, <2>1 DEF Open
  <2>4. In(u, i, k) <=> \A j \in i..(k - 1) : Depth(u, j) > x
    BY <1>11, <1>13, <2>1, <2>2
  <2>5. ASSUME \A j \in i..p : Depth(t, j) > x, NEW j \in i..(k - 1)
        PROVE  Depth(u, j) > x
    <3>1. CASE j <= p
      <4>1. j \in 0..p /\ j \in i..p
        BY <1>1, <3>1
      <4> QED
        BY <1>3, <2>5, <4>1
    <3>2. CASE p < j
      <4>1. j \in p..(p + m) /\ j \in 0..l /\ p \in i..p /\ p \in 0..n
        BY <1>1, <3>2
      <4>2. Depth(u, j) >= d /\ Depth(u, j) \in Nat /\ d \in Nat /\ d > x
        BY <1>6, <1>8, <1>9, <2>5, <4>1 DEF d
      <4> HIDE DEF x
      <4> QED
        BY <2>2, <4>2 DEF x
    <3> QED
      BY <1>1, <3>1, <3>2
  <2>6. ASSUME \A j \in i..(k - 1) : Depth(u, j) > x, NEW j \in i..p
        PROVE  Depth(t, j) > x
    <3>1. j \in 0..p /\ j \in i..(k - 1)
      BY <1>1, <1>7
    <3> QED
      BY <1>3, <2>6, <3>1
  <2> QED
    BY <2>3, <2>4, <2>5, <2>6
<1>14. ASSUME NEW k \in h..(p + m)
       PROVE  In(u, h, k)
  <2>1. h \in 1..l /\ k \in h..l /\ h <= p + m /\ h - 1 \in p..(h - 1)
    BY <1>1, <1>7
  <2>2. \A j \in h..(k - 1) : j \in h..(p + m - 1)
    BY <1>1, <1>7
  <2>3. \A j \in h..(k - 1) : Depth(u, j) > Depth(u, h - 1)
    BY <1>6, <2>1, <2>2
  <2> QED
    BY <1>7, <1>11, <2>1, <2>3
<1>15. ASSUME h <= p + m, NEW k \in (p + m + 1)..l
       PROVE  ~In(u, h, k)
  <2>1. h \in 1..l /\ k \in h..l /\ h - 1 \in p..(h - 1) /\ p + m \in h..(k - 1)
        /\ p \in 0..n
    BY <1>1, <1>7, <1>15
  <2>2. ~(Depth(u, p + m) > Depth(u, h - 1))
    <3>1. d \in Nat
      BY <1>8, <2>1 DEF d
    <3> QED
      BY <1>5, <1>6, <2>1, <3>1
  <2> QED
    BY <1>7, <1>11, <1>15, <2>1, <2>2
<1>16. ASSUME NEW i \in (p + 1)..q, NEW k \in (q + 1)..n, t[i].kind \in Headers
       PROVE  ~In(t, i, k)
  <2>1. i \in 1..n /\ k \in i..n /\ i - 1 \in p..q /\ q \in i..(k - 1) /\ p \in 0..n /\ i - 1 \in 0..n
    BY <1>1
  <2>2. ~(Depth(t, q) > Depth(t, i - 1))
    <3>1. d \in Nat /\ Depth(t, i - 1) \in Nat /\ Depth(t, i - 1) >= d /\ Depth(t, q) = d
      BY <1>4, <1>8, <2>1 DEF d
    <3> QED
      BY <3>1
  <2> QED
    BY <1>10, <1>16, <2>1, <2>2
<1>17. SameSpans(t, u, p, q, m)
  BY <1>12 DEF SameSpans
<1>18. NewSpans(u, p, m, h, Open(t, p))
  BY <1>13, <1>14 DEF NewSpans
<1>19. NothingElse(t, u, p, q, m, h)
  BY <1>15, <1>16 DEF NothingElse, n, l
<1> QED
  BY <1>17, <1>18, <1>19

-----------------------------------------------------------------------------
\* The lines of a text have an indentation.
Indents(t) == \A i \in 1..Len(t) : t[i].ind \in Nat

\* No code below a definition of one line is deeper than it.
OneShallow(t) ==
    \A i \in 1..Len(t) : t[i].kind = "one" =>
        \A k \in (i + 1)..Len(t) : Solid(t[k]) => ~Deeper(t, i, k)

\* A definition reaches to the last line of code before a line that is not deeper.
LEMMA SpanByIndent ==
    ASSUME ~Braces, NEW t, IsText(t), NEW i \in 1..Len(t), t[i].kind # "one"
    PROVE  /\ SpanEnd(t, i) \in i..Len(t)
           /\ Deeper(t, i, SpanEnd(t, i))
           /\ SpanEnd(t, i) = i \/ Solid(t[SpanEnd(t, i)])
           /\ \A k \in (i + 1)..Len(t) : Solid(t[k]) /\ Deeper(t, i, k) => k <= SpanEnd(t, i)
<1> DEFINE n == Len(t)
           D == {j \in i..n : /\ j = i \/ t[j].kind \notin NoCode
                              /\ Deeper(t, i, j)}
           e == SpanEnd(t, i)
<1>1. n \in Nat /\ e \in i..n
  BY SpanEndWithin, EmptyIffShort DEF IsText
<1>2. e = Max(D)
  BY DEF SpanEnd
<1>3. i \in D
  <2>1. Deeper(t, i, i)
    BY DEF Deeper
  <2> QED
    BY <1>1, <2>1
<1>4. e \in D /\ \A k \in D : k <= e
  <2>1. D \in SUBSET (0..n) /\ D # {}
    BY <1>1, <1>3
  <2> HIDE DEF D, e
  <2> QED
    BY <1>1, <1>2, <2>1, MaxIsIn
<1> HIDE DEF e
<1>5. \A k \in (i + 1)..n : Solid(t[k]) /\ Deeper(t, i, k) => k \in D
  BY <1>1 DEF Solid
<1> QED
  BY <1>1, <1>4, <1>5 DEF Solid, e

\* What is deeper is so line by line.
LEMMA DeeperAbove ==
    ASSUME NEW t, NEW i \in Nat, NEW k \in Nat, NEW j \in Nat, j <= k, Deeper(t, i, k)
    PROVE  Deeper(t, i, j)
BY DEF Deeper

\* A line of code is in a definition if it is deeper; the others may be.
LEMMA InByIndent ==
    ASSUME ~Braces, NEW t, IsText(t), OneShallow(t),
           NEW i \in 1..Len(t), t[i].kind \in Headers
    PROVE  /\ In(t, i, i)
           /\ \A k \in (i + 1)..Len(t) :
                In(t, i, k) <=> \E e \in k..Len(t) : Solid(t[e]) /\ Deeper(t, i, e)
<1> DEFINE n == Len(t)
           x == SpanEnd(t, i)
<1>1. n \in Nat /\ x \in i..n
  BY SpanEndWithin, EmptyIffShort DEF IsText
<1>2. In(t, i, i)
  BY <1>1 DEF In
<1>3. CASE t[i].kind = "one"
  <2>1. x = i
    BY <1>3 DEF SpanEnd
  <2>2. \A k \in (i + 1)..n : ~In(t, i, k)
    BY <1>1, <2>1 DEF In
  <2>3. \A k \in (i + 1)..n : Solid(t[k]) => ~Deeper(t, i, k)
    BY <1>3 DEF OneShallow
  <2>4. \A k \in (i + 1)..n : \A e \in k..n : e \in (i + 1)..n
    BY <1>1
  <2> QED
    BY <1>2, <2>2, <2>3, <2>4
<1>4. CASE t[i].kind # "one"
  <2>1. /\ Deeper(t, i, x)
        /\ x = i \/ Solid(t[x])
        /\ \A k \in (i + 1)..n : Solid(t[k]) /\ Deeper(t, i, k) => k <= x
    BY <1>4, SpanByIndent
  <2> HIDE DEF x
  <2>2. ASSUME NEW k \in (i + 1)..n
        PROVE  In(t, i, k) <=> \E e \in k..n : Solid(t[e]) /\ Deeper(t, i, e)
    <3>1. ASSUME In(t, i, k)
          PROVE  \E e \in k..n : Solid(t[e]) /\ Deeper(t, i, e)
      <4>1. x \in k..n /\ x # i
        BY <1>1, <3>1 DEF In, x
      <4> QED
        BY <2>1, <4>1
    <3>2. ASSUME NEW e \in k..n, Solid(t[e]), Deeper(t, i, e)
          PROVE  In(t, i, k)
      <4>1. e \in (i + 1)..n
        BY <1>1
      <4>2. e <= x
        BY <2>1, <3>2, <4>1
      <4> QED
        BY <1>1, <4>1, <4>2 DEF In, x
    <3> QED
      BY <3>1, <3>2
  <2> QED
    BY <1>2, <2>2
<1> QED
  BY <1>3, <1>4

-----------------------------------------------------------------------------
\* The definitions that code of indentation v between lines p and p + 1 is in.
OpenFor(t, p, v) ==
    {i \in 1..p : t[i].kind \in Headers /\ t[i].ind < v /\ Deeper(t, i, p)}

\* ... which reach at least to there.
Reaching(t, p, v) == \A i \in OpenFor(t, p, v) : In(t, i, p) /\ t[i].kind # "one"

\* The code that follows line q starts no deeper than v, and what is taken away
\* is no less deep.
Fits(t, p, q, v) ==
    /\ v \in Nat
    /\ \A k \in (q + 1)..Len(t) : Solid(t[k]) =>
        \E j \in (q + 1)..k : Solid(t[j]) /\ t[j].ind <= v
    /\ \A j \in (p + 1)..q : Solid(t[j]) => t[j].ind >= v

\* The new lines start at indentation v.
StartsAt(u, p, m, h, v) ==
    /\ h <= p + m => u[h].ind = v
    /\ \A k \in (h + 1)..(p + m) : ~IsBlank(u[k]) => u[k].ind > v

\* What is deeper than a definition is so afterwards.
LEMMA DeeperStays ==
    ASSUME NEW t, NEW u, NEW p, NEW q, NEW m, NEW h, NEW v, Spliced(t, u, p, q, m),
           Indents(t), Indents(u), NewLines(u, p, m, h), StartsAt(u, p, m, h, v), Fits(t, p, q, v),
           NEW i \in Stays(t, p, q), NEW k \in Stays(t, p, q), i < k, Solid(t[k])
    PROVE  Deeper(u, Moved(p, q, m, i), Moved(p, q, m, k)) <=> Deeper(t, i, k)
<1> DEFINE n == Len(t)
           l == Len(u)
<1>1. /\ n \in Nat /\ l \in Nat
      /\ p \in Nat /\ q \in Nat /\ m \in Nat /\ p <= q /\ q <= n
      /\ l = n - q + (p + m)
  BY EmptyIffShort DEF Spliced
<1>2. /\ \A j \in 1..p : u[j] = t[j]
      /\ \A j \in (q + 1)..n : u[j - q + (p + m)] = t[j]
  BY DEF Spliced
<1>3. /\ v \in Nat
      /\ \A a \in (q + 1)..n : Solid(t[a]) => \E j \in (q + 1)..a : Solid(t[j]) /\ t[j].ind <= v
      /\ \A j \in (p + 1)..q : Solid(t[j]) => t[j].ind >= v
  BY DEF Fits
<1>4. (\A j \in 1..n : t[j].ind \in Nat) /\ (\A j \in 1..l : u[j].ind \in Nat)
  BY DEF Indents
<1>5. \A j \in (p + 1)..(p + m) : Solid(u[j]) => u[j].ind >= v
  <2> SUFFICES ASSUME NEW j \in (p + 1)..(p + m), Solid(u[j])
               PROVE  u[j].ind >= v
    OBVIOUS
  <2>1. h \in (p + 1)..(p + m + 1) /\ \A a \in (p + 1)..(h - 1) : IsBlank(u[a])
    BY DEF NewLines
  <2>2. ~IsBlank(u[j])
    BY DEF Solid, NoCode, IsBlank
  <2>3. j = h \/ j \in (h + 1)..(p + m)
    BY <1>1, <2>1, <2>2
  <2>4. u[j].ind \in Nat
    BY <1>1, <1>4
  <2>5. j = h => u[j].ind = v
    BY <1>1 DEF StartsAt
  <2>6. j \in (h + 1)..(p + m) => u[j].ind > v
    BY <2>2 DEF StartsAt
  <2> QED
    BY <1>3, <2>3, <2>4, <2>5, <2>6
<1> HIDE DEF n, l
<1>6. (i \in 1..p \/ i \in (q + 1)..n) /\ (k \in 1..p \/ k \in (q + 1)..n)
  BY DEF Stays, n
<1>7. CASE i \in 1..p /\ k \in 1..p
  <2>1. Moved(p, q, m, i) = i /\ Moved(p, q, m, k) = k /\ u[i] = t[i]
        /\ \A j \in (i + 1)..k : j \in 1..p
    BY <1>1, <1>2, <1>7 DEF Moved
  <2> QED
    BY <1>2, <2>1 DEF Deeper
<1>8. CASE i \in 1..p /\ k \in (q + 1)..n
  <2> DEFINE b == k - q + (p + m)
             x == t[i].ind
  <2>1. Moved(p, q, m, i) = i /\ Moved(p, q, m, k) = b /\ u[i] = t[i] /\ b \in Nat /\ b <= l
        /\ x \in Nat
    BY <1>1, <1>2, <1>4, <1>8 DEF Moved
  <2>2. PICK j \in (q + 1)..k : Solid(t[j]) /\ t[j].ind <= v
    BY <1>3, <1>8
  <2>3. j - q + (p + m) \in (i + 1)..b /\ j \in (i + 1)..k /\ u[j - q + (p + m)] = t[j]
        /\ t[j].ind \in Nat
    BY <1>1, <1>2, <1>4, <1>8
  <2> HIDE DEF b
  <2>4. ASSUME Deeper(u, i, b), NEW a \in (i + 1)..k
        PROVE  t[a].kind \in NoCode \/ t[a].ind > x
    <3>1. x < v
      <4>1. u[j - q + (p + m)].kind \in NoCode \/ u[j - q + (p + m)].ind > u[i].ind
        BY <2>3, <2>4 DEF Deeper
      <4>2. t[j].ind > x
        BY <2>1, <2>2, <2>3, <4>1 DEF Solid
      <4> HIDE DEF x
      <4> QED
        BY <1>3, <2>1, <2>2, <2>3, <4>2
    <3>2. CASE a <= p
      <4>1. a \in (i + 1)..b /\ a \in 1..p
        BY <1>1, <1>8, <3>2 DEF b
      <4> QED
        BY <1>2, <2>1, <2>4, <4>1 DEF Deeper
    <3>3. CASE p < a /\ a <= q
      <4>1. a \in (p + 1)..q /\ a \in 1..n
        BY <1>1, <1>8, <3>3
      <4>2. t[a].kind \in NoCode \/ (t[a].ind >= v /\ t[a].ind \in Nat)
        BY <1>3, <1>4, <4>1 DEF Solid
      <4> HIDE DEF x
      <4> QED
        BY <1>3, <2>1, <3>1, <4>2
    <3>4. CASE q < a
      <4>1. a \in (q + 1)..n /\ a - q + (p + m) \in (i + 1)..b
        BY <1>1, <1>8, <3>4 DEF b
      <4> QED
        BY <1>2, <2>1, <2>4, <4>1 DEF Deeper
    <3> QED
      BY <1>1, <1>8, <3>2, <3>3, <3>4
  <2>5. ASSUME Deeper(t, i, k), NEW a \in (i + 1)..b
        PROVE  u[a].kind \in NoCode \/ u[a].ind > u[i].ind
    <3>1. x < v
      <4>1. t[j].kind \in NoCode \/ t[j].ind > t[i].ind
        BY <2>3, <2>5 DEF Deeper
      <4>2. t[j].ind > x
        BY <2>2, <4>1 DEF Solid
      <4> HIDE DEF x
      <4> QED
        BY <1>3, <2>1, <2>2, <2>3, <4>2
    <3>2. CASE a <= p
      <4>1. a \in (i + 1)..k /\ a \in 1..p
        BY <1>1, <1>8, <3>2
      <4> QED
        BY <1>2, <2>1, <2>5, <4>1 DEF Deeper
    <3>3. CASE p < a /\ a <= p + m
      <4>1. a \in (p + 1)..(p + m) /\ a \in 1..l
        BY <1>1, <1>8, <2>1, <3>3
      <4>2. u[a].kind \in NoCode \/ (u[a].ind >= v /\ u[a].ind \in Nat)
        BY <1>4, <1>5, <4>1 DEF Solid
      <4> HIDE DEF x
      <4>3. u[a].kind \in NoCode \/ u[a].ind > x
        BY <1>3, <2>1, <3>1, <4>2
      <4> QED
        BY <2>1, <4>3 DEF x
    <3>4. CASE p + m < a
      <4> DEFINE c == a - (p + m) + q
      <4>1. c \in (q + 1)..n /\ c \in (i + 1)..k /\ c - q + (p + m) = a
        BY <1>1, <1>8, <3>4 DEF b
      <4> HIDE DEF c
      <4>2. u[a] = t[c]
        BY <1>2, <4>1
      <4> QED
        BY <2>1, <2>5, <4>1, <4>2 DEF Deeper
    <3> QED
      BY <1>1, <1>8, <3>2, <3>3, <3>4
  <2>6. Deeper(u, i, b) <=> Deeper(t, i, k)
    BY <2>4, <2>5 DEF Deeper
  <2> QED
    BY <2>1, <2>6
<1>9. CASE i \in (q + 1)..n /\ k \in (q + 1)..n
  <2> DEFINE a == i - q + (p + m)
             b == k - q + (p + m)
  <2>1. Moved(p, q, m, i) = a /\ Moved(p, q, m, k) = b /\ u[a] = t[i]
    BY <1>1, <1>2, <1>9 DEF Moved
  <2>2. ASSUME Deeper(u, a, b), NEW c \in (i + 1)..k
        PROVE  t[c].kind \in NoCode \/ t[c].ind > t[i].ind
    <3>1. c \in (q + 1)..n /\ c - q + (p + m) \in (a + 1)..b
      BY <1>1, <1>9
    <3> QED
      BY <1>2, <2>1, <2>2, <3>1 DEF Deeper
  <2>3. ASSUME Deeper(t, i, k), NEW c \in (a + 1)..b
        PROVE  u[c].kind \in NoCode \/ u[c].ind > u[a].ind
    <3> DEFINE x == c - (p + m) + q
    <3>1. x \in (q + 1)..n /\ x \in (i + 1)..k /\ x - q + (p + m) = c
      BY <1>1, <1>9
    <3> HIDE DEF x, a, b
    <3>2. u[c] = t[x]
      BY <1>2, <3>1
    <3> QED
      BY <2>1, <2>3, <3>1, <3>2 DEF Deeper
  <2> QED
    BY <2>1, <2>2, <2>3 DEF Deeper
<1>10. ~(i \in (q + 1)..n /\ k \in 1..p)
  BY <1>1
<1> QED
  BY <1>6, <1>7, <1>8, <1>9, <1>10

\* A line of the new text is a new one or one that stayed.
LEMMA MovedLines ==
    ASSUME NEW t, NEW u, NEW p, NEW q, NEW m, Spliced(t, u, p, q, m)
    PROVE  /\ \A i \in Stays(t, p, q) :
                /\ i \in 1..Len(t) /\ Moved(p, q, m, i) \in 1..Len(u)
                /\ u[Moved(p, q, m, i)] = t[i]
                /\ (i \in 1..p /\ Moved(p, q, m, i) = i)
                   \/ (i \in (q + 1)..Len(t) /\ Moved(p, q, m, i) \in (p + m + 1)..Len(u))
           /\ \A j \in 1..Len(u) :
                j \in (p + 1)..(p + m) \/ \E i \in Stays(t, p, q) : j = Moved(p, q, m, i)
           /\ \A i, k \in Stays(t, p, q) :
                /\ i < k <=> Moved(p, q, m, i) < Moved(p, q, m, k)
                /\ i = k <=> Moved(p, q, m, i) = Moved(p, q, m, k)
<1> DEFINE n == Len(t)
           l == Len(u)
           f(i) == Moved(p, q, m, i)
<1>1. /\ n \in Nat /\ l \in Nat
      /\ p \in Nat /\ q \in Nat /\ m \in Nat /\ p <= q /\ q <= n
      /\ l = n - q + (p + m)
  BY EmptyIffShort DEF Spliced
<1>2. /\ \A j \in 1..p : u[j] = t[j]
      /\ \A j \in (q + 1)..n : u[j - q + (p + m)] = t[j]
  BY DEF Spliced
<1> HIDE DEF n, l
<1>3. ASSUME NEW i \in Stays(t, p, q)
      PROVE  /\ i \in 1..n /\ f(i) \in 1..l
             /\ u[f(i)] = t[i]
             /\ (i \in 1..p /\ f(i) = i) \/ (i \in (q + 1)..n /\ f(i) \in (p + m + 1)..l)
  <2>1. i \in 1..p \/ i \in (q + 1)..n
    BY DEF Stays, n
  <2>2. CASE i \in 1..p
    BY <1>1, <1>2, <2>2 DEF Moved
  <2>3. CASE i \in (q + 1)..n
    <3>1. f(i) = i - q + (p + m)
      BY <1>1, <2>3 DEF Moved
    <3>2. i \in 1..n /\ i - q + (p + m) \in (p + m + 1)..l /\ i - q + (p + m) \in 1..l
      BY <1>1, <2>3
    <3>3. u[i - q + (p + m)] = t[i]
      BY <1>2, <2>3
    <3> QED
      BY <2>3, <3>1, <3>2, <3>3
  <2> QED
    BY <2>1, <2>2, <2>3
<1>4. ASSUME NEW j \in 1..l
      PROVE  j \in (p + 1)..(p + m) \/ \E i \in Stays(t, p, q) : j = f(i)
  <2>1. CASE j <= p
    <3>1. j \in 1..p
      BY <1>1, <2>1
    <3> QED
      BY <2>1, <3>1 DEF Stays, Moved
  <2>2. CASE j > p + m
    <3> DEFINE i == j - (p + m) + q
    <3>1. i \in (q + 1)..n /\ ~(i <= p) /\ j = i - q + (p + m)
      BY <1>1, <2>2
    <3> HIDE DEF i
    <3> QED
      BY <3>1 DEF Stays, Moved, n
  <2> QED
    BY <1>1, <2>1, <2>2
<1>5. ASSUME NEW i \in Stays(t, p, q), NEW k \in Stays(t, p, q)
      PROVE  (i < k <=> f(i) < f(k)) /\ (i = k <=> f(i) = f(k))
  <2>1. (i \in 1..p \/ i \in (q + 1)..n) /\ (k \in 1..p \/ k \in (q + 1)..n)
    BY DEF Stays, n
  <2> QED
    BY <1>1, <2>1 DEF Moved
<1> HIDE DEF f
<1> QED
  BY <1>3, <1>4, <1>5 DEF n, l, f

\* Where blocks go by indentation.
LEMMA SpansByIndent ==
    ASSUME ~Braces, NEW t, NEW u, NEW p, NEW q, NEW m, NEW h, NEW v, Spliced(t, u, p, q, m),
           Indents(t), Indents(u), OneShallow(t),
           NewLines(u, p, m, h), StartsAt(u, p, m, h, v), Fits(t, p, q, v), Reaching(t, p, v)
    PROVE  /\ SameSpans(t, u, p, q, m)
           /\ NewSpans(u, p, m, h, OpenFor(t, p, v))
           /\ NothingElse(t, u, p, q, m, h)
           /\ OneShallow(u)
<1> DEFINE n == Len(t)
           l == Len(u)
           B == OpenFor(t, p, v)
           f(i) == Moved(p, q, m, i)
           R == Stays(t, p, q)
<1>1. /\ IsText(t) /\ IsText(u) /\ n \in Nat /\ l \in Nat
      /\ p \in Nat /\ q \in Nat /\ m \in Nat /\ p <= q /\ q <= n
      /\ l = n - q + (p + m)
  BY EmptyIffShort DEF Spliced
<1>2. /\ v \in Nat
      /\ \A a \in (q + 1)..n : Solid(t[a]) => \E j \in (q + 1)..a : Solid(t[j]) /\ t[j].ind <= v
      /\ \A j \in (p + 1)..q : Solid(t[j]) => t[j].ind >= v
  BY DEF Fits
<1>3. (\A j \in 1..n : t[j].ind \in Nat) /\ (\A j \in 1..l : u[j].ind \in Nat)
  BY DEF Indents
<1>4. /\ h \in (p + 1)..(p + m + 1) /\ \A a \in (p + 1)..(h - 1) : IsBlank(u[a])
      /\ h <= p + m => u[h].kind \in Headers /\ (u[h].kind = "one" => h = p + m)
      /\ \A k \in (h + 1)..(p + m) : u[k].kind \in {"stmt", "close"} \cup NoCode
  BY DEF NewLines
<1>5. /\ h <= p + m => u[h].ind = v
      /\ \A k \in (h + 1)..(p + m) : ~IsBlank(u[k]) => u[k].ind > v
  BY DEF StartsAt
<1>6. /\ \A i \in R : /\ i \in 1..n /\ f(i) \in 1..l /\ u[f(i)] = t[i]
                      /\ (i \in 1..p /\ f(i) = i) \/ (i \in (q + 1)..n /\ f(i) \in (p + m + 1)..l)
      /\ \A j \in 1..l : j \in (p + 1)..(p + m) \/ \E i \in R : j = f(i)
      /\ \A i, k \in R : (i < k <=> f(i) < f(k)) /\ (i = k <=> f(i) = f(k))
  BY MovedLines
<1>7. \A i, k \in R : i < k /\ Solid(t[k]) => (Deeper(u, f(i), f(k)) <=> Deeper(t, i, k))
  BY DeeperStays
<1>8. \A x : Solid(x) => ~IsBlank(x)
  BY DEF Solid, NoCode, IsBlank
<1>9. \A x : x.kind \in Headers => Solid(x) /\ x.kind \notin {"stmt", "close"} \cup NoCode
  BY DEF Solid, NoCode, Headers
<1> HIDE DEF n, l, f, R, B
\* A new line of code is in block h.
<1>10. \A k \in (p + 1)..(p + m) : ~IsBlank(u[k]) => k \in h..(p + m)
  BY <1>1, <1>4
<1>11. ASSUME NEW i \in 1..p, NEW k \in h..(p + m), u[i].kind \in Headers, Deeper(u, i, k)
       PROVE  i \in B
  <2>1. i \in R /\ u[i] = t[i] /\ \A j \in 1..p : u[j] = t[j]
    BY DEF Spliced, R, Stays
  <2>2. h \in (i + 1)..k /\ h <= p + m
    BY <1>1, <1>4
  <2>3. u[h].kind \in NoCode \/ u[h].ind > u[i].ind
    BY <1>11, <2>2 DEF Deeper
  <2>4. t[i].ind < v
    <3>1. u[h].ind = v /\ Solid(u[h]) /\ i \in 1..n
      BY <1>1, <1>4, <1>5, <1>9, <2>2
    <3>2. v > t[i].ind /\ t[i].ind \in Nat
      BY <1>3, <2>1, <2>3, <3>1 DEF Solid
    <3> QED
      BY <1>2, <3>2
  <2>5. Deeper(t, i, p)
    <3> SUFFICES ASSUME NEW j \in (i + 1)..p
                 PROVE  t[j].kind \in NoCode \/ t[j].ind > t[i].ind
      BY DEF Deeper
    <3>1. j \in (i + 1)..k /\ j \in 1..p
      BY <1>1, <1>4
    <3> QED
      BY <1>11, <2>1, <3>1 DEF Deeper
  <2> QED
    BY <1>11, <2>1, <2>4, <2>5 DEF B, OpenFor
<1>12. ASSUME NEW i \in B, NEW k \in h..(p + m)
       PROVE  Deeper(u, i, k)
  <2>1. i \in 1..p /\ t[i].ind < v /\ Deeper(t, i, p)
    BY DEF B, OpenFor
  <2>2. u[i] = t[i] /\ \A j \in 1..p : u[j] = t[j]
    BY <2>1 DEF Spliced
  <2>3. i \in 1..n /\ t[i].ind \in Nat
    BY <1>1, <1>3, <2>1
  <2> SUFFICES ASSUME NEW j \in (i + 1)..k
               PROVE  u[j].kind \in NoCode \/ u[j].ind > u[i].ind
    BY DEF Deeper
  <2>4. CASE j <= p
    <3>1. j \in (i + 1)..p /\ j \in 1..p
      BY <1>1, <2>1, <2>4
    <3> QED
      BY <2>1, <2>2, <3>1 DEF Deeper
  <2>5. CASE p < j /\ j < h
    <3>1. j \in (p + 1)..(h - 1)
      BY <1>1, <1>4, <2>5
    <3> QED
      BY <1>4, <3>1 DEF IsBlank, NoCode
  <2>6. CASE j = h
    <3>1. u[j].ind = v
      BY <1>1, <1>4, <1>5, <2>6
    <3> QED
      BY <1>2, <2>1, <2>2, <2>3, <3>1
  <2>7. CASE h < j
    <3>1. j \in (h + 1)..(p + m) /\ j \in 1..l
      BY <1>1, <1>4, <2>7
    <3>2. IsBlank(u[j]) \/ (u[j].ind > v /\ u[j].ind \in Nat)
      BY <1>3, <1>5, <3>1
    <3>3. IsBlank(u[j]) \/ u[j].ind > t[i].ind
      BY <1>2, <2>1, <2>3, <3>2
    <3> QED
      BY <2>2, <3>3 DEF IsBlank, NoCode
  <2> QED
    BY <1>1, <1>4, <2>1, <2>4, <2>5, <2>6, <2>7
<1>13. ASSUME h <= p + m, NEW k \in (p + m + 1)..l, Solid(u[k])
       PROVE  ~Deeper(u, h, k)
  <2>1. PICK a \in R : k = f(a)
    <3>1. k \in 1..l /\ k \notin (p + 1)..(p + m)
      BY <1>1
    <3> QED
      BY <1>6, <3>1
  <2>2. a \in (q + 1)..n /\ u[k] = t[a]
    <3>1. ~(k \in 1..p)
      BY <1>1
    <3> QED
      BY <1>6, <2>1, <3>1
  <2>3. PICK j \in (q + 1)..a : Solid(t[j]) /\ t[j].ind <= v
    BY <1>2, <1>13, <2>2
  <2>4. j \in (q + 1)..n /\ j \in R /\ j <= a /\ j \in 1..n
    BY <1>1, <2>2 DEF R, Stays, n
  <2>5. f(j) \in (p + m + 1)..l /\ u[f(j)] = t[j] /\ f(j) <= k
    <3>1. ~(j \in 1..p) /\ (j < a \/ j = a)
      BY <1>1, <2>2, <2>4
    <3>2. f(j) \in (p + m + 1)..l /\ u[f(j)] = t[j]
      BY <1>6, <2>4, <3>1
    <3>3. f(j) < f(a) \/ f(j) = f(a)
      BY <1>6, <2>1, <2>4, <3>1
    <3> QED
      BY <1>1, <2>1, <3>2, <3>3
  <2>6. f(j) \in (h + 1)..k
    BY <1>1, <1>4, <1>13, <2>5
  <2>7. ~(u[f(j)].kind \in NoCode) /\ ~(u[f(j)].ind > u[h].ind)
    <3>1. u[h].ind = v /\ t[j].ind \in Nat
      BY <1>3, <1>5, <1>13, <2>4
    <3> QED
      BY <1>2, <2>3, <2>5, <3>1 DEF Solid
  <2> QED
    BY <2>6, <2>7 DEF Deeper
<1>14. ASSUME NEW i \in (p + 1)..q, NEW k \in (q + 1)..n, t[i].kind \in Headers, Solid(t[k])
       PROVE  ~Deeper(t, i, k)
  <2>1. PICK j \in (q + 1)..k : Solid(t[j]) /\ t[j].ind <= v
    BY <1>2, <1>14
  <2>2. j \in (i + 1)..k /\ j \in 1..n /\ i \in 1..n
    BY <1>1
  <2>3. t[i].ind >= v
    BY <1>2, <1>9, <1>14
  <2>4. ~(t[j].kind \in NoCode) /\ ~(t[j].ind > t[i].ind)
    <3>1. t[j].ind \in Nat /\ t[i].ind \in Nat
      BY <1>3, <2>2
    <3> QED
      BY <1>2, <2>1, <2>3, <3>1 DEF Solid
  <2> QED
    BY <2>2, <2>4 DEF Deeper
<1>15. ASSUME NEW k \in (h + 1)..(p + m)
       PROVE  Deeper(u, h, k)
  <2> SUFFICES ASSUME NEW j \in (h + 1)..k
               PROVE  u[j].kind \in NoCode \/ u[j].ind > u[h].ind
    BY DEF Deeper
  <2>1. j \in (h + 1)..(p + m) /\ h <= p + m
    BY <1>1, <1>4
  <2> QED
    BY <1>5, <2>1 DEF IsBlank, NoCode
<1>16. OneShallow(u)
  <2> SUFFICES ASSUME NEW a \in 1..l, u[a].kind = "one", NEW b \in (a + 1)..l, Solid(u[b]),
                      Deeper(u, a, b)
               PROVE  FALSE
    BY DEF OneShallow, l
  <2>0. u[a].kind \in Headers /\ b \in 1..l
    BY DEF Headers
  <2>1. CASE a \in (p + 1)..(p + m)
    <3>1. a = h
      <4>1. a \in h..(p + m)
        BY <1>8, <1>9, <1>10, <2>0, <2>1
      <4>2. a \notin (h + 1)..(p + m)
        BY <1>4, <1>9, <2>0
      <4> QED
        BY <1>1, <1>4, <4>1, <4>2
    <3>2. h <= p + m /\ b \in (p + m + 1)..l
      BY <1>1, <1>4, <2>1, <3>1
    <3> QED
      BY <1>13, <3>1, <3>2
  <2>2. CASE b \in (p + 1)..(p + m) /\ a \notin (p + 1)..(p + m)
    <3>1. b \in h..(p + m) /\ a \in 1..p
      BY <1>1, <1>8, <1>10, <2>2
    <3>2. a \in B
      BY <1>11, <2>0, <3>1
    <3>3. t[a].kind # "one"
      BY <3>2 DEF Reaching, B
    <3> QED
      BY <3>1, <3>3 DEF Spliced
  <2>3. CASE a \notin (p + 1)..(p + m) /\ b \notin (p + 1)..(p + m)
    <3>1. PICK i \in R : a = f(i)
      BY <1>6, <2>3
    <3>2. PICK k \in R : b = f(k)
      BY <1>6, <2>0, <2>3
    <3>3. a < b
      OBVIOUS
    <3>4. i < k /\ u[a] = t[i] /\ u[b] = t[k] /\ i \in 1..n /\ k \in 1..n
      BY <1>6, <3>1, <3>2, <3>3
    <3>5. Deeper(t, i, k)
      BY <1>7, <3>1, <3>2, <3>4
    <3>6. k \in (i + 1)..n
      BY <1>1, <3>4
    <3> QED
      BY <3>4, <3>5, <3>6 DEF OneShallow, n
  <2> QED
    BY <2>1, <2>2, <2>3
<1>17. \A i \in 1..n : t[i].kind \in Headers =>
           /\ In(t, i, i)
           /\ \A k \in (i + 1)..n : In(t, i, k) <=> \E e \in k..n : Solid(t[e]) /\ Deeper(t, i, e)
  BY <1>1, InByIndent DEF n
<1>18. \A i \in 1..l : u[i].kind \in Headers =>
           /\ In(u, i, i)
           /\ \A k \in (i + 1)..l : In(u, i, k) <=> \E e \in k..l : Solid(u[e]) /\ Deeper(u, i, e)
  BY <1>1, <1>16, InByIndent DEF l
<1>19. ASSUME NEW i \in R, NEW k \in R, i < k, t[i].kind \in Headers, In(u, f(i), f(k))
       PROVE  In(t, i, k)
  <2>1. /\ i \in 1..n /\ k \in (i + 1)..n /\ u[f(i)] = t[i] /\ f(i) \in 1..l
        /\ f(k) \in 1..l /\ f(i) < f(k) /\ u[f(k)] = t[k]
    BY <1>1, <1>6, <1>19
  <2>2. f(k) \in (f(i) + 1)..l
    BY <1>1, <2>1
  <2>3. PICK e \in f(k)..l : Solid(u[e]) /\ Deeper(u, f(i), e)
    BY <1>18, <1>19, <2>1, <2>2
  <2>4. e \in 1..l /\ f(k) <= e
    BY <1>1, <2>1
  <2>5. CASE e \in (p + 1)..(p + m)
    <3>1. e \in h..(p + m) /\ f(k) \notin (p + m + 1)..l
      BY <1>1, <1>8, <1>10, <2>1, <2>3, <2>4, <2>5
    <3>2. k \in 1..p /\ f(k) = k
      BY <1>6, <3>1
    <3>3. i \in 1..p /\ f(i) = i
      <4>1. f(i) \notin (p + m + 1)..l
        BY <1>1, <2>1, <3>2
      <4> QED
        BY <1>6, <4>1
    <3>4. i \in B
      BY <1>11, <1>19, <2>1, <2>3, <3>1, <3>3
    <3>5. In(t, i, p)
      BY <3>4 DEF Reaching, B
    <3> QED
      <4>1. SpanEnd(t, i) \in i..n
        BY <1>1, <2>1, SpanEndWithin DEF IsText, n
      <4> QED
        BY <1>1, <1>19, <3>2, <3>5, <4>1 DEF In
  <2>6. CASE e \notin (p + 1)..(p + m)
    <3>1. PICK c \in R : e = f(c)
      BY <1>6, <2>4, <2>6
    <3>2. u[e] = t[c] /\ c \in 1..n
      BY <1>6, <3>1
    <3>3. k <= c /\ i < c
      <4>1. ~(f(c) < f(k))
        BY <1>1, <2>1, <2>4, <3>1
      <4>2. ~(c < k)
        BY <1>6, <3>1, <4>1
      <4> QED
        BY <1>1, <1>19, <2>1, <3>2, <4>2
    <3>4. Deeper(t, i, c) /\ Solid(t[c])
      BY <1>7, <2>3, <3>1, <3>2, <3>3
    <3>5. c \in k..n
      BY <1>1, <2>1, <3>2, <3>3
    <3> QED
      BY <1>17, <1>19, <2>1, <3>4, <3>5
  <2> QED
    BY <2>5, <2>6
<1>20. ASSUME NEW i \in R, NEW k \in R, i < k, t[i].kind \in Headers, In(t, i, k), Solid(t[k])
       PROVE  In(u, f(i), f(k))
  <2>1. /\ i \in 1..n /\ k \in (i + 1)..n /\ u[f(i)] = t[i] /\ f(i) \in 1..l
        /\ f(k) \in 1..l /\ f(i) < f(k) /\ u[f(k)] = t[k]
    BY <1>1, <1>6, <1>20
  <2>2. f(k) \in (f(i) + 1)..l /\ f(k) \in f(k)..l
    BY <1>1, <2>1
  <2>3. PICK e \in k..n : Solid(t[e]) /\ Deeper(t, i, e)
    BY <1>17, <1>20, <2>1
  <2>4. Deeper(t, i, k)
    <3>1. i \in Nat /\ k \in Nat /\ e \in Nat /\ k <= e
      BY <1>1, <2>1
    <3> QED
      BY <2>3, <3>1, DeeperAbove
  <2>5. Deeper(u, f(i), f(k))
    BY <1>7, <1>20, <2>4
  <2> QED
    BY <1>18, <1>20, <2>1, <2>2, <2>5
<1>21. SameSpans(t, u, p, q, m)
  <2> SUFFICES ASSUME NEW i \in R, NEW k \in R, i <= k, t[i].kind \in Headers
               PROVE  /\ In(u, f(i), f(k)) /\ ~IsBlank(t[k]) => In(t, i, k)
                      /\ In(t, i, k) /\ Solid(t[k]) => In(u, f(i), f(k))
    BY DEF SameSpans, R, f
  <2>1. i \in 1..n /\ k \in 1..n /\ u[f(i)] = t[i] /\ f(i) \in 1..l
    BY <1>6
  <2>2. i = k \/ i < k
    BY <1>1, <2>1
  <2>3. CASE i = k
    BY <1>17, <1>18, <2>1, <2>3
  <2> QED
    BY <1>19, <1>20, <2>2, <2>3
<1>22. ASSUME NEW i \in 1..p, NEW k \in h..(p + m), u[i].kind \in Headers, In(u, i, k)
       PROVE  i \in B
  <2>1. i \in 1..l /\ k \in (i + 1)..l
    BY <1>1, <1>4
  <2>2. PICK e \in k..l : Solid(u[e]) /\ Deeper(u, i, e)
    BY <1>18, <1>22, <2>1
  <2>3. Deeper(u, i, k)
    <3>1. i \in Nat /\ k \in Nat /\ e \in Nat /\ k <= e
      BY <1>1, <1>4, <2>1
    <3> QED
      BY <2>2, <3>1, DeeperAbove
  <2> QED
    BY <1>11, <1>22, <2>3
<1>23. ASSUME NEW i \in 1..p, NEW k \in h..(p + m), u[i].kind \in Headers, i \in B, Solid(u[k])
       PROVE  In(u, i, k)
  <2>1. i \in 1..l /\ k \in (i + 1)..l /\ k \in k..l
    BY <1>1, <1>4
  <2> QED
    BY <1>12, <1>18, <1>23, <2>1
<1>24. ASSUME NEW k \in h..(p + m), Solid(u[k])
       PROVE  In(u, h, k)
  <2>1. h \in 1..l /\ h <= p + m /\ k \in 1..l /\ (k = h \/ (k \in (h + 1)..l /\ k \in (h + 1)..(p + m)))
    BY <1>1, <1>4
  <2>2. CASE k = h
    BY <1>4, <1>18, <2>1, <2>2
  <2>3. CASE k \in (h + 1)..l /\ k \in (h + 1)..(p + m)
    <3>1. Deeper(u, h, k) /\ k \in k..l
      BY <1>1, <1>15, <2>3
    <3> QED
      BY <1>4, <1>18, <1>24, <2>1, <2>3, <3>1
  <2> QED
    BY <2>1, <2>2, <2>3
<1>25. NewSpans(u, p, m, h, B)
  BY <1>22, <1>23, <1>24 DEF NewSpans
<1>26. ASSUME h <= p + m, NEW k \in (p + m + 1)..l
       PROVE  ~In(u, h, k)
  <2>1. h \in 1..l /\ k \in (h + 1)..l
    BY <1>1, <1>4, <1>26
  <2>2. \A e \in k..l : Solid(u[e]) => ~Deeper(u, h, e)
    <3>1. \A e \in k..l : e \in (p + m + 1)..l
      BY <1>1
    <3> QED
      BY <1>13, <1>26, <3>1
  <2> QED
    BY <1>4, <1>18, <1>26, <2>1, <2>2
<1>27. ASSUME NEW i \in (p + 1)..q, NEW k \in (q + 1)..n, t[i].kind \in Headers, Solid(t[k])
       PROVE  ~In(t, i, k)
  <2>1. i \in 1..n /\ k \in (i + 1)..n
    BY <1>1
  <2>2. \A e \in k..n : Solid(t[e]) => ~Deeper(t, i, e)
    <3>1. \A e \in k..n : e \in (q + 1)..n
      BY <1>1
    <3> QED
      BY <1>14, <1>27, <3>1
  <2> QED
    BY <1>17, <1>27, <2>1, <2>2
<1>28. NothingElse(t, u, p, q, m, h)
  BY <1>26, <1>27 DEF NothingElse, n, l
<1> QED
  BY <1>16, <1>21, <1>25, <1>28 DEF B

-----------------------------------------------------------------------------
(***************************************************************************)
(* The definitions around the lines of an edited text.                     *)
(***************************************************************************)

\* The symbols around a line are those whose definition it is in.
LEMMA AroundIsIn ==
    ASSUME NEW t, IsText(t), NEW k \in Nat
    PROVE  Around(t, k) = {t[i].id : i \in {j \in 1..Len(t) : t[j].kind \in Headers /\ In(t, j, k)}}
<1>1. DOMAIN t = 1..Len(t)
  BY LenProperties DEF IsText
<1> DEFINE R == {j \in 1..Len(t) : t[j].kind \in Headers /\ In(t, j, k)}
<1>2. ASSUME NEW x \in Around(t, k)
      PROVE  x \in {t[i].id : i \in R}
  <2>1. PICK s \in Symbols(t) : s.start <= k /\ k <= s.end /\ x = s.id
    BY DEF Around
  <2>2. PICK j \in 1..Len(t) : t[j].kind \in Headers
            /\ s = [id |-> t[j].id, name |-> t[j].name, start |-> j, end |-> SpanEnd(t, j)]
    BY <1>1 DEF Symbols
  <2>3. s.start = j /\ s.end = SpanEnd(t, j) /\ s.id = t[j].id
    BY <2>2
  <2> QED
    BY <2>1, <2>2, <2>3 DEF In
<1>3. ASSUME NEW j \in R
      PROVE  t[j].id \in Around(t, k)
  <2> DEFINE s == [id |-> t[j].id, name |-> t[j].name, start |-> j, end |-> SpanEnd(t, j)]
  <2>1. s \in Symbols(t)
    BY <1>1 DEF Symbols
  <2>2. s.start = j /\ s.end = SpanEnd(t, j) /\ s.id = t[j].id
    OBVIOUS
  <2> HIDE DEF s
  <2> QED
    BY <2>1, <2>2 DEF Around, In
<1> HIDE DEF R
<1>4. {t[i].id : i \in R} \subseteq Around(t, k)
  BY <1>3
<1> QED
  BY <1>2, <1>4 DEF R

\* A text in the terms of spans.
InAround(t, k, x) == \E i \in 1..Len(t) : t[i].kind \in Headers /\ In(t, i, k) /\ t[i].id = x

\* The same for one of the definitions.
LEMMA AroundBy ==
    ASSUME NEW t, IsText(t), NEW k \in Nat, NEW x
    PROVE  x \in Around(t, k) <=> InAround(t, k, x)
BY AroundIsIn DEF InAround

-----------------------------------------------------------------------------
\* The new lines are written into the definitions of B and the one they are.
NewOwn(t, u, p, m, h, B, id) ==
    /\ \A i \in B : i \in 1..p /\ t[i].kind \in Headers
    /\ h <= p + m => u[h].id = id
    /\ \A k \in h..(p + m) : u[k].own = {t[i].id : i \in B} \cup {id}

\* Their identities are new, but for a line that takes the place of another.
NewIds(t, u, p, q, m) ==
    \A k \in (p + 1)..(p + m) :
        /\ u[k].id = 0 => IsBlank(u[k])
        /\ \A l \in (p + 1)..(p + m) : u[l].id = u[k].id => l = k \/ u[k].id = 0
        /\ \A i \in 1..Len(t) :
            t[i].id = u[k].id => u[k].id = 0 \/ (i = p + 1 /\ k = p + 1 /\ p < q)

\* No comment or decorator is cut off.
Seams(t, u, p, q) ==
    /\ p >= 1 /\ t[p].kind \in Trivia => StandsOver(u, p)
    /\ q >= 1 => t[q].kind \notin Trivia

\* What an edit of a text does.
Edit(t, u, p, q, m, h, B, id) ==
    /\ Spliced(t, u, p, q, m)
    /\ NewLines(u, p, m, h)
    /\ SameSpans(t, u, p, q, m)
    /\ NewSpans(u, p, m, h, B)
    /\ NothingElse(t, u, p, q, m, h)
    /\ NewOwn(t, u, p, m, h, B, id)
    /\ NewIds(t, u, p, q, m)
    /\ Seams(t, u, p, q)

\* A line that stays is in the definitions it was in, ...
LEMMA AroundStays ==
    ASSUME NEW t, NEW u, NEW p, NEW q, NEW m, NEW h, NEW B, NEW id,
           Edit(t, u, p, q, m, h, B, id), NEW k \in Stays(t, p, q), ~IsBlank(t[k])
    PROVE  /\ Around(u, Moved(p, q, m, k)) \subseteq Around(t, k)
           /\ Solid(t[k]) => Around(u, Moved(p, q, m, k)) = Around(t, k)
<1> DEFINE n == Len(t)
           l == Len(u)
           f(i) == Moved(p, q, m, i)
           R == Stays(t, p, q)
<1>1. /\ Spliced(t, u, p, q, m) /\ NewLines(u, p, m, h) /\ SameSpans(t, u, p, q, m)
      /\ NothingElse(t, u, p, q, m, h)
  BY DEF Edit
<1>2. /\ IsText(t) /\ IsText(u) /\ n \in Nat /\ l \in Nat
      /\ p \in Nat /\ q \in Nat /\ m \in Nat /\ p <= q /\ q <= n
  BY <1>1, EmptyIffShort DEF Spliced
<1>3. /\ \A i \in R : /\ i \in 1..n /\ f(i) \in 1..l /\ u[f(i)] = t[i]
                      /\ (i \in 1..p /\ f(i) = i) \/ (i \in (q + 1)..n /\ f(i) \in (p + m + 1)..l)
      /\ \A j \in 1..l : j \in (p + 1)..(p + m) \/ \E i \in R : j = f(i)
      /\ \A i, j \in R : (i < j <=> f(i) < f(j)) /\ (i = j <=> f(i) = f(j))
  BY <1>1, MovedLines
<1>4. /\ h \in (p + 1)..(p + m + 1)
      /\ \A j \in (p + 1)..(p + m) : u[j].kind \in Headers => j = h
  <2>1. \A j \in (p + 1)..(h - 1) : u[j].kind \notin Headers
    BY <1>1 DEF NewLines, IsBlank, Headers
  <2>2. \A j \in (h + 1)..(p + m) : u[j].kind \notin Headers
    BY <1>1 DEF NewLines, NoCode, Headers
  <2>3. h \in (p + 1)..(p + m + 1)
    BY <1>1 DEF NewLines
  <2> QED
    BY <1>2, <2>1, <2>2, <2>3
<1>5. k \in Nat /\ f(k) \in Nat /\ u[f(k)] = t[k] /\ k \in R
  BY <1>2, <1>3
<1>6. \A i \in R : i <= k <=> f(i) <= f(k)
  BY <1>2, <1>3
<1>7. /\ \A i \in R : i <= k /\ t[i].kind \in Headers =>
            /\ In(u, f(i), f(k)) => In(t, i, k)
            /\ In(t, i, k) /\ Solid(t[k]) => In(u, f(i), f(k))
  BY <1>1 DEF SameSpans
<1>8. /\ h <= p + m => \A j \in (p + m + 1)..l : ~IsBlank(u[j]) => ~In(u, h, j)
      /\ \A i \in (p + 1)..q, j \in (q + 1)..n : t[i].kind \in Headers /\ Solid(t[j]) => ~In(t, i, j)
  BY <1>1 DEF NothingElse
<1>9. \A i : In(t, i, k) => i <= k
  BY DEF In
<1>10. \A i : In(u, i, f(k)) => i <= f(k)
  BY DEF In
<1> HIDE DEF n, l, f, R
<1>11. ASSUME NEW x, InAround(u, f(k), x)
       PROVE  InAround(t, k, x)
  <2>1. PICK j \in 1..l : u[j].kind \in Headers /\ In(u, j, f(k)) /\ u[j].id = x
    BY <1>11 DEF InAround, l
  <2>2. j <= f(k)
    BY <1>10, <2>1
  <2>3. ~(j \in (p + 1)..(p + m))
    <3> SUFFICES ASSUME j \in (p + 1)..(p + m)
                 PROVE  FALSE
      OBVIOUS
    <3>1. j = h
      BY <1>4, <2>1
    <3>2. h <= p + m /\ f(k) \in (p + m + 1)..l
      BY <1>2, <1>3, <1>5, <2>2, <3>1
    <3> QED
      BY <1>5, <1>8, <2>1, <3>1, <3>2
  <2>4. PICK i \in R : j = f(i)
    BY <1>3, <2>3
  <2>5. t[i].kind \in Headers /\ t[i].id = x /\ i \in 1..n
    BY <1>3, <2>1, <2>4
  <2>6. i <= k
    BY <1>6, <2>2, <2>4
  <2>7. In(t, i, k)
    BY <1>7, <2>1, <2>4, <2>5, <2>6
  <2> QED
    BY <2>5, <2>7 DEF InAround, n
<1>12. ASSUME NEW x, Solid(t[k]), InAround(t, k, x)
       PROVE  InAround(u, f(k), x)
  <2>1. PICK i \in 1..n : t[i].kind \in Headers /\ In(t, i, k) /\ t[i].id = x
    BY <1>12 DEF InAround, n
  <2>2. i <= k
    BY <1>9, <2>1
  <2>3. i \in R
    <3> SUFFICES ASSUME ~(i \in R)
                 PROVE  FALSE
      OBVIOUS
    <3>1. i \in (p + 1)..q
      BY <1>2 DEF R, Stays, n
    <3>2. k \in (q + 1)..n
      BY <1>2, <1>3, <1>5, <2>2, <3>1
    <3> QED
      BY <1>8, <1>12, <2>1, <3>1, <3>2
  <2>4. In(u, f(i), f(k))
    BY <1>7, <1>12, <2>1, <2>2, <2>3
  <2>5. f(i) \in 1..l /\ u[f(i)] = t[i]
    BY <1>3, <2>3
  <2> QED
    BY <2>1, <2>4, <2>5 DEF InAround, l
<1>13. \A x : x \in Around(u, f(k)) <=> InAround(u, f(k), x)
  BY <1>2, <1>5, AroundBy
<1>14. \A x : x \in Around(t, k) <=> InAround(t, k, x)
  BY <1>2, <1>5, AroundBy
<1>15. \A x : x \in Around(u, f(k)) => x \in Around(t, k)
  BY <1>11, <1>13, <1>14
<1>16. Solid(t[k]) => \A x : x \in Around(t, k) => x \in Around(u, f(k))
  BY <1>12, <1>13, <1>14
<1>17. Around(u, f(k)) \subseteq Around(t, k)
  BY <1>15
<1>18. Solid(t[k]) => Around(u, f(k)) = Around(t, k)
  BY <1>15, <1>16
<1> QED
  BY <1>17, <1>18 DEF f

\* ... and a new line in the ones it was written into.
LEMMA AroundNew ==
    ASSUME NEW t, NEW u, NEW p, NEW q, NEW m, NEW h, NEW B, NEW id,
           Edit(t, u, p, q, m, h, B, id), NEW k \in h..(p + m), ~IsBlank(u[k])
    PROVE  /\ Around(u, k) \subseteq u[k].own
           /\ Solid(u[k]) => Around(u, k) = u[k].own
<1> DEFINE l == Len(u)
<1>1. /\ Spliced(t, u, p, q, m) /\ NewLines(u, p, m, h) /\ NewSpans(u, p, m, h, B)
      /\ NewOwn(t, u, p, m, h, B, id)
  BY DEF Edit
<1>2. /\ IsText(t) /\ IsText(u) /\ l \in Nat /\ Len(t) \in Nat
      /\ p \in Nat /\ q \in Nat /\ m \in Nat /\ p <= q /\ q <= Len(t)
      /\ l = Len(t) - q + (p + m)
  BY <1>1, EmptyIffShort DEF Spliced
<1>3. \A i \in 1..p : u[i] = t[i]
  BY <1>1 DEF Spliced
<1>4. /\ h \in (p + 1)..(p + m + 1)
      /\ \A j \in (p + 1)..(p + m) : u[j].kind \in Headers => j = h
  <2>1. \A j \in (p + 1)..(h - 1) : u[j].kind \notin Headers
    BY <1>1 DEF NewLines, IsBlank, Headers
  <2>2. \A j \in (h + 1)..(p + m) : u[j].kind \notin Headers
    BY <1>1 DEF NewLines, NoCode, Headers
  <2>3. h \in (p + 1)..(p + m + 1)
    BY <1>1 DEF NewLines
  <2> QED
    BY <1>2, <2>1, <2>2, <2>3
<1>5. k \in Nat /\ p < k /\ k <= p + m /\ h <= k /\ h <= p + m /\ p < h /\ h \in Nat /\ l >= p + m
  BY <1>2, <1>4
<1>6. u[h].kind \in Headers /\ u[h].id = id
  BY <1>1, <1>5 DEF NewLines, NewOwn
<1>7. /\ \A i \in B : i \in 1..p /\ t[i].kind \in Headers
      /\ u[k].own = {t[i].id : i \in B} \cup {id}
  BY <1>1 DEF NewOwn
<1>8. \A i \in 1..p : u[i].kind \in Headers =>
            /\ In(u, i, k) => i \in B
            /\ i \in B /\ Solid(u[k]) => In(u, i, k)
  BY <1>1 DEF NewSpans
<1>9. Solid(u[k]) => In(u, h, k)
  BY <1>1 DEF NewSpans
<1> HIDE DEF l
<1>10. ASSUME NEW x, InAround(u, k, x)
       PROVE  x \in u[k].own
  <2>1. PICK j \in 1..l : u[j].kind \in Headers /\ In(u, j, k) /\ u[j].id = x
    BY <1>10 DEF InAround, l
  <2>2. j <= k
    BY <2>1 DEF In
  <2>3. CASE j \in 1..p
    <3>1. j \in B /\ t[j].id = x
      BY <1>3, <1>8, <2>1, <2>3
    <3> QED
      BY <1>7, <3>1
  <2>4. CASE j \in (p + 1)..(p + m)
    BY <1>4, <1>6, <1>7, <2>1, <2>4
  <2> QED
    BY <1>2, <1>5, <2>2, <2>3, <2>4
<1>11. ASSUME NEW x, Solid(u[k]), x \in u[k].own
       PROVE  InAround(u, k, x)
  <2>1. CASE x = id
    <3>1. h \in 1..l
      BY <1>2, <1>5
    <3> QED
      BY <1>6, <1>9, <1>11, <2>1, <3>1 DEF InAround, l
  <2>2. CASE x # id
    <3>1. PICK i \in B : x = t[i].id
      BY <1>7, <1>11, <2>2
    <3>2. i \in 1..p /\ i \in 1..l
      BY <1>2, <1>5, <1>7
    <3>3. u[i].kind \in Headers /\ u[i].id = x
      BY <1>3, <1>7, <3>1, <3>2
    <3>4. In(u, i, k)
      BY <1>8, <1>11, <3>2, <3>3
    <3> QED
      BY <3>2, <3>3, <3>4 DEF InAround, l
  <2> QED
    BY <2>1, <2>2
<1>12. \A x : x \in Around(u, k) <=> InAround(u, k, x)
  BY <1>2, <1>5, AroundBy
<1>13. \A x : x \in Around(u, k) => x \in u[k].own
  BY <1>10, <1>12
<1>14. Solid(u[k]) => \A x : x \in u[k].own => x \in Around(u, k)
  BY <1>11, <1>12
<1>15. Around(u, k) \subseteq u[k].own
  BY <1>13
<1> QED
  BY <1>14, <1>15

-----------------------------------------------------------------------------
(***************************************************************************)
(* What a text has to be, part by part, and that an edit leaves each of    *)
(* them.                                                                   *)
(***************************************************************************)

\* Numbers of a text are numbers.
Numbers(t) == \A i \in 1..Len(t) : t[i].ind \in Nat /\ t[i].id \in Nat

\* Where blocks go by indentation, the new lines are at the one of B and deeper.
Indented(t, u, p, m, h, B) ==
    ~Braces =>
        /\ OneShallow(u)
        /\ \A k \in h..(p + m) : u[k].kind # "close"
        /\ \E v \in Nat : StartsAt(u, p, m, h, v) /\ \A i \in B : t[i].ind < v

\* The parts of what a text has to be.
DistinctLines(t) == \A i, j \in 1..Len(t) : t[i].id = t[j].id => i = j \/ t[i].id = 0

\* Every line is in the definitions it was written into.
Placed(t) ==
    \A i \in 1..Len(t) :
        /\ t[i].kind \in CodeKinds => Around(t, i) = t[i].own
        /\ IsBlank(t[i]) \/ (t[i].id # 0 /\ Around(t, i) \subseteq t[i].own)

\* Every line is of a kind of the language.
KindsKnown(t) == \A i \in 1..Len(t) : t[i].kind \in Kinds

\* Trivia stand over a symbol, and a comment starts where it starts.
Standing(t) ==
    \A i \in 1..Len(t) :
        /\ t[i].kind \in Trivia => StandsOver(t, i)
        /\ InDoc(t[i]) => i > 1 /\ DocGoesOn(t[i - 1])

\* What is inside a definition is deeper.
DeepBlocks(t) ==
    ~Braces => \A i \in 1..Len(t) : t[i].kind \in Headers =>
        \A k \in (i + 1)..SpanEnd(t, i) : IsBlank(t[k]) \/ t[k].ind > t[i].ind

\* These are the parts.
LEMMA WrittenParts ==
    ASSUME NEW t, IsText(t)
    PROVE  Editable(t) <=> /\ Reparses(t) /\ DistinctLines(t) /\ Placed(t) /\ KindsKnown(t)
                          /\ Standing(t) /\ DeepBlocks(t) /\ (~Braces => OneShallow(t))
<1>1. DOMAIN t = 1..Len(t) /\ Len(t) \in Nat
  BY LenProperties DEF IsText
<1>2. ASSUME Editable(t)
      PROVE  /\ Reparses(t) /\ DistinctLines(t) /\ Placed(t) /\ KindsKnown(t)
             /\ Standing(t) /\ DeepBlocks(t) /\ (~Braces => OneShallow(t))
  <2>1. Reparses(t) /\ DistinctLines(t)
    BY <1>1, <1>2 DEF Editable, DistinctLines
  <2>2. Placed(t)
    BY <1>1, <1>2 DEF Editable, Placed, InItsSymbols
  <2>3. KindsKnown(t) /\ Standing(t)
    BY <1>1, <1>2 DEF Editable, KindsKnown, Standing
  <2>4. DeepBlocks(t)
    BY <1>1, <1>2 DEF Editable, DeepBlocks
  <2>5. ~Braces => OneShallow(t)
    BY <1>1, <1>2 DEF Editable, OneShallow, Solid, Headers
  <2> QED
    BY <2>1, <2>2, <2>3, <2>4, <2>5
<1>3. ASSUME Reparses(t), DistinctLines(t), Placed(t), KindsKnown(t), Standing(t), DeepBlocks(t),
             ~Braces => OneShallow(t)
      PROVE  Editable(t)
  <2>1. InItsSymbols(t) /\ \A i \in DOMAIN t :
            /\ t[i].kind \in Kinds
            /\ IsBlank(t[i]) \/ (t[i].id # 0 /\ Around(t, i) \subseteq t[i].own)
            /\ t[i].kind \in Trivia => StandsOver(t, i)
            /\ InDoc(t[i]) => i > 1 /\ DocGoesOn(t[i - 1])
    BY <1>1, <1>3 DEF InItsSymbols, Placed, KindsKnown, Standing
  <2>2. \A i, j \in DOMAIN t : t[i].id = t[j].id => i = j \/ t[i].id = 0
    BY <1>1, <1>3 DEF DistinctLines
  <2>3. ~Braces => \A i \in DOMAIN t : t[i].kind \in Headers =>
          /\ \A k \in (i + 1)..SpanEnd(t, i) : IsBlank(t[k]) \/ t[k].ind > t[i].ind
          /\ t[i].kind = "one" =>
              \A k \in (i + 1)..Len(t) : t[k].kind \in NoCode \/ ~Deeper(t, i, k)
    BY <1>1, <1>3 DEF DeepBlocks, OneShallow, Solid
  <2> QED
    BY <1>3, <2>1, <2>2, <2>3 DEF Editable
<1> QED
  BY <1>2, <1>3

\* The lines of an edited text, and where they come from.
LinesOf(t, u, p, q, m, h) ==
    /\ \A i \in Stays(t, p, q) :
         i \in 1..Len(t) /\ Moved(p, q, m, i) \in 1..Len(u) /\ u[Moved(p, q, m, i)] = t[i]
    /\ \A j \in 1..Len(u) :
         \/ \E i \in Stays(t, p, q) : j = Moved(p, q, m, i)
         \/ j \in h..(p + m)
         \/ j \in (p + 1)..(p + m) /\ j < h /\ IsBlank(u[j])
    /\ \A k \in h..(p + m) :
         /\ k \in (p + 1)..(p + m)
         /\ u[k].kind \in Headers \cup {"stmt", "close"} \cup NoCode
         /\ u[k].kind \in Headers => k = h
    /\ Len(t) \in Nat /\ Len(u) \in Nat /\ p \in Nat /\ q \in Nat /\ m \in Nat /\ h \in Nat
    /\ p <= q /\ q <= Len(t) /\ Len(u) = Len(t) - q + (p + m) /\ p < h /\ h <= p + m + 1

\* An edit has such lines.
LEMMA LinesAfter ==
    ASSUME NEW t, NEW u, NEW p, NEW q, NEW m, NEW h, NEW B, NEW id,
           Edit(t, u, p, q, m, h, B, id)
    PROVE  LinesOf(t, u, p, q, m, h)
<1>1. /\ Spliced(t, u, p, q, m) /\ NewLines(u, p, m, h)
  BY DEF Edit
<1>2. /\ IsText(t) /\ IsText(u) /\ Len(u) \in Nat /\ Len(t) \in Nat
      /\ p \in Nat /\ q \in Nat /\ m \in Nat /\ p <= q /\ q <= Len(t)
      /\ Len(u) = Len(t) - q + (p + m)
  BY <1>1, EmptyIffShort DEF Spliced
<1>3. /\ \A i \in Stays(t, p, q) :
                i \in 1..Len(t) /\ Moved(p, q, m, i) \in 1..Len(u) /\ u[Moved(p, q, m, i)] = t[i]
      /\ \A j \in 1..Len(u) :
                j \in (p + 1)..(p + m) \/ \E i \in Stays(t, p, q) : j = Moved(p, q, m, i)
  BY <1>1, MovedLines
<1>4. /\ h \in (p + 1)..(p + m + 1)
      /\ \A k \in (p + 1)..(h - 1) : IsBlank(u[k])
      /\ h <= p + m => u[h].kind \in Headers
      /\ \A k \in (h + 1)..(p + m) : u[k].kind \in {"stmt", "close"} \cup NoCode
  BY <1>1 DEF NewLines
<1>5. \A j \in (p + 1)..(p + m) : j \in h..(p + m) \/ (j < h /\ j \in (p + 1)..(h - 1))
  BY <1>2, <1>4
<1>6. \A k \in h..(p + m) : k \in (p + 1)..(p + m) /\ (k = h \/ k \in (h + 1)..(p + m)) /\ h <= p + m
  BY <1>2, <1>4
<1>7. \A x \in {"stmt", "close"} \cup NoCode : x \notin Headers
  BY DEF NoCode, Headers
<1> DEFINE R == Stays(t, p, q)
           f(i) == Moved(p, q, m, i)
<1>8. ASSUME NEW j \in 1..Len(u)
      PROVE  \/ \E i \in R : j = f(i)
             \/ j \in h..(p + m)
             \/ j \in (p + 1)..(p + m) /\ j < h /\ IsBlank(u[j])
  <2>1. j \in (p + 1)..(p + m) \/ \E i \in R : j = f(i)
    BY <1>3
  <2> HIDE DEF R, f
  <2> QED
    BY <1>4, <1>5, <2>1
<1>9. ASSUME NEW k \in h..(p + m)
      PROVE  /\ k \in (p + 1)..(p + m)
             /\ u[k].kind \in Headers \cup {"stmt", "close"} \cup NoCode
             /\ u[k].kind \in Headers => k = h
  BY <1>4, <1>6, <1>7
<1>10. p < h /\ h <= p + m + 1 /\ h \in Nat
  BY <1>2, <1>4
<1>11. \A i \in R : i \in 1..Len(t) /\ f(i) \in 1..Len(u) /\ u[f(i)] = t[i]
  BY <1>3
<1> HIDE DEF R, f
<1>12. \A j \in 1..Len(u) : \/ \E i \in R : j = f(i)
                            \/ j \in h..(p + m)
                            \/ j \in (p + 1)..(p + m) /\ j < h /\ IsBlank(u[j])
  BY <1>8
<1>13. \A k \in h..(p + m) : /\ k \in (p + 1)..(p + m)
                             /\ u[k].kind \in Headers \cup {"stmt", "close"} \cup NoCode
                             /\ u[k].kind \in Headers => k = h
  BY <1>9
<1> QED
  BY <1>2, <1>10, <1>11, <1>12, <1>13, Zenon DEF R, f, LinesOf

\* No line comes twice, ...
LEMMA DistinctAfter ==
    ASSUME NEW t, NEW u, NEW p, NEW q, NEW m, NEW h, NEW B, NEW id,
           Edit(t, u, p, q, m, h, B, id), DistinctLines(t)
    PROVE  DistinctLines(u)
<1> DEFINE R == Stays(t, p, q)
           f(i) == Moved(p, q, m, i)
<1>0. LinesOf(t, u, p, q, m, h)
  BY LinesAfter
<1>1. /\ \A i \in R : i \in 1..Len(t) /\ f(i) \in 1..Len(u) /\ u[f(i)] = t[i]
      /\ \A j \in 1..Len(u) : (\E i \in R : j = f(i)) \/ j \in (p + 1)..(p + m)
  BY <1>0 DEF LinesOf
<1>2. ASSUME NEW i \in R
      PROVE  ~(i = p + 1 /\ p < q)
  BY <1>0 DEF LinesOf, R, Stays
<1>3. NewIds(t, u, p, q, m)
  BY DEF Edit
<1> HIDE DEF R, f
<1>4. ASSUME NEW i \in 1..Len(u), NEW j \in 1..Len(u), u[i].id = u[j].id, u[i].id # 0
      PROVE  i = j
  <2>1. CASE \E x \in R : i = f(x)
    <3>1. PICK x \in R : i = f(x)
      BY <2>1
    <3>2. CASE \E y \in R : j = f(y)
      BY <1>1, <1>4, <3>1, <3>2 DEF DistinctLines
    <3>3. CASE j \in (p + 1)..(p + m)
      BY <1>1, <1>2, <1>3, <1>4, <3>1, <3>3 DEF NewIds
    <3> QED
      BY <1>1, <3>2, <3>3
  <2>2. CASE i \in (p + 1)..(p + m)
    <3>1. CASE \E y \in R : j = f(y)
      BY <1>1, <1>2, <1>3, <1>4, <2>2, <3>1 DEF NewIds
    <3>2. CASE j \in (p + 1)..(p + m)
      BY <1>3, <1>4, <2>2, <3>2 DEF NewIds
    <3> QED
      BY <1>1, <3>1, <3>2
  <2> QED
    BY <1>1, <2>1, <2>2
<1> QED
  BY <1>4 DEF DistinctLines

\* ... every line is where it belongs, ...
LEMMA PlacedAfter ==
    ASSUME NEW t, NEW u, NEW p, NEW q, NEW m, NEW h, NEW B, NEW id,
           Edit(t, u, p, q, m, h, B, id), Placed(t)
    PROVE  Placed(u)
<1> DEFINE R == Stays(t, p, q)
           f(i) == Moved(p, q, m, i)
           K == CodeKinds
<1>0. LinesOf(t, u, p, q, m, h)
  BY LinesAfter
<1>1. /\ \A i \in R : i \in 1..Len(t) /\ f(i) \in 1..Len(u) /\ u[f(i)] = t[i]
      /\ \A j \in 1..Len(u) :
            \/ \E i \in R : j = f(i)
            \/ j \in h..(p + m)
            \/ j \in (p + 1)..(p + m) /\ j < h /\ IsBlank(u[j])
      /\ \A k \in h..(p + m) : k \in (p + 1)..(p + m)
  BY <1>0 DEF LinesOf
<1>2. \A k \in R : ~IsBlank(t[k]) =>
            /\ Around(u, f(k)) \subseteq Around(t, k)
            /\ Solid(t[k]) => Around(u, f(k)) = Around(t, k)
  BY AroundStays
<1>3. \A k \in h..(p + m) : ~IsBlank(u[k]) =>
            /\ Around(u, k) \subseteq u[k].own
            /\ Solid(u[k]) => Around(u, k) = u[k].own
  BY AroundNew
<1>4. \A x : x.kind \in K => Solid(x) /\ ~IsBlank(x)
  BY DEF K, CodeKinds, Solid, NoCode, IsBlank, Headers
<1>5. \A k \in (p + 1)..(p + m) : u[k].id = 0 => IsBlank(u[k])
  BY DEF Edit, NewIds
<1>6. \A i \in 1..Len(t) : /\ t[i].kind \in K => Around(t, i) = t[i].own
                           /\ IsBlank(t[i]) \/ (t[i].id # 0 /\ Around(t, i) \subseteq t[i].own)
  BY DEF Placed
<1> HIDE DEF R, f, K
<1>7. ASSUME NEW j \in 1..Len(u)
      PROVE  /\ u[j].kind \in K => Around(u, j) = u[j].own
             /\ IsBlank(u[j]) \/ (u[j].id # 0 /\ Around(u, j) \subseteq u[j].own)
  <2>1. CASE \E i \in R : j = f(i)
    <3>1. PICK i \in R : j = f(i)
      BY <2>1
    <3>2. u[j] = t[i] /\ i \in 1..Len(t)
      BY <1>1, <3>1
    <3>3. ~IsBlank(t[i]) => /\ Around(u, j) \subseteq Around(t, i)
                            /\ Solid(t[i]) => Around(u, j) = Around(t, i)
      BY <1>2, <3>1
    <3>4. /\ t[i].kind \in K => Around(t, i) = t[i].own
          /\ IsBlank(t[i]) \/ (t[i].id # 0 /\ Around(t, i) \subseteq t[i].own)
      BY <1>6, <3>2
    <3>5. t[i].kind \in K => Solid(t[i]) /\ ~IsBlank(t[i])
      BY <1>4
    <3> QED
      BY <3>2, <3>3, <3>4, <3>5
  <2>2. CASE j \in h..(p + m)
    <3>1. IsBlank(u[j]) \/ u[j].id # 0
      BY <1>1, <1>5, <2>2
    <3> QED
      BY <1>3, <1>4, <2>2, <3>1
  <2>3. CASE IsBlank(u[j])
    BY <1>4, <2>3
  <2> QED
    BY <1>1, <2>1, <2>2, <2>3
<1> QED
  BY <1>7 DEF Placed, K

\* ... of a kind there is, ...
LEMMA KindsAfter ==
    ASSUME NEW t, NEW u, NEW p, NEW q, NEW m, NEW h, NEW B, NEW id,
           Edit(t, u, p, q, m, h, B, id), KindsKnown(t), Indented(t, u, p, m, h, B)
    PROVE  KindsKnown(u)
<1>0. LinesOf(t, u, p, q, m, h)
  BY LinesAfter
<1>1. /\ \A i \in Stays(t, p, q) : i \in 1..Len(t) /\ u[Moved(p, q, m, i)] = t[i]
      /\ \A j \in 1..Len(u) :
            \/ \E i \in Stays(t, p, q) : j = Moved(p, q, m, i)
            \/ j \in h..(p + m)
            \/ j \in (p + 1)..(p + m) /\ j < h /\ IsBlank(u[j])
      /\ \A k \in h..(p + m) : u[k].kind \in Headers \cup {"stmt", "close"} \cup NoCode
  BY <1>0 DEF LinesOf
<1>2. ~Braces => \A k \in h..(p + m) : u[k].kind # "close"
  BY DEF Indented
<1>3. Headers \cup {"stmt"} \cup NoCode \subseteq Kinds /\ (Braces => "close" \in Kinds)
      /\ "blank" \in Kinds
  BY DEF Kinds, NoCode
<1>4. ASSUME NEW j \in 1..Len(u)
      PROVE  u[j].kind \in Kinds
  <2>1. CASE \E i \in Stays(t, p, q) : j = Moved(p, q, m, i)
    BY <1>1, <2>1 DEF KindsKnown
  <2>2. CASE j \in h..(p + m)
    BY <1>1, <1>2, <1>3, <2>2
  <2>3. CASE IsBlank(u[j])
    BY <1>3, <2>3 DEF IsBlank
  <2> QED
    BY <1>1, <2>1, <2>2, <2>3
<1> QED
  BY <1>4 DEF KindsKnown

\* ... the trivia stand where they stood, ...
LEMMA StandingAfter ==
    ASSUME NEW t, NEW u, NEW p, NEW q, NEW m, NEW h, NEW B, NEW id,
           Edit(t, u, p, q, m, h, B, id), Standing(t)
    PROVE  Standing(u)
<1> DEFINE R == Stays(t, p, q)
           f(i) == Moved(p, q, m, i)
           n == Len(t)
           l == Len(u)
<1>0. LinesOf(t, u, p, q, m, h)
  BY LinesAfter
<1>1. /\ \A i \in R : i \in 1..n /\ f(i) \in 1..l /\ u[f(i)] = t[i]
      /\ \A j \in 1..l :
            \/ \E i \in R : j = f(i)
            \/ j \in h..(p + m)
            \/ j \in (p + 1)..(p + m) /\ j < h /\ IsBlank(u[j])
      /\ \A k \in h..(p + m) : u[k].kind \in Headers \cup {"stmt", "close"} \cup NoCode
      /\ n \in Nat /\ l \in Nat /\ p \in Nat /\ q \in Nat /\ m \in Nat
      /\ p <= q /\ q <= n /\ l = n - q + (p + m)
  BY <1>0 DEF LinesOf
<1>2. /\ p >= 1 /\ t[p].kind \in Trivia => StandsOver(u, p)
      /\ q >= 1 => t[q].kind \notin Trivia
  BY DEF Edit, Seams
<1>3. /\ \A i \in 1..n : /\ t[i].kind \in Trivia => StandsOver(t, i)
                         /\ InDoc(t[i]) => i > 1 /\ DocGoesOn(t[i - 1])
  BY DEF Standing
<1>4. \A x : (InDoc(x) \/ DocGoesOn(x)) => x.kind \in Trivia
  BY DEF InDoc, DocGoesOn, Trivia, Decorating, OpensAny, OpensDoc
<1>5. \A x \in Trivia : x \notin Headers \cup {"stmt", "close"} \cup NoCode /\ x # "blank"
  BY DEF Trivia, Decorating, Attached, OpensAny, OpensDoc, Headers, NoCode
<1>S. n \in Nat /\ p \in Nat /\ q \in Nat /\ m \in Nat /\ p <= q /\ q <= n
  BY <1>1
<1>F. /\ \A i : i \in R <=> i \in 1..p \/ i \in (q + 1)..n
      /\ \A i : f(i) = IF i <= p THEN i ELSE i - q + (p + m)
  BY DEF Stays, Moved
<1> HIDE DEF n, R, f
<1>6. \A i \in R : i + 1 \in R /\ i # p => f(i + 1) = f(i) + 1
  BY ONLY <1>S, <1>F
<1>7. \A i \in R : i < n /\ i # p => i + 1 \in R
  BY ONLY <1>S, <1>F
<1>8. \A i \in R : i > 1 /\ i # q + 1 => i - 1 \in R /\ (i - 1 # p \/ p = q)
  BY ONLY <1>S, <1>F
<1>9. \A i \in R : i > 1 /\ i # q + 1 => f(i) > 1 /\ f(i) - 1 = f(i - 1)
  BY ONLY <1>S, <1>F
<1>10. \A i \in R : i = p => f(i) = p /\ p >= 1
  BY ONLY <1>S, <1>F
<1> HIDE DEF R, f, n, l
<1>11. ASSUME NEW i \in R
       PROVE  /\ t[i].kind \in Trivia => StandsOver(u, f(i))
              /\ InDoc(t[i]) => f(i) > 1 /\ DocGoesOn(u[f(i) - 1])
  <2>1. i \in 1..n /\ f(i) \in 1..l /\ u[f(i)] = t[i]
    BY <1>1
  <2>2. ASSUME t[i].kind \in Trivia, i # p
        PROVE  StandsOver(u, f(i))
    <3>1. StandsOver(t, i)
      BY <1>3, <2>1, <2>2
    <3>2. i < n
      BY <3>1 DEF StandsOver, n
    <3>3. i + 1 \in R /\ f(i + 1) = f(i) + 1
      BY <1>6, <1>7, <2>2, <3>2
    <3>4. u[f(i) + 1] = t[i + 1] /\ f(i) + 1 \in 1..l
      BY <1>1, <3>3
    <3>5. f(i) < l
      BY <1>1, <2>1, <3>4
    <3> QED
      BY <2>1, <3>1, <3>4, <3>5 DEF StandsOver, l
  <2>3. ASSUME t[i].kind \in Trivia, i = p
        PROVE  StandsOver(u, f(i))
    BY <1>2, <1>10, <2>3
  <2>4. ASSUME InDoc(t[i])
        PROVE  f(i) > 1 /\ DocGoesOn(u[f(i) - 1])
    <3>1. i > 1 /\ DocGoesOn(t[i - 1])
      BY <1>3, <2>1, <2>4
    <3>2. t[i - 1].kind \in Trivia
      BY <1>4, <3>1
    <3>3. i # q + 1
      BY <1>1, <1>2, <2>1, <3>1, <3>2
    <3>4. i - 1 \in R /\ f(i) > 1 /\ f(i) - 1 = f(i - 1)
      BY <1>8, <1>9, <3>1, <3>3
    <3> QED
      BY <1>1, <3>1, <3>4
  <2> QED
    BY <2>2, <2>3, <2>4
<1>12. ASSUME NEW j \in 1..l
       PROVE  /\ u[j].kind \in Trivia => StandsOver(u, j)
              /\ InDoc(u[j]) => j > 1 /\ DocGoesOn(u[j - 1])
  <2>1. CASE \E i \in R : j = f(i)
    BY <1>1, <1>11, <2>1
  <2>2. CASE u[j].kind \notin Trivia
    BY <1>4, <2>2
  <2>3. j \in h..(p + m) => u[j].kind \notin Trivia
    BY <1>1, <1>5
  <2>4. IsBlank(u[j]) => u[j].kind \notin Trivia
    BY <1>5 DEF IsBlank
  <2> QED
    BY <1>1, <2>1, <2>2, <2>3, <2>4
<1> QED
  BY <1>12 DEF Standing, l

\* ... and what is inside a definition is deeper.
LEMMA DeepAfter ==
    ASSUME NEW t, NEW u, NEW p, NEW q, NEW m, NEW h, NEW B, NEW id,
           Edit(t, u, p, q, m, h, B, id), DeepBlocks(t), Indented(t, u, p, m, h, B),
           Numbers(t), Numbers(u)
    PROVE  DeepBlocks(u)
<1> SUFFICES ASSUME ~Braces
             PROVE  DeepBlocks(u)
  BY DEF DeepBlocks
<1> DEFINE R == Stays(t, p, q)
           f(i) == Moved(p, q, m, i)
           n == Len(t)
           l == Len(u)
<1>0. LinesOf(t, u, p, q, m, h)
  BY LinesAfter
<1>1. /\ \A i \in R : i \in 1..n /\ f(i) \in 1..l /\ u[f(i)] = t[i]
      /\ \A j \in 1..l :
            \/ \E i \in R : j = f(i)
            \/ j \in h..(p + m)
            \/ j \in (p + 1)..(p + m) /\ j < h /\ IsBlank(u[j])
      /\ \A k \in h..(p + m) : u[k].kind \in Headers => k = h
      /\ n \in Nat /\ l \in Nat /\ p \in Nat /\ q \in Nat /\ m \in Nat /\ h \in Nat
      /\ p <= q /\ q <= n /\ l = n - q + (p + m) /\ p < h /\ h <= p + m + 1
  BY <1>0 DEF LinesOf
<1>2. /\ SameSpans(t, u, p, q, m) /\ NewSpans(u, p, m, h, B) /\ NothingElse(t, u, p, q, m, h)
      /\ NewOwn(t, u, p, m, h, B, id) /\ IsText(u) /\ Spliced(t, u, p, q, m)
  BY DEF Edit, Spliced
<1>3. /\ \A i \in R : (i \in 1..p /\ f(i) = i) \/ (i \in (q + 1)..n /\ f(i) \in (p + m + 1)..l)
      /\ \A i, k \in R : i < k <=> f(i) < f(k)
  BY <1>2, MovedLines
<1>4. PICK v \in Nat : StartsAt(u, p, m, h, v) /\ \A i \in B : t[i].ind < v
  BY DEF Indented
<1>5. /\ h <= p + m => u[h].ind = v
      /\ \A k \in (h + 1)..(p + m) : ~IsBlank(u[k]) => u[k].ind > v
  BY <1>4 DEF StartsAt
<1>6. \A i, k \in R : i < k /\ t[i].kind \in Headers /\ In(u, f(i), f(k)) /\ ~IsBlank(t[k]) => In(t, i, k)
  <2>1. \A i, k \in R : i < k => i <= k
    BY <1>1
  <2> QED
    BY <1>2, <2>1 DEF SameSpans
<1>7. \A i, k \in R : i < k /\ t[i].kind \in Headers /\ In(t, i, k) =>
            IsBlank(t[k]) \/ t[k].ind > t[i].ind
  <2>1. ASSUME NEW i \in R, NEW k \in R, i < k, t[i].kind \in Headers, In(t, i, k)
        PROVE  IsBlank(t[k]) \/ t[k].ind > t[i].ind
    <3>1. i \in 1..n /\ k \in 1..n /\ SpanEnd(t, i) \in i..n
      BY <1>1, <1>2, SpanEndWithin DEF n, IsText, Spliced
    <3>2. k \in (i + 1)..SpanEnd(t, i)
      BY <1>1, <2>1, <3>1 DEF In
    <3> QED
      BY <2>1, <3>1, <3>2 DEF DeepBlocks, n
  <2> QED
    BY <2>1
<1>8. \A i \in 1..p, k \in h..(p + m) :
        u[i].kind \in Headers /\ In(u, i, k) /\ ~IsBlank(u[k]) => i \in B
  BY <1>2 DEF NewSpans
<1>9. h <= p + m => \A k \in (p + m + 1)..l : ~IsBlank(u[k]) => ~In(u, h, k)
  BY <1>2 DEF NothingElse, l
<1>10. (\A i \in 1..n : t[i].ind \in Nat) /\ (\A i \in 1..l : u[i].ind \in Nat)
  BY DEF Numbers, n, l
<1> HIDE DEF R, f, n, l
<1>11. ASSUME NEW x \in 1..l, NEW y \in 1..l, x < y, u[x].kind \in Headers, In(u, x, y), ~IsBlank(u[y])
       PROVE  u[y].ind > u[x].ind
  <2>1. x \notin (p + 1)..(p + m) \/ x = h
    <3>1. ~IsBlank(u[x])
      BY <1>11 DEF IsBlank, Headers
    <3>2. x \in (p + 1)..(p + m) => x \in h..(p + m) \/ x < h
      BY <1>1
    <3>3. (\E i \in R : x = f(i)) => x \notin (p + 1)..(p + m)
      BY <1>1, <1>3
    <3> QED
      BY <1>1, <1>11, <3>1, <3>3
  <2>2. CASE \E k \in R : y = f(k)
    <3>1. PICK k \in R : y = f(k)
      BY <2>2
    <3>2. CASE \E i \in R : x = f(i)
      <4>1. PICK i \in R : x = f(i)
        BY <3>2
      <4>2. i < k /\ u[x] = t[i] /\ u[y] = t[k]
        BY <1>1, <1>3, <1>11, <3>1, <4>1
      <4>3. In(t, i, k)
        BY <1>6, <1>11, <3>1, <4>1, <4>2
      <4> QED
        BY <1>7, <1>11, <4>2, <4>3
    <3>3. CASE x = h /\ h <= p + m
      <4>1. y \in (p + m + 1)..l
        BY <1>1, <1>3, <1>11, <3>1, <3>3
      <4> QED
        BY <1>9, <1>11, <3>3, <4>1
    <3> QED
      <4>1. x \in h..(p + m) => x = h /\ h <= p + m
        BY <1>1, <1>11
      <4>2. x \in (p + 1)..(p + m) /\ x < h => FALSE
        BY <1>1, <2>1
      <4> QED
        BY <1>1, <3>2, <3>3, <4>1, <4>2
  <2>3. CASE y \in h..(p + m)
    <3>1. CASE x \in 1..p
      <4>1. x \in B
        BY <1>8, <1>11, <2>3, <3>1
      <4>2. u[x] = t[x] /\ x \in 1..n
        BY <1>1, <1>2, <3>1 DEF Spliced
      <4>3. t[x].ind < v
        BY <1>4, <4>1
      <4>4. u[y].ind = v \/ u[y].ind > v
        <5>1. y = h \/ y \in (h + 1)..(p + m)
          BY <1>1, <2>3
        <5>2. h <= p + m
          BY <1>1, <2>3
        <5> QED
          BY <1>5, <1>11, <5>1, <5>2
      <4>5. t[x].ind \in Nat /\ u[y].ind \in Nat
        BY <1>10, <4>2
      <4> QED
        BY <4>2, <4>3, <4>4, <4>5
    <3>2. CASE x = h
      <4>1. y \in (h + 1)..(p + m) /\ h <= p + m
        BY <1>1, <1>11, <2>3, <3>2
      <4> QED
        BY <1>5, <1>11, <3>2, <4>1
    <3> QED
      <4>1. x \in 1..p \/ x \in (p + 1)..(p + m)
        BY <1>1, <1>11, <2>3
      <4> QED
        BY <2>1, <3>1, <3>2, <4>1
  <2> QED
    BY <1>1, <1>11, <2>2, <2>3
<1>12. ASSUME NEW x \in 1..l, u[x].kind \in Headers, NEW y \in (x + 1)..SpanEnd(u, x)
       PROVE  IsBlank(u[y]) \/ u[y].ind > u[x].ind
  <2>1. SpanEnd(u, x) \in x..l
    BY <1>2, SpanEndWithin DEF l, IsText
  <2>2. y \in 1..l /\ x < y /\ In(u, x, y)
    BY <1>1, <2>1 DEF In
  <2> QED
    BY <1>11, <1>12, <2>2
<1> QED
  BY <1>12 DEF DeepBlocks, l

\* An edit leaves a text that the next one can rely on.
LEMMA EditedIsWritten ==
    ASSUME NEW t, NEW u, NEW p, NEW q, NEW m, NEW h, NEW B, NEW id,
           Edit(t, u, p, q, m, h, B, id), Editable(t), Reparses(u), Indented(t, u, p, m, h, B),
           Numbers(t), Numbers(u)
    PROVE  Editable(u)
<1>1. IsText(t) /\ IsText(u)
  BY DEF Edit, Spliced
<1>2. /\ DistinctLines(t) /\ Placed(t) /\ KindsKnown(t) /\ Standing(t) /\ DeepBlocks(t)
  BY <1>1, WrittenParts
<1>3. DistinctLines(u) /\ Placed(u) /\ KindsKnown(u) /\ Standing(u) /\ DeepBlocks(u)
  BY <1>2, DistinctAfter, PlacedAfter, KindsAfter, StandingAfter, DeepAfter
<1>4. ~Braces => OneShallow(u)
  BY DEF Indented
<1> QED
  BY <1>1, <1>3, <1>4, WrittenParts

-----------------------------------------------------------------------------
(***************************************************************************)
(* What an edit keeps of the other lines.                                  *)
(***************************************************************************)

\* What an edit keeps of the lines of a text.
LinesKept(t, u) ==
    LET lost == {i \in 1..Len(t) : t[i].id \notin Ids(u) /\ ~IsBlank(t[i])}
        same(i, k) == t[i].id = u[k].id /\ t[i].id # 0
    IN  /\ lost = {} \/ \E s \in Symbols(t) : \A i \in lost : s.id \in t[i].own
        /\ \A i, j \in 1..Len(t), k, l \in 1..Len(u) :
            same(i, k) /\ same(j, l) /\ i <= j => k <= l

\* The lines taken away are of one symbol, if there are any.
OfOneSymbol(t, p, q) ==
    p = q \/ \E s \in Symbols(t) : \A i \in (p + 1)..q : IsBlank(t[i]) \/ s.id \in t[i].own

\* What an edit takes away is of one symbol, and the others keep their order.
LEMMA EditKeepsLines ==
    ASSUME NEW t, NEW u, NEW p, NEW q, NEW m, NEW h, NEW B, NEW id,
           Edit(t, u, p, q, m, h, B, id), Editable(t), Editable(u), OfOneSymbol(t, p, q)
    PROVE  LinesKept(t, u)
<1> DEFINE R == Stays(t, p, q)
           f(i) == Moved(p, q, m, i)
           n == Len(t)
           l == Len(u)
           lost == {i \in 1..n : t[i].id \notin Ids(u) /\ ~IsBlank(t[i])}
<1>1. IsText(t) /\ IsText(u) /\ Spliced(t, u, p, q, m) /\ NewIds(t, u, p, q, m)
  BY DEF Edit, Spliced
<1>2. DistinctLines(t) /\ DistinctLines(u) /\ Placed(t)
  BY <1>1, WrittenParts
<1>3. /\ \A i \in R : i \in 1..n /\ f(i) \in 1..l /\ u[f(i)] = t[i]
      /\ \A j \in 1..l : j \in (p + 1)..(p + m) \/ \E i \in R : j = f(i)
      /\ \A i, k \in R : (i < k <=> f(i) < f(k)) /\ (i = k <=> f(i) = f(k))
      /\ \A i \in R : (i \in 1..p /\ f(i) = i) \/ (i \in (q + 1)..n /\ f(i) \in (p + m + 1)..l)
  BY <1>1, MovedLines
<1>4. /\ n \in Nat /\ l \in Nat /\ p \in Nat /\ q \in Nat /\ m \in Nat
      /\ p <= q /\ q <= n /\ l = n - q + (p + m)
  BY <1>1, EmptyIffShort DEF Spliced
<1>5. \A i \in 1..n : i \in R \/ i \in (p + 1)..q
  BY <1>4 DEF R, Stays
<1>6. DOMAIN u = 1..l
  BY <1>1, LenProperties DEF IsText
<1>7. ASSUME NEW i \in R, ~IsBlank(t[i])
      PROVE  t[i].id \in Ids(u)
  <2>1. t[i].id # 0 /\ f(i) \in DOMAIN u /\ u[f(i)] = t[i]
    BY <1>2, <1>3, <1>6, <1>7 DEF Placed
  <2> HIDE DEF f
  <2> QED
    BY <2>1 DEF Ids
<1> HIDE DEF R, f, n, l
<1>8. lost = {} \/ \E s \in Symbols(t) : \A i \in lost : s.id \in t[i].own
  <2>1. \A i \in lost : i \in (p + 1)..q /\ ~IsBlank(t[i])
    BY <1>5, <1>7
  <2>2. CASE p = q
    BY <1>4, <2>1, <2>2
  <2>3. CASE p # q
    <3>1. PICK s \in Symbols(t) : \A i \in (p + 1)..q : IsBlank(t[i]) \/ s.id \in t[i].own
      BY <2>3 DEF OfOneSymbol
    <3> HIDE DEF lost
    <3>2. \A i \in lost : s.id \in t[i].own
      BY <2>1, <3>1
    <3> QED
      BY <3>2
  <2> QED
    BY <2>2, <2>3
\* Where a line is found again.
<1>9. ASSUME NEW i \in 1..n, NEW k \in 1..l, t[i].id = u[k].id, t[i].id # 0
      PROVE  (i \in R /\ k = f(i)) \/ (i = p + 1 /\ k = p + 1 /\ i \notin R /\ p < q)
  <2>1. CASE i \in R
    BY <1>2, <1>3, <1>9, <2>1 DEF DistinctLines, l
  <2>2. CASE i \notin R
    <3>1. ~ \E j \in R : k = f(j)
      BY <1>2, <1>3, <1>9, <2>2 DEF DistinctLines, n
    <3>2. k \in (p + 1)..(p + m)
      BY <1>3, <3>1
    <3> QED
      BY <1>1, <1>9, <2>2, <3>2 DEF NewIds, n
  <2> QED
    BY <2>1, <2>2
<1>10. ASSUME NEW i \in 1..n, NEW j \in 1..n, NEW k \in 1..l, NEW x \in 1..l,
              t[i].id = u[k].id, t[i].id # 0, t[j].id = u[x].id, t[j].id # 0, i <= j
       PROVE  k <= x
  <2>1. (i \in R /\ k = f(i)) \/ (i = p + 1 /\ k = p + 1 /\ i \notin R /\ p < q)
    BY <1>9, <1>10
  <2>2. (j \in R /\ x = f(j)) \/ (j = p + 1 /\ x = p + 1 /\ j \notin R /\ p < q)
    BY <1>9, <1>10
  <2>3. CASE i \in R /\ j \in R
    BY <1>3, <1>4, <1>10, <2>1, <2>2, <2>3
  <2>4. CASE i \in R /\ j \notin R
    <3>1. i <= p + 1 /\ p < q
      BY <1>10, <2>2, <2>4
    <3>2. i \in 1..p /\ f(i) = i
      BY <1>3, <1>4, <2>4, <3>1
    <3> QED
      BY <1>4, <2>1, <2>2, <2>4, <3>2
  <2>5. CASE i \notin R /\ j \in R
    <3>1. k = p + 1 /\ p + 1 <= j /\ p < q
      BY <1>10, <2>1, <2>5
    <3>2. f(j) \in (p + m + 1)..l
      BY <1>3, <1>4, <2>5, <3>1
    <3> QED
      BY <1>4, <2>2, <2>5, <3>1, <3>2
  <2>6. CASE i \notin R /\ j \notin R
    BY <1>4, <2>1, <2>2, <2>6
  <2> QED
    BY <2>3, <2>4, <2>5, <2>6
<1> QED
  BY <1>8, <1>10 DEF LinesKept, n, l

-----------------------------------------------------------------------------
(***************************************************************************)
(* Where there is room for lines, an edit is as it should be; new numbers. *)
(***************************************************************************)

\* Lines p + 1..q may make room for lines of indentation v.
Room(t, p, q, v) ==
    IF Braces THEN Level(t, p, q) ELSE Fits(t, p, q, v) /\ Reaching(t, p, v)

\* The definitions the new lines come to be in.
Enclosing(t, p, v) == IF Braces THEN Open(t, p) ELSE OpenFor(t, p, v)

\* The new lines, from h on, are one definition of indentation v.
NewBlock(u, p, m, h, v) ==
    /\ NewLines(u, p, m, h)
    /\ ~Braces => StartsAt(u, p, m, h, v) /\ \A k \in h..(p + m) : u[k].kind # "close"

\* Lines are put where there is room for them, and belong there.
Fitted(t, u, p, q, m, h, v, id) ==
    /\ Spliced(t, u, p, q, m)
    /\ Room(t, p, q, v)
    /\ NewBlock(u, p, m, h, v)
    /\ NewOwn(t, u, p, m, h, Enclosing(t, p, v), id)
    /\ NewIds(t, u, p, q, m)
    /\ Seams(t, u, p, q)
    /\ OfOneSymbol(t, p, q)

\* Then the edited text is written well, and the other lines are kept.
LEMMA FittedIsGood ==
    ASSUME NEW t, NEW u, NEW p, NEW q, NEW m, NEW h, NEW v \in Nat, NEW id,
           Fitted(t, u, p, q, m, h, v, id), Editable(t), Reparses(u), Numbers(t), Numbers(u)
    PROVE  Editable(u) /\ LinesKept(t, u)
<1> DEFINE B == Enclosing(t, p, v)
<1>1. /\ Spliced(t, u, p, q, m) /\ NewLines(u, p, m, h) /\ NewOwn(t, u, p, m, h, B, id)
      /\ NewIds(t, u, p, q, m) /\ Seams(t, u, p, q) /\ OfOneSymbol(t, p, q)
  BY DEF Fitted, NewBlock
<1>2. IsText(t) /\ IsText(u)
  BY <1>1 DEF Spliced
<1>3. Indents(t) /\ Indents(u)
  BY DEF Numbers, Indents
<1>4. /\ SameSpans(t, u, p, q, m) /\ NewSpans(u, p, m, h, B) /\ NothingElse(t, u, p, q, m, h)
      /\ ~Braces => OneShallow(u)
  <2>1. CASE Braces
    <3>1. Balanced(t) /\ Balanced(u)
      BY <2>1 DEF Editable, Reparses, ValidateReparse
    <3>2. Level(t, p, q) /\ B = Open(t, p)
      BY <2>1 DEF Fitted, Room, Enclosing
    <3> QED
      BY <1>1, <2>1, <3>1, <3>2, SpansInBraces
  <2>2. CASE ~Braces
    <3>1. Fits(t, p, q, v) /\ Reaching(t, p, v) /\ B = OpenFor(t, p, v)
      BY <2>2 DEF Fitted, Room, Enclosing
    <3>2. OneShallow(t)
      BY <1>2, <2>2, WrittenParts
    <3>3. StartsAt(u, p, m, h, v)
      BY <2>2 DEF Fitted, NewBlock
    <3> QED
      BY <1>1, <1>3, <2>2, <3>1, <3>2, <3>3, SpansByIndent
  <2> QED
    BY <2>1, <2>2
<1>5. Edit(t, u, p, q, m, h, B, id)
  BY <1>1, <1>4 DEF Edit
<1>6. Indented(t, u, p, m, h, B)
  <2>1. ASSUME ~Braces
        PROVE  /\ StartsAt(u, p, m, h, v) /\ \A i \in B : t[i].ind < v
               /\ \A k \in h..(p + m) : u[k].kind # "close"
    BY <2>1 DEF Fitted, NewBlock, Enclosing, OpenFor
  <2> HIDE DEF B
  <2> QED
    BY <1>4, <2>1 DEF Indented
<1>7. Editable(u)
  BY <1>5, <1>6, EditedIsWritten
<1> QED
  BY <1>1, <1>5, <1>7, EditKeepsLines

-----------------------------------------------------------------------------
\* There is a largest number in a text.
LEMMA IdsBounded ==
    ASSUME NEW t, IsText(t), Numbers(t), NEW id \in Nat
    PROVE  \E N \in Nat : Ids(t) \cup {0, id} \in SUBSET (0..N)
<1> DEFINE n == Len(t)
           P == {k \in Nat : k <= n => \E N \in Nat : id <= N /\ \A i \in 1..k : t[i].id <= N}
<1>1. n \in Nat /\ DOMAIN t = 1..n
  BY LenProperties, EmptyIffShort DEF IsText
<1>2. \A i \in 1..n : t[i].id \in Nat
  BY DEF Numbers
<1> HIDE DEF n
<1>3. 0 \in P
  OBVIOUS
<1>4. ASSUME NEW k \in Nat, k \in P
      PROVE  k + 1 \in P
  <2> SUFFICES ASSUME k + 1 <= n
               PROVE  \E N \in Nat : id <= N /\ \A i \in 1..(k + 1) : t[i].id <= N
    OBVIOUS
  <2>1. PICK N \in Nat : id <= N /\ \A i \in 1..k : t[i].id <= N
    BY <1>1, <1>4
  <2>2. t[k + 1].id \in Nat
    BY <1>1, <1>2
  <2> DEFINE M == N + t[k + 1].id
  <2>3. M \in Nat /\ id <= M
    BY <2>1, <2>2
  <2>4. ASSUME NEW i \in 1..(k + 1)
        PROVE  t[i].id <= M
    <3>1. i = k + 1 \/ i \in 1..k
      OBVIOUS
    <3>2. t[i].id \in Nat
      BY <1>1, <1>2
    <3> QED
      BY <2>1, <2>2, <3>1, <3>2
  <2> HIDE DEF M
  <2> QED
    BY <2>3, <2>4
<1>5. n \in P
  <2> HIDE DEF P
  <2> QED
    BY <1>1, <1>3, <1>4, NaturalInduction
<1>6. PICK N \in Nat : id <= N /\ \A i \in 1..n : t[i].id <= N
  BY <1>1, <1>5
<1>7. \A i \in 1..n : t[i].id \in 0..N
  BY <1>2, <1>6
<1>8. \A x \in Ids(t) : \E i \in 1..n : x = t[i].id
  BY <1>1 DEF Ids
<1>9. \A x \in Ids(t) \cup {0, id} : x \in 0..N
  BY <1>6, <1>7, <1>8
<1> QED
  BY <1>9

\* One more than the largest number is not in the text.
LEMMA IdsAreLess ==
    ASSUME NEW t, IsText(t), Numbers(t), NEW id \in Nat
    PROVE  /\ 1 + Max(Ids(t) \cup {0, id}) \in Nat
           /\ id < 1 + Max(Ids(t) \cup {0, id})
           /\ \A i \in 1..Len(t) : t[i].id < 1 + Max(Ids(t) \cup {0, id})
<1> DEFINE S == Ids(t) \cup {0, id}
<1>1. PICK N \in Nat : S \in SUBSET (0..N)
  BY IdsBounded
<1>2. S # {} /\ id \in S /\ 0 \in S /\ \A i \in 1..Len(t) : t[i].id \in S
  <2>1. DOMAIN t = 1..Len(t)
    BY LenProperties DEF IsText
  <2> QED
    BY <2>1 DEF Ids
<1> HIDE DEF S
<1>3. Max(S) \in S /\ \A x \in S : x <= Max(S)
  BY <1>1, <1>2, MaxIsIn
<1>4. \A x \in S : x \in Nat
  BY <1>1
<1> DEFINE M == Max(S)
<1>5. M \in Nat /\ \A x \in S : x \in Nat /\ x <= M
  BY <1>3, <1>4
<1> HIDE DEF M
<1> DEFINE c == 1 + M
<1>6. c \in Nat /\ \A x \in S : x < c
  BY <1>5
<1> HIDE DEF c
<1>7. id < c /\ \A i \in 1..Len(t) : t[i].id < c
  BY <1>2, <1>6, Zenon
<1> QED
  BY <1>6, <1>7 DEF c, M, S

\* The number for a new definition is new.
LEMMA FreshIdIsNew ==
    ASSUME NEW t, IsText(t), Numbers(t)
    PROVE  FreshId(t) \in Nat \ {0} /\ \A i \in 1..Len(t) : t[i].id < FreshId(t)
<1>1. Ids(t) \cup {0, 0} = Ids(t) \cup {0}
  OBVIOUS
<1>2. FreshId(t) = 1 + Max(Ids(t) \cup {0, 0})
  BY <1>1 DEF FreshId
<1> DEFINE N == 1 + Max(Ids(t) \cup {0, 0})
<1>3. N \in Nat /\ 0 < N /\ \A i \in 1..Len(t) : t[i].id < N
  BY IdsAreLess
<1>4. FreshId(t) = N
  BY <1>2
<1> HIDE DEF N
<1>5. N \in Nat \ {0}
  BY <1>3
<1> QED
  BY <1>3, <1>4, <1>5

-----------------------------------------------------------------------------
(***************************************************************************)
(* A body as it is written into a text.                                    *)
(***************************************************************************)

\* One definition of indentation v, its first line called id and the others as
\* no line of t, all of them written into own.
BlockOf(t, b, id, own, v) ==
    /\ IsText(b) /\ Len(b) \in Nat \ {0}
    /\ b[1].kind \in Headers /\ (b[1].kind = "one" => Len(b) = 1)
    /\ b[1].id = id
    /\ \A k \in 1..Len(b) :
        /\ b[k].own = own \cup {id}
        /\ b[k].ind \in Nat
        /\ b[k].id \in Nat \ {0}
        /\ \A l \in 1..Len(b) : b[l].id = b[k].id => l = k
    /\ \A k \in 2..Len(b) :
        /\ b[k].kind \in {"stmt", "close"} \cup NoCode
        /\ b[k].kind = "close" => k = Len(b)
        /\ \A i \in 1..Len(t) : t[i].id # b[k].id
    /\ ~Braces =>
        /\ b[1].ind = v
        /\ \A k \in 2..Len(b) : b[k].kind # "close" /\ (IsBlank(b[k]) \/ b[k].ind > v)

\* One definition of indentation v.
Shaped(b, v) ==
    /\ IsText(b) /\ Len(b) \in Nat \ {0} /\ DOMAIN b = 1..Len(b)
    /\ b[1].kind \in Headers /\ (b[1].kind = "one" => Len(b) = 1)
    /\ \A k \in 1..Len(b) : b[k].ind \in Nat
    /\ \A k \in 2..Len(b) : /\ b[k].kind \in {"stmt", "close"} \cup NoCode
                            /\ b[k].kind = "close" => k = Len(b)
    /\ ~Braces =>
        /\ b[1].ind = v
        /\ \A k \in 2..Len(b) : b[k].kind # "close" /\ (IsBlank(b[k]) \/ b[k].ind > v)

\* A body after it is moved to indentation v.
LEMMA ReindentedBlock ==
    ASSUME BodiesAreBlocks, lang \in DOMAIN Originals, NEW body \in Bodies[lang], NEW v \in Nat,
           NEW b, b = ReindentBlock(body, v)
    PROVE  Shaped(b, v)
<1> DEFINE n == Len(body)
           J == {j \in DOMAIN body : ~IsBlank(body[j])}
           S == {body[k].ind : k \in J}
           base == IF \A k \in DOMAIN body : IsBlank(body[k]) THEN 0 ELSE Min(S)
<1>1. body \in Seq(BodyLine) /\ lang \in DOMAIN Bodies
  BY SpliceAssumption
<1>2. IsText(body)
  BY <1>1 DEF IsText
<1>3. n \in Nat /\ DOMAIN body = 1..n /\ (body = <<>> <=> n = 0)
  BY <1>2, LenProperties, EmptyIffShort DEF IsText
<1>4. \A k \in 1..n : body[k] \in BodyLine /\ body[k].ind \in Nat
  <2>1. \A k \in 1..n : body[k] \in BodyLine
    BY <1>1, <1>3
  <2> QED
    BY <2>1 DEF BodyLine
<1>5. /\ body # <<>> /\ body[1].kind \in Headers
      /\ body[1].kind = "one" => n = 1
      /\ \A k \in 2..n :
            /\ body[k].kind \in {"stmt", "close"} \cup NoCode
            /\ body[k].kind = "close" => k = n
            /\ lang = "indented" =>
                body[k].kind # "close" /\ (IsBlank(body[k]) \/ body[k].ind > body[1].ind)
  BY <1>1 DEF BodiesAreBlocks
<1>6. ~Braces => lang = "indented"
  BY SpliceAssumption DEF Braces
<1>7. 1 \in 1..n /\ n \in Nat \ {0} /\ \A k \in 1..n : k = 1 \/ k \in 2..n
  <2>1. n \in Nat \ {0}
    BY <1>3, <1>5
  <2> HIDE DEF n
  <2> QED
    BY <2>1
<1>8. ~IsBlank(body[1])
  BY <1>5 DEF IsBlank, Headers
<1>9. 1 \in J
  BY <1>3, <1>7, <1>8
<1>10. base = Min(S)
  BY <1>3, <1>7, <1>8
<1>11. Min(S) \in S /\ \A x \in S : Min(S) <= x
  <2>1. S \in SUBSET Nat /\ S # {}
    BY <1>3, <1>4, <1>9
  <2> HIDE DEF S
  <2> QED
    BY <2>1, MinIsIn
<1>12. base \in Nat /\ \A k \in J : base <= body[k].ind
  <2>1. \A x \in S : x \in Nat
    BY <1>3, <1>4
  <2>2. \A k \in J : body[k].ind \in S
    OBVIOUS
  <2> HIDE DEF S, J, base
  <2> QED
    BY <1>10, <1>11, <2>1, <2>2
<1>13. ~Braces => base = body[1].ind
  <2> SUFFICES ASSUME ~Braces
               PROVE  base = body[1].ind
    OBVIOUS
  <2>1. PICK k \in J : Min(S) = body[k].ind
    BY <1>11
  <2>2. k \in 1..n /\ ~IsBlank(body[k])
    BY <1>3
  <2>3. k = 1 \/ body[k].ind > body[1].ind
    BY <1>5, <1>6, <1>7, <2>2
  <2>4. base = body[k].ind
    BY <1>10, <2>1
  <2>5. base <= body[1].ind /\ body[1].ind \in Nat /\ base \in Nat
    BY <1>4, <1>7, <1>9, <1>12
  <2> HIDE DEF base
  <2> QED
    BY <2>3, <2>4, <2>5
<1>14. \A k \in 1..n : ~IsBlank(body[k]) => k \in J
  BY <1>3
<1>15. b = [k \in DOMAIN body |-> IF IsBlank(body[k]) THEN body[k]
                                  ELSE [body[k] EXCEPT !.ind = v + (@ - base)]]
  BY DEF ReindentBlock
<1>16. IsText(b) /\ Len(b) = n
  BY <1>2, ReindentedText
<1> HIDE DEF base, J
<1>17. DOMAIN b = 1..n
  BY <1>3, <1>15
<1>18. ASSUME NEW k \in 1..n
       PROVE  /\ b[k].kind = body[k].kind
              /\ b[k].ind \in Nat
              /\ ~IsBlank(body[k]) => b[k].ind = v + (body[k].ind - base)
  <2>1. body[k] \in [kind : STRING, ind : Nat, name : STRING]
    BY <1>4 DEF BodyLine
  <2>2. CASE IsBlank(body[k])
    <3>1. b[k] = body[k]
      BY <1>3, <1>15, <2>2
    <3> QED
      BY <1>4, <2>2, <3>1
  <2>3. CASE ~IsBlank(body[k])
    <3>1. b[k] = [body[k] EXCEPT !.ind = v + (body[k].ind - base)]
      BY <1>3, <1>15, <2>3
    <3>2. b[k].kind = body[k].kind /\ b[k].ind = v + (body[k].ind - base)
      BY <2>1, <3>1
    <3>3. body[k].ind \in Nat /\ base <= body[k].ind
      BY <1>4, <1>12, <1>14, <2>3
    <3>4. v + (body[k].ind - base) \in Nat
      BY <1>12, <3>3
    <3> QED
      BY <2>3, <3>2, <3>4
  <2> QED
    BY <2>2, <2>3
<1>19. ~Braces => b[1].ind = v
  <2> SUFFICES ASSUME ~Braces
               PROVE  b[1].ind = v
    OBVIOUS
  <2>1. b[1].ind = v + (body[1].ind - base) /\ body[1].ind = base
    BY <1>7, <1>8, <1>13, <1>18
  <2> QED
    BY <1>12, <2>1
<1>20. ~Braces => \A k \in 2..n : b[k].kind # "close" /\ (IsBlank(b[k]) \/ b[k].ind > v)
  <2> SUFFICES ASSUME ~Braces, NEW k \in 2..n
               PROVE  b[k].kind # "close" /\ (IsBlank(b[k]) \/ b[k].ind > v)
    OBVIOUS
  <2>1. k \in 1..n
    OBVIOUS
  <2>2. body[k].kind # "close" /\ (IsBlank(body[k]) \/ body[k].ind > body[1].ind)
    BY <1>5, <1>6
  <2>3. b[k].kind = body[k].kind /\ (~IsBlank(body[k]) => b[k].ind = v + (body[k].ind - base))
    BY <1>18, <2>1
  <2>4. body[1].ind = base /\ body[k].ind \in Nat
    BY <1>4, <1>13, <2>1
  <2>5. CASE IsBlank(body[k])
    BY <2>2, <2>3, <2>5 DEF IsBlank
  <2>6. CASE ~IsBlank(body[k])
    <3>1. body[k].ind > base /\ b[k].ind = v + (body[k].ind - base)
      BY <2>2, <2>3, <2>4, <2>6
    <3>2. b[k].ind > v
      BY <1>12, <2>4, <3>1
    <3> QED
      BY <2>2, <2>3, <3>2
  <2> QED
    BY <2>5, <2>6
<1>21. \A k \in 2..n : k \in 1..n
  OBVIOUS
<1> HIDE DEF n
<1>22. /\ b[1].kind \in Headers /\ (b[1].kind = "one" => n = 1)
       /\ \A k \in 2..n : b[k].kind \in {"stmt", "close"} \cup NoCode /\ (b[k].kind = "close" => k = n)
  BY <1>5, <1>7, <1>18, <1>21
<1> QED
  BY <1>7, <1>16, <1>17, <1>18, <1>19, <1>20, <1>22 DEF Shaped

\* A body that has indentation v as it is.
LEMMA PlainBlock ==
    ASSUME BodiesAreBlocks, lang \in DOMAIN Originals, NEW body \in Bodies[lang],
           NEW v, Braces \/ body[1].ind = v
    PROVE  Shaped(body, v)
<1> DEFINE n == Len(body)
<1>1. body \in Seq(BodyLine) /\ lang \in DOMAIN Bodies
  BY SpliceAssumption
<1>2. IsText(body)
  BY <1>1 DEF IsText
<1>3. n \in Nat /\ DOMAIN body = 1..n /\ (body = <<>> <=> n = 0)
  BY <1>2, LenProperties, EmptyIffShort DEF IsText
<1>4. \A k \in 1..n : body[k].ind \in Nat
  <2>1. \A k \in 1..n : body[k] \in BodyLine
    BY <1>1, <1>3
  <2> QED
    BY <2>1 DEF BodyLine
<1>5. /\ body # <<>> /\ body[1].kind \in Headers
      /\ body[1].kind = "one" => n = 1
      /\ \A k \in 2..n :
            /\ body[k].kind \in {"stmt", "close"} \cup NoCode
            /\ body[k].kind = "close" => k = n
            /\ lang = "indented" =>
                body[k].kind # "close" /\ (IsBlank(body[k]) \/ body[k].ind > body[1].ind)
  BY <1>1 DEF BodiesAreBlocks
<1>6. ~Braces => lang = "indented" /\ body[1].ind = v
  BY SpliceAssumption DEF Braces
<1> QED
  BY <1>2, <1>3, <1>4, <1>5, <1>6 DEF Shaped

\* What is written is one definition, with new numbers below its header.
LEMMA AuthoredBlock ==
    ASSUME NEW r, NEW v \in Nat, Shaped(r, v),
           NEW t, IsText(t), Numbers(t), NEW id \in Nat \ {0}, NEW own
    PROVE  BlockOf(t, Authored(t, r, id, own), id, own, v)
<1> DEFINE b == Authored(t, r, id, own)
           next == 1 + Max(Ids(t) \cup {0, id})
           n == Len(r)
<1>1. /\ IsText(r) /\ n \in Nat \ {0} /\ DOMAIN r = 1..n
      /\ r[1].kind \in Headers /\ (r[1].kind = "one" => n = 1)
      /\ \A k \in 1..n : r[k].ind \in Nat
      /\ \A k \in 2..n : r[k].kind \in {"stmt", "close"} \cup NoCode /\ (r[k].kind = "close" => k = n)
      /\ ~Braces =>
            /\ r[1].ind = v
            /\ \A k \in 2..n : r[k].kind # "close" /\ (IsBlank(r[k]) \/ r[k].ind > v)
  BY DEF Shaped
<1>2. IsText(b) /\ Len(b) = n
  <2>1. IsText(r)
    BY <1>1
  <2> QED
    BY ONLY <2>1, AuthoredText
<1>3. next \in Nat /\ id < next /\ \A i \in 1..Len(t) : t[i].id < next
  BY IdsAreLess
<1>4. b = [k \in DOMAIN r |->
            [kind |-> r[k].kind, ind |-> r[k].ind, name |-> r[k].name,
             id |-> IF k = 1 THEN id ELSE next + k - 2,
             own |-> own \cup {id}]]
  BY DEF Authored
<1> HIDE DEF b, n, next
<1>5. \A i \in 1..Len(t) : t[i].id \in Nat
  BY DEF Numbers
<1>6. ASSUME NEW k \in 1..n
      PROVE  /\ b[k].kind = r[k].kind /\ b[k].ind = r[k].ind /\ b[k].own = own \cup {id}
             /\ k = 1 => b[k].id = id
             /\ k # 1 => b[k].id = next + k - 2
  BY <1>1, <1>4
<1>7. ASSUME NEW k \in 1..n
      PROVE  /\ b[k].id \in Nat \ {0}
             /\ k # 1 => next <= b[k].id
  <2>1. k \in Nat /\ k >= 1 /\ next \in Nat /\ id \in Nat \ {0} /\ id < next
    BY <1>1, <1>3
  <2>2. /\ k = 1 => b[k].id = id
        /\ k # 1 => b[k].id = next + k - 2
    BY <1>6
  <2> QED
    BY ONLY <2>1, <2>2
<1>8. ASSUME NEW k \in 1..n, NEW l \in 1..n, b[l].id = b[k].id
      PROVE  l = k
  BY <1>1, <1>3, <1>6, <1>8
<1>9. ASSUME NEW k \in 2..n, NEW i \in 1..Len(t)
      PROVE  t[i].id # b[k].id
  <2>1. k \in 1..n /\ k # 1
    BY <1>1
  <2>2. next <= b[k].id /\ b[k].id \in Nat
    BY <1>7, <2>1
  <2>3. t[i].id < next /\ t[i].id \in Nat
    BY <1>3, <1>5
  <2> QED
    BY <1>3, <2>2, <2>3
<1>10. 1 \in 1..n /\ \A k \in 2..n : k \in 1..n
  BY <1>1
<1>11. /\ b[1].kind \in Headers /\ (b[1].kind = "one" => n = 1) /\ b[1].id = id
       /\ \A k \in 2..n : b[k].kind \in {"stmt", "close"} \cup NoCode /\ (b[k].kind = "close" => k = n)
  BY <1>1, <1>6, <1>10
<1>12. \A k \in 1..n : b[k].own = own \cup {id} /\ b[k].ind \in Nat
  BY <1>1, <1>6
<1>13. ~Braces =>
            /\ b[1].ind = v
            /\ \A k \in 2..n : b[k].kind # "close" /\ (IsBlank(b[k]) \/ b[k].ind > v)
  BY <1>1, <1>6, <1>10 DEF IsBlank
<1>14. BlockOf(t, b, id, own, v)
  BY <1>1, <1>2, <1>7, <1>8, <1>9, <1>11, <1>12, <1>13 DEF BlockOf
<1> QED
  BY <1>14 DEF b

-----------------------------------------------------------------------------
(***************************************************************************)
(* The lines of a text that is cut and joined.                             *)
(***************************************************************************)

\* u is f, and then the lines of t below q.
GoesOn(u, f, t, q) == u = f \o SubSeq(t, q + 1, Len(t))

\* f is the first p lines of t and m more.
Begins(f, t, p, m) ==
    IsText(f) /\ m \in Nat /\ Len(f) = p + m /\ \A i \in 1..p : f[i] = t[i]

\* The m lines after line p are the ones of f.
AreFrom(u, f, p, m) == \A k \in 1..m : u[p + k] = f[p + k]

\* The end of a text after other lines.
LEMMA SplicedTail ==
    ASSUME NEW t, IsText(t), NEW p \in 0..Len(t), NEW q \in p..Len(t), NEW m \in Nat,
           NEW front, Begins(front, t, p, m), NEW u, GoesOn(u, front, t, q)
    PROVE  Spliced(t, u, p, q, m) /\ AreFrom(u, front, p, m)
<1> DEFINE n == Len(t)
           tail == SubSeq(t, q + 1, n)
           f == front
<1>1. n \in Nat /\ p \in Nat /\ q \in Nat /\ p <= q /\ q <= n
  BY EmptyIffShort
<1>0. IsText(f) /\ Len(f) = p + m /\ \A i \in 1..p : f[i] = t[i]
  BY DEF Begins
<1> HIDE DEF n
<1>2. IsText(tail) /\ Len(tail) = n - q /\ \A i \in 1..(n - q) : tail[i] = t[q + i]
  <2>1. q + 1 \in 1..(n + 1) /\ n \in ((q + 1) - 1)..n /\ n - (q + 1) + 1 = n - q
        /\ \A i \in 1..(n - q) : q + 1 + i - 1 = q + i
    BY <1>1
  <2>2. IsText(tail) /\ Len(tail) = n - (q + 1) + 1
        /\ \A i \in 1..(n - (q + 1) + 1) : tail[i] = t[q + 1 + i - 1]
    BY <2>1, TextPart DEF n
  <2> HIDE DEF tail
  <2> QED
    BY <2>1, <2>2
<1> DEFINE j == f \o tail
<1>3. u = j
  BY DEF GoesOn, n
<1> HIDE DEF tail, f
<1>4. /\ IsText(j) /\ Len(j) = Len(f) + Len(tail)
      /\ \A i \in 1..Len(f) : j[i] = f[i]
      /\ \A i \in 1..Len(tail) : j[Len(f) + i] = tail[i]
  BY <1>0, <1>2, TextJoin
<1> HIDE DEF j
<1>5. Len(f) = p + m /\ \A i \in 1..p : f[i] = t[i]
  BY <1>0
<1>6. IsText(u) /\ Len(u) = n - q + (p + m)
  <2>1. IsText(u) /\ Len(u) = Len(f) + Len(tail)
    BY <1>3, <1>4
  <2>2. Len(f) = p + m /\ Len(tail) = n - q
    BY <1>2, <1>5
  <2>3. m \in Nat /\ (p + m) + (n - q) = n - q + (p + m)
    BY <1>1
  <2> QED
    BY <2>1, <2>2, <2>3
<1>7. \A i \in 1..p : u[i] = t[i]
  BY <1>1, <1>3, <1>4, <1>5
<1>8. \A k \in 1..m : u[p + k] = f[p + k]
  BY <1>1, <1>3, <1>4, <1>5
<1>9. ASSUME NEW i \in (q + 1)..n
      PROVE  u[i - q + (p + m)] = t[i]
  <2>1. i - q \in 1..(n - q) /\ q + (i - q) = i /\ i - q + (p + m) = (p + m) + (i - q)
    BY <1>1
  <2>2. j[(p + m) + (i - q)] = tail[i - q]
    BY <1>2, <1>4, <1>5, <2>1
  <2>3. tail[i - q] = t[i]
    BY <1>2, <2>1
  <2> QED
    BY <1>3, <2>1, <2>2, <2>3
<1>10. Spliced(t, u, p, q, m)
  BY <1>1, <1>6, <1>7, <1>9 DEF Spliced, n
<1> QED
  BY <1>8, <1>10 DEF f, AreFrom

\* The beginning of a text.
LEMMA HeadOfText ==
    ASSUME NEW t, IsText(t), NEW p \in 0..Len(t), NEW x, x = SubSeq(t, 1, p)
    PROVE  IsText(x) /\ Len(x) = p /\ \A i \in 1..p : x[i] = t[i]
<1>1. Len(t) \in Nat
  BY EmptyIffShort
<1>2. 1 \in 1..(Len(t) + 1) /\ p \in (1 - 1)..Len(t) /\ p - 1 + 1 = p /\ p \in Nat
      /\ \A i \in 1..p : 1 + i - 1 = i
  BY <1>1
<1>3. IsText(SubSeq(t, 1, p)) /\ Len(SubSeq(t, 1, p)) = p - 1 + 1
      /\ \A i \in 1..(p - 1 + 1) : SubSeq(t, 1, p)[i] = t[1 + i - 1]
  BY <1>2, TextPart
<1> DEFINE y == SubSeq(t, 1, p)
<1>4. x = y /\ IsText(y) /\ Len(y) = p - 1 + 1 /\ \A i \in 1..(p - 1 + 1) : y[i] = t[1 + i - 1]
  BY <1>3
<1> HIDE DEF y
<1> QED
  BY <1>2, <1>4

\* Lines in the place of others.
LEMMA SplicedMiddle ==
    ASSUME NEW t, IsText(t), NEW p \in 0..Len(t), NEW q \in p..Len(t), NEW w, IsText(w),
           NEW u, GoesOn(u, SubSeq(t, 1, p) \o w, t, q)
    PROVE  Spliced(t, u, p, q, Len(w)) /\ \A k \in 1..Len(w) : u[p + k] = w[k]
<1> DEFINE x == SubSeq(t, 1, p)
           front == x \o w
           m == Len(w)
<1>1. IsText(x) /\ Len(x) = p /\ \A i \in 1..p : x[i] = t[i]
  BY HeadOfText
<1>2. GoesOn(u, front, t, q)
  OBVIOUS
<1> HIDE DEF x
<1>3. /\ IsText(front) /\ m \in Nat /\ Len(front) = p + m
      /\ \A i \in 1..p : front[i] = x[i]
      /\ \A i \in 1..m : front[p + i] = w[i]
  BY <1>1, TextJoin
<1> HIDE DEF front, m
<1>4. \A i \in 1..p : front[i] = t[i]
  BY <1>1, <1>3
<1>5. Begins(front, t, p, m)
  BY <1>3, <1>4 DEF Begins
<1>6. Spliced(t, u, p, q, m) /\ AreFrom(u, front, p, m)
  BY <1>2, <1>3, <1>5, SplicedTail
<1> QED
  BY <1>3, <1>6 DEF m, AreFrom

\* Lines taken away.
LEMMA SplicedOut ==
    ASSUME NEW t, IsText(t), NEW p \in 0..Len(t), NEW q \in p..Len(t),
           NEW u, GoesOn(u, SubSeq(t, 1, p), t, q)
    PROVE  Spliced(t, u, p, q, 0)
<1> DEFINE x == SubSeq(t, 1, p)
<1>1. IsText(x) /\ Len(x) = p /\ \A i \in 1..p : x[i] = t[i]
  BY HeadOfText
<1>2. GoesOn(u, x, t, q)
  OBVIOUS
<1>3. 0 \in Nat /\ p + 0 = p
  BY EmptyIffShort
<1> HIDE DEF x
<1>4. Begins(x, t, p, 0)
  BY <1>1, <1>3 DEF Begins
<1> QED
  BY <1>2, <1>3, <1>4, SplicedTail

-----------------------------------------------------------------------------
\* Line k of u is line k of the new ones, below an empty line if g = 1.
Brings(u, p, g, b) ==
    /\ g = 1 => u[p + 1] = Blank
    /\ \A k \in 1..Len(b) : u[p + g + k] = b[k]

\* The number of the new definition is free, or of the line it replaces.
Freed(t, p, q, g, id) == \A i \in 1..Len(t) : t[i].id = id => i = p + 1 /\ p < q /\ g = 0

\* Lines h and below are the new definition, with own around it.
PutAt(t, u, p, q, m, h, v, own, id) ==
    /\ NewBlock(u, p, m, h, v)
    /\ NewIds(t, u, p, q, m)
    /\ Numbers(u)
    /\ u[h].id = id
    /\ \A k \in h..(p + m) : u[k].own = own \cup {id}

\* A definition that is put in a text, below an empty line or not.
LEMMA PutBlock ==
    ASSUME NEW t, NEW u, NEW p, NEW q, NEW m, Spliced(t, u, p, q, m), Numbers(t),
           NEW g \in {0, 1}, NEW b, NEW id \in Nat \ {0}, NEW own, NEW v \in Nat,
           BlockOf(t, b, id, own, v), m = Len(b) + g, Brings(u, p, g, b),
           NEW h, h = p + g + 1,
           Freed(t, p, q, g, id)
    PROVE  PutAt(t, u, p, q, m, h, v, own, id)
<1>0. \A i \in 1..Len(t) : t[i].id = id => i = p + 1 /\ p < q /\ g = 0
  BY DEF Freed
<1> DEFINE n == Len(b)
           c(k) == k - (p + g)
<1>1. /\ IsText(t) /\ IsText(u) /\ Len(t) \in Nat /\ Len(u) \in Nat
      /\ p \in Nat /\ q \in Nat /\ m \in Nat /\ p <= q /\ q <= Len(t)
      /\ Len(u) = Len(t) - q + (p + m)
  BY EmptyIffShort DEF Spliced
<1>2. /\ n \in Nat \ {0}
      /\ b[1].kind \in Headers /\ (b[1].kind = "one" => n = 1) /\ b[1].id = id
      /\ \A k \in 1..n : /\ b[k].own = own \cup {id} /\ b[k].ind \in Nat /\ b[k].id \in Nat \ {0}
                         /\ \A l \in 1..n : b[l].id = b[k].id => l = k
      /\ \A k \in 2..n : /\ b[k].kind \in {"stmt", "close"} \cup NoCode
                         /\ b[k].kind = "close" => k = n
                         /\ \A i \in 1..Len(t) : t[i].id # b[k].id
      /\ ~Braces => /\ b[1].ind = v
                    /\ \A k \in 2..n : b[k].kind # "close" /\ (IsBlank(b[k]) \/ b[k].ind > v)
  BY DEF BlockOf
<1>3. /\ g = 1 => u[p + 1] = Blank
      /\ \A k \in 1..n : u[p + g + k] = b[k]
  BY DEF Brings
<1> HIDE DEF n
<1>4. /\ g \in Nat /\ m = n + g /\ (g = 0 \/ g = 1) /\ h = p + g + 1
      /\ n \in Nat /\ n >= 1 /\ p \in Nat /\ m \in Nat
  BY <1>1, <1>2 DEF n
<1>21. h \in Nat /\ h - 1 \in Nat
  BY <1>4
<1>5. ASSUME NEW k \in h..(p + m)
      PROVE  c(k) \in 1..n /\ u[k] = b[c(k)] /\ (k = h <=> c(k) = 1) /\ (k = p + m <=> c(k) = n)
             /\ (k # h => c(k) \in 2..n)
  <2>1. c(k) \in 1..n /\ p + g + c(k) = k /\ (k = h <=> c(k) = 1) /\ (k = p + m <=> c(k) = n)
        /\ (k # h => c(k) \in 2..n)
    <3>1. k \in h..(p + m)
      OBVIOUS
    <3> QED
      BY ONLY <1>4, <1>21, <3>1
  <2> HIDE DEF c
  <2>2. u[p + g + c(k)] = b[c(k)]
    BY <1>3, <2>1
  <2> QED
    BY <2>1, <2>2
<1>6. \A k \in (p + 1)..(h - 1) : k = p + 1 /\ g = 1 /\ u[k] = Blank
  BY <1>1, <1>3, <1>4
<1>7. h \in (p + 1)..(p + m + 1) /\ h \in h..(p + m) /\ h <= p + m /\ h \in Nat
  BY ONLY <1>4, <1>21
<1>8. c(h) = 1 /\ u[h] = b[1] /\ (h = p + m <=> n = 1)
  <2>1. c(h) = 1 /\ u[h] = b[c(h)] /\ (h = p + m <=> c(h) = n)
    BY <1>5, <1>7
  <2> QED
    BY <2>1
<1>9. \A k \in (h + 1)..(p + m) : k \in h..(p + m) /\ k # h
  BY ONLY <1>4, <1>21
<1>10. \A k \in h..(p + m), l \in h..(p + m) : c(k) = c(l) <=> k = l
  BY <1>1, <1>4
<1>14. Blank.id = 0 /\ Blank.ind = 0 /\ IsBlank(Blank)
  BY DEF Blank, IsBlank
<1> HIDE DEF c
<1>11. NewLines(u, p, m, h)
  <2>1. \A k \in (p + 1)..(h - 1) : IsBlank(u[k])
    BY <1>6, <1>14
  <2>2. u[h].kind \in Headers /\ (u[h].kind = "one" => h = p + m)
    BY <1>2, <1>8
  <2>3. \A k \in (h + 1)..(p + m) :
            u[k].kind \in {"stmt", "close"} \cup NoCode /\ (u[k].kind = "close" => k = p + m)
    BY <1>2, <1>5, <1>9
  <2> QED
    BY <1>7, <2>1, <2>2, <2>3 DEF NewLines
<1>12. ASSUME ~Braces
       PROVE  StartsAt(u, p, m, h, v) /\ \A k \in h..(p + m) : u[k].kind # "close"
  <2>1. u[h].ind = v
    BY <1>2, <1>8, <1>12
  <2>2. \A k \in (h + 1)..(p + m) : u[k].kind # "close" /\ (IsBlank(u[k]) \/ u[k].ind > v)
    BY <1>2, <1>5, <1>9, <1>12
  <2>3. u[h].kind # "close"
    BY <1>2, <1>8 DEF Headers
  <2>4. \A k \in h..(p + m) : k = h \/ k \in (h + 1)..(p + m)
    BY <1>1, <1>7
  <2> QED
    BY <2>1, <2>2, <2>3, <2>4 DEF StartsAt
<1>13. NewBlock(u, p, m, h, v)
  BY <1>11, <1>12 DEF NewBlock
<1>15. \A k \in (p + 1)..(p + m) : k \in h..(p + m) \/ k \in (p + 1)..(h - 1)
  BY <1>1, <1>7
<1>16. ASSUME NEW k \in h..(p + m)
       PROVE  u[k].id \in Nat \ {0} /\ u[k].ind \in Nat /\ u[k].own = own \cup {id}
  BY <1>2, <1>5
<1>17. ASSUME NEW k \in h..(p + m), NEW i \in 1..Len(t), t[i].id = u[k].id
       PROVE  i = p + 1 /\ k = p + 1 /\ p < q
  <2>1. k = h
    BY <1>2, <1>5, <1>17
  <2>2. t[i].id = id
    BY <1>2, <1>8, <1>17, <2>1
  <2>3. i = p + 1 /\ p < q /\ g = 0
    BY <1>0, <2>2
  <2> QED
    BY <1>1, <2>1, <2>3
<1>18. NewIds(t, u, p, q, m)
  <2>1. ASSUME NEW k \in (p + 1)..(p + m)
        PROVE  u[k].id = 0 => IsBlank(u[k])
    <3>1. CASE k \in h..(p + m)
      <4>1. u[k].id \in Nat \ {0}
        BY <1>16, <3>1
      <4> QED
        BY <4>1
    <3>2. CASE k \in (p + 1)..(h - 1)
      BY <1>6, <1>14, <3>2
    <3> QED
      BY <1>15, <3>1, <3>2
  <2>2. ASSUME NEW k \in (p + 1)..(p + m), NEW l \in (p + 1)..(p + m), u[l].id = u[k].id, u[k].id # 0
        PROVE  l = k
    <3>1. k \in h..(p + m) /\ l \in h..(p + m)
      BY <1>6, <1>14, <1>15, <2>2
    <3>2. c(k) = c(l)
      <4>1. /\ c(k) \in 1..n /\ u[k] = b[c(k)]
            /\ c(l) \in 1..n /\ u[l] = b[c(l)]
        BY <1>5, <3>1
      <4>2. b[c(k)].id = b[c(l)].id
        BY <2>2, <4>1
      <4> QED
        BY <1>2, <4>1, <4>2
    <3> QED
      BY <1>10, <3>1, <3>2
  <2>3. ASSUME NEW k \in (p + 1)..(p + m), NEW i \in 1..Len(t), t[i].id = u[k].id, u[k].id # 0
        PROVE  i = p + 1 /\ k = p + 1 /\ p < q
    <3>1. k \in h..(p + m)
      BY <1>6, <1>14, <1>15, <2>3
    <3> QED
      BY <1>17, <2>3, <3>1
  <2> QED
    BY <2>1, <2>2, <2>3 DEF NewIds
<1>19. Numbers(u)
  <2>1. \A i \in Stays(t, p, q) : i \in 1..Len(t) /\ u[Moved(p, q, m, i)] = t[i]
    BY MovedLines
  <2>2. \A j \in 1..Len(u) :
            j \in (p + 1)..(p + m) \/ \E i \in Stays(t, p, q) : j = Moved(p, q, m, i)
    BY MovedLines
  <2>3. ASSUME NEW j \in 1..Len(u)
        PROVE  u[j].ind \in Nat /\ u[j].id \in Nat
    <3>1. CASE \E i \in Stays(t, p, q) : j = Moved(p, q, m, i)
      <4>1. PICK i \in Stays(t, p, q) : j = Moved(p, q, m, i)
        BY <3>1
      <4>2. u[j] = t[i] /\ i \in 1..Len(t)
        BY <2>1, <4>1
      <4> QED
        BY <4>2 DEF Numbers
    <3>2. CASE j \in h..(p + m)
      BY <1>16, <3>2
    <3>3. CASE j \in (p + 1)..(h - 1)
      BY <1>6, <1>14, <3>3
    <3> QED
      BY <1>15, <2>2, <3>1, <3>2, <3>3
  <2> QED
    BY <2>3 DEF Numbers
<1>20. u[h].id = id
  BY <1>2, <1>8
<1> QED
  BY <1>13, <1>16, <1>18, <1>19, <1>20 DEF PutAt

-----------------------------------------------------------------------------
(***************************************************************************)
(* The trivia above a definition.                                          *)
(***************************************************************************)

\* Line k is trivia of the symbol that line i belongs to.
Above(t, k, i) ==
    /\ t[k].kind \in Trivia
    /\ t[k].own = t[i].own
    /\ Braces \/ t[k].ind = t[i].ind

\* Lines that trivia can be above of, and where comments can start.
Carries(l) == l.kind \in Headers \cup Attached \cup OpensDoc

\* What stands directly above such a line, if it is trivia, goes with it.
LEMMA NextAbove ==
    ASSUME NEW t, Standing(t), NEW k \in 1..Len(t), t[k].kind \in Trivia, ~IsBlank(t[k + 1])
    PROVE  /\ Above(t, k, k + 1)
           /\ DocGoesOn(t[k]) <=> InDoc(t[k + 1])
BY DEF Standing, StandsOver, Above

\* A comment is one piece.
LEMMA DocAbove ==
    ASSUME NEW t, IsText(t), Standing(t), KindsKnown(t),
           NEW i \in 2..Len(t), Carries(t[i]), t[i - 1].kind \in {"doc", "docClose"},
           NEW o, o = OpeningLine(t, i - 1)
    PROVE  /\ o \in 1..(i - 1) /\ t[o].kind \in OpensDoc
           /\ \A k \in o..(i - 1) : Above(t, k, i)
<1> DEFINE n == Len(t)
           D == {"doc", "docOpen", "docLine", "docClose"}
           e == i - 1
           Good(k) == t[k].kind \in D /\ Above(t, k, i)
           P == {d \in Nat : e - d >= 1 /\ e - d >= o => Good(e - d)}
<1>1. n \in Nat /\ e \in Nat \ {0} /\ e + 1 = i /\ e \in 1..n /\ i <= n
  BY EmptyIffShort
<1>2. /\ o \in 0..e
      /\ o # 0 => t[o].kind \in OpensAny
      /\ \A j \in 1..e : t[j].kind \in OpensAny => j <= o
  BY <1>1, OpeningAbove
<1>3. D \subseteq Trivia /\ OpensDoc \subseteq D /\ OpensDoc = {"doc", "docOpen"}
      /\ OpensDoc \subseteq OpensAny
  BY DEF Trivia, OpensAny, OpensDoc
<1>4. \A k \in D : k \in OpensAny => k \in OpensDoc
  BY DEF OpensAny, OpensDoc
<1>5. \A x : Carries(x) => ~IsBlank(x)
  BY DEF Carries, IsBlank, Headers, Attached, OpensDoc
<1>6. \A x : x.kind \in D => ~IsBlank(x)
  BY DEF IsBlank
<1>7. \A j \in 1..n : InDoc(t[j]) => j > 1 /\ DocGoesOn(t[j - 1])
  BY DEF Standing
<1> HIDE DEF n, e
<1>8. 0 \in P
  <2>1. t[e].kind \in D
    BY DEF e
  <2>2. ~IsBlank(t[e + 1]) /\ t[e].kind \in Trivia
    BY <1>1, <1>3, <1>5, <2>1
  <2>3. Above(t, e, e + 1)
    BY <1>1, <2>2, NextAbove DEF n
  <2> QED
    BY <1>1, <2>1, <2>3
<1>9. ASSUME NEW d \in Nat, d \in P
      PROVE  d + 1 \in P
  <2> SUFFICES ASSUME e - (d + 1) >= 1, e - (d + 1) >= o
               PROVE  Good(e - (d + 1))
    OBVIOUS
  <2> DEFINE a == e - (d + 1)
  <2>1. a \in 1..n /\ a + 1 = e - d /\ a + 1 \in 1..n /\ a + 1 > o /\ a + 1 - 1 = a
        /\ a + 1 >= 1 /\ a + 1 >= o /\ a + 1 \in 1..e
    BY <1>1, <1>2
  <2>2. Good(a + 1)
    BY <1>9, <2>1
  <2> HIDE DEF a
  <2>3. t[a + 1].kind \notin OpensAny
    BY <1>2, <2>1
  <2>4. InDoc(t[a + 1])
    BY <1>3, <2>2, <2>3 DEF InDoc
  <2>5. DocGoesOn(t[a])
    <3> DEFINE b == a + 1
    <3>1. b \in 1..n /\ InDoc(t[b]) /\ b - 1 = a
      BY <2>1, <2>4
    <3> HIDE DEF b
    <3>2. DocGoesOn(t[b - 1])
      BY <1>7, <3>1
    <3> QED
      BY <3>1, <3>2
  <2>6. t[a].kind \in D /\ t[a].kind \in Trivia
    BY <1>3, <2>5 DEF DocGoesOn
  <2>7. Above(t, a, a + 1)
    BY <1>6, <2>1, <2>2, <2>6, NextAbove DEF n
  <2>8. Above(t, a, i)
    BY <2>2, <2>7 DEF Above
  <2> QED
    BY <2>6, <2>8 DEF a
<1>10. \A d \in Nat : d \in P
  <2> HIDE DEF P
  <2> QED
    BY <1>8, <1>9, NaturalInduction
<1>11. ASSUME NEW k \in 1..e, k >= o
       PROVE  Good(k)
  <2>1. e - k \in Nat /\ e - (e - k) = k /\ k >= 1
    BY <1>1
  <2> DEFINE d == e - k
  <2>2. d \in P
    BY <1>10, <2>1
  <2>3. e - d = k
    BY <2>1
  <2> HIDE DEF d
  <2> QED
    BY <1>11, <2>1, <2>2, <2>3
<1>12. o # 0
  <2> SUFFICES ASSUME o = 0
               PROVE  FALSE
    OBVIOUS
  <2>1. 1 \in 1..e /\ 1 >= o /\ 1 \in 1..n
    BY <1>1
  <2>2. t[1].kind \in D
    BY <1>11, <2>1
  <2>3. t[1].kind \notin OpensAny
    BY <1>2, <2>1
  <2>4. InDoc(t[1])
    BY <1>3, <2>2, <2>3 DEF InDoc
  <2> QED
    BY <1>7, <2>1, <2>4
<1>13. o \in 1..e /\ o \in 1..n
  BY <1>1, <1>2, <1>12
<1>14. o \in o..e /\ \A k \in o..e : k \in 1..e /\ k >= o
  BY <1>1, <1>13
<1> HIDE DEF Good
<1>15. \A k \in o..e : Good(k)
  BY <1>11, <1>14
<1>16. t[o].kind \in OpensDoc
  BY <1>2, <1>4, <1>12, <1>14, <1>15 DEF Good
<1> QED
  BY <1>13, <1>15, <1>16 DEF e, Good

\* What leading_trivia_start finds above a symbol are the lines that stand over it.
Tops(t, top, i) ==
    /\ top \in 1..i
    /\ \A k \in top..(i - 1) : Above(t, k, i)
    /\ top = 1 \/ t[top - 1].kind \notin Trivia

\* The lines of symbol x down to line s are known for what they are.
Known(t, x, s) ==
    \A k \in 1..s : x \in t[k].own =>
        t[k].kind # "more" /\ (k > 1 => t[k - 1].kind # "trailing")

\* All the trivia above a definition go with it, if they are known as trivia.
LEMMA TriviaAbove ==
    ASSUME NEW t, IsText(t), Standing(t), KindsKnown(t), NEW s \in 1..Len(t), t[s].kind \in Headers,
           NEW x, x \in t[s].own, Known(t, x, s)
    PROVE  Tops(t, TriviaTop(t, s), s)
<1> DEFINE n == Len(t)
<1>1. n \in Nat /\ s \in Nat \ {0} /\ s <= n
  BY EmptyIffShort
<1>2. PICK f : TriviaTop(t, s) = f[s] /\ \A i \in 1..s : f[i] = TopAbove(t, f, i)
  BY <1>1, TriviaTopIs
<1> DEFINE P == {i \in 1..s : Carries(t[i]) /\ x \in t[i].own => Tops(t, f[i], i)}
<1>3. ASSUME NEW i \in 1..s, \A j \in 1..(i - 1) : j \in P, Carries(t[i]), x \in t[i].own
      PROVE  Tops(t, f[i], i)
  <2>1. f[i] = TopAbove(t, f, i) /\ i \in 1..n /\ i \in Nat
    BY <1>1, <1>2
  <2>2. ~IsBlank(t[i])
    BY <1>3 DEF Carries, IsBlank, Headers, Attached, OpensDoc
  <2>3. ~InDoc(t[i])
    BY <1>3 DEF Carries, InDoc, Headers, Attached, OpensDoc
  <2>4. CASE i = 1
    <3>1. f[i] = 1
      BY <2>1, <2>4 DEF TopAbove
    <3> QED
      BY <2>4, <3>1 DEF Tops
  <2>5. CASE i # 1
    <3> DEFINE e == i - 1
    <3>1. e \in 1..(i - 1) /\ e + 1 = i /\ e \in 1..n /\ e \in Nat /\ i \in 2..n
      BY <1>1, <2>1, <2>5
    <3> HIDE DEF e
    <3>2. e = i - 1
      BY DEF e
    <3>3. t[e].kind \in Trivia => Above(t, e, i) /\ ~DocGoesOn(t[e])
      BY <2>2, <2>3, <3>1, NextAbove
    <3>4. CASE t[e].kind \in Attached
      <4>1. f[i] = f[e]
        BY <2>1, <2>5, <3>2, <3>4 DEF TopAbove
      <4>3. Above(t, e, i)
        BY <3>3, <3>4 DEF Trivia, Decorating
      <4>2. Tops(t, f[e], e)
        BY <1>3, <3>1, <3>4, <4>3 DEF Carries, Above
      <4>4. \A k \in f[e]..e : k = e \/ k \in f[e]..(e - 1)
        BY <3>1, <4>2 DEF Tops
      <4>5. \A k \in f[e]..(i - 1) : Above(t, k, i)
        <5>1. \A k \in f[e]..(e - 1) : Above(t, k, e)
          BY <4>2 DEF Tops
        <5> QED
          BY <3>2, <4>3, <4>4, <5>1 DEF Above
      <4>6. f[e] \in 1..i /\ (f[e] = 1 \/ t[f[e] - 1].kind \notin Trivia)
        BY <3>1, <4>2 DEF Tops
      <4> QED
        BY <4>1, <4>5, <4>6 DEF Tops
    <3>5. CASE t[e].kind \in {"doc", "docClose"}
      <4> DEFINE o == OpeningLine(t, i - 1)
      <4>1. /\ o \in 1..(i - 1) /\ t[o].kind \in OpensDoc
            /\ \A k \in o..(i - 1) : Above(t, k, i)
        BY <1>3, <3>1, <3>2, <3>5, DocAbove
      <4> HIDE DEF o
      <4>2. f[i] = f[o]
        <5>1. t[i - 1].kind \notin Attached /\ t[i - 1].kind \in EndsBlock
          BY <3>2, <3>5 DEF Attached, EndsBlock
        <5>2. o # 0
          BY <4>1, <2>1
        <5> QED
          BY <2>1, <2>5, <4>1, <5>1, <5>2 DEF TopAbove, o
      <4>3. Tops(t, f[o], o)
        <5>1. o \in o..(i - 1) /\ o \in P
          BY <1>3, <2>1, <4>1
        <5>2. x \in t[o].own
          BY <1>3, <4>1, <5>1 DEF Above
        <5> QED
          BY <4>1, <5>1, <5>2 DEF Carries
      <4>4. o \in 1..n /\ o \in Nat /\ o <= i - 1
        BY <1>1, <2>1, <4>1
      <4>5. f[o] \in 1..o /\ (f[o] = 1 \/ t[f[o] - 1].kind \notin Trivia)
            /\ \A k \in f[o]..(o - 1) : Above(t, k, o)
        BY <4>3 DEF Tops
      <4>6. \A k \in f[o]..(i - 1) : k \in o..(i - 1) \/ k \in f[o]..(o - 1)
        BY <2>1, <4>4, <4>5
      <4>7. Above(t, o, i)
        BY <2>1, <4>1, <4>4
      <4>8. \A k \in f[o]..(i - 1) : Above(t, k, i)
        BY <4>1, <4>5, <4>6, <4>7 DEF Above
      <4>9. f[o] \in 1..i
        BY <2>1, <4>4, <4>5
      <4> QED
        BY <4>2, <4>5, <4>8, <4>9 DEF Tops
    <3>6. CASE t[e].kind \notin Attached /\ t[e].kind \notin {"doc", "docClose"}
      <4>1. t[e].kind # "trailing" /\ t[e].kind \in Kinds
        BY <1>3, <2>5, <3>1, <3>2 DEF Known, KindsKnown
      <4>2. t[e].kind \notin Trivia
        <5>1. t[e].kind \in Trivia => t[e].kind \notin {"docOpen", "docLine"}
          BY <3>3 DEF DocGoesOn
        <5>2. e \in 1..s
          BY <1>1, <3>1
        <5>3. t[e].kind \in Trivia => t[e].kind # "more"
          BY <1>3, <3>3, <5>2 DEF Above, Known
        <5> QED
          BY <3>6, <5>1, <5>3 DEF Trivia, Decorating, OpensDoc
      <4>3. t[e].kind \in EndsBlock => t[e].kind = "plain"
        BY <3>6, <4>1 DEF EndsBlock
      <4>4. t[e].kind = "plain" => OpeningLine(t, e) = e
        BY <3>1, OpeningAbove DEF OpensAny
      <4>5. f[i] = i
        BY <2>1, <2>5, <3>2, <3>6, <4>3, <4>4 DEF TopAbove, OpensDoc
      <4> QED
        BY <2>1, <3>2, <4>2, <4>5 DEF Tops
    <3> QED
      BY <3>4, <3>5, <3>6
  <2> QED
    BY <2>4, <2>5
<1>4. ASSUME NEW i \in 1..s, \A j \in 1..(i - 1) : j \in P
      PROVE  i \in P
  BY <1>3, <1>4
<1>5. \A i \in 1..s : i \in P
  <2> HIDE DEF P
  <2> QED
    BY <1>1, <1>4, LineByLine
<1>6. Carries(t[s])
  BY DEF Carries
<1>7. s \in P
  BY <1>1, <1>5
<1> QED
  BY <1>2, <1>6, <1>7

-----------------------------------------------------------------------------
(***************************************************************************)
(* Where blocks go by indentation, the room a definition leaves, ...       *)
(***************************************************************************)

\* Line i starts the definition that ends with line e.
Defines(t, i, e) ==
    /\ IsText(t) /\ Editable(t) /\ Numbers(t)
    /\ i \in 1..Len(t) /\ t[i].kind \in Headers
    /\ e = SpanEnd(t, i)

\* What follows for the definition and its text.
LEMMA DefinesFacts ==
    ASSUME NEW t, NEW s, NEW e, Defines(t, s, e)
    PROVE  /\ IsText(t) /\ Len(t) \in Nat /\ s \in 1..Len(t) /\ e \in s..Len(t) /\ s \in Nat /\ e \in Nat
           /\ t[s].kind \in Headers /\ e = SpanEnd(t, s) /\ Solid(t[s]) /\ ~IsBlank(t[s])
           /\ Reparses(t) /\ DistinctLines(t) /\ Placed(t) /\ KindsKnown(t) /\ Standing(t)
           /\ DeepBlocks(t) /\ (~Braces => OneShallow(t))
           /\ \A i \in 1..Len(t) : t[i].ind \in Nat /\ t[i].id \in Nat
           /\ s - 1 \in 0..Len(t) /\ t[s].ind \in Nat /\ t[s].id \in Nat \ {0}
<1>1. /\ IsText(t) /\ s \in 1..Len(t) /\ t[s].kind \in Headers /\ e = SpanEnd(t, s) /\ Editable(t)
      /\ Numbers(t)
  BY DEF Defines
<1>2. e \in s..Len(t) /\ Len(t) \in Nat
  BY <1>1, SpanEndWithin, EmptyIffShort DEF IsText
<1>3. Solid(t[s]) /\ ~IsBlank(t[s])
  BY <1>1 DEF Solid, IsBlank, NoCode, Headers
<1>4. /\ Reparses(t) /\ DistinctLines(t) /\ Placed(t) /\ KindsKnown(t) /\ Standing(t)
      /\ DeepBlocks(t) /\ (~Braces => OneShallow(t))
  BY <1>1, WrittenParts
<1>5. \A i \in 1..Len(t) : t[i].ind \in Nat /\ t[i].id \in Nat
  BY <1>1 DEF Numbers
<1>6. t[s].id # 0
  BY <1>1, <1>3, <1>4 DEF Placed
<1>7. s \in Nat /\ e \in Nat /\ s - 1 \in 0..Len(t)
  BY <1>1, <1>2
<1> QED
  BY <1>1, <1>2, <1>3, <1>4, <1>5, <1>6, <1>7

-----------------------------------------------------------------------------
\* Where blocks go by indentation: the end of a definition is code, and what
\* follows starts no deeper than its header.
LEMMA EndByIndent ==
    ASSUME ~Braces, NEW t, NEW s, NEW e, Defines(t, s, e)
    PROVE  /\ Deeper(t, s, e) /\ Solid(t[e])
           /\ \A k \in (e + 1)..Len(t) : Solid(t[k]) =>
                \E j \in (e + 1)..k : Solid(t[j]) /\ t[j].ind <= t[s].ind
<1> DEFINE n == Len(t)
           v == t[s].ind
<1>1. /\ IsText(t) /\ n \in Nat /\ s \in 1..n /\ e \in s..n /\ e = SpanEnd(t, s) /\ Solid(t[s])
      /\ OneShallow(t) /\ \A i \in 1..n : t[i].ind \in Nat
  BY DefinesFacts
<1>2. Deeper(t, s, e) /\ Solid(t[e])
      /\ \A k \in (s + 1)..n : Solid(t[k]) /\ Deeper(t, s, k) => k <= e
  <2>1. CASE t[s].kind = "one"
    <3>1. e = s
      BY <1>1, <2>1 DEF SpanEnd
    <3>2. Deeper(t, s, s)
      BY <1>1 DEF Deeper
    <3>3. \A k \in (s + 1)..n : Solid(t[k]) => ~Deeper(t, s, k)
      BY <1>1, <2>1 DEF OneShallow
    <3> QED
      BY <1>1, <3>1, <3>2, <3>3
  <2>2. CASE t[s].kind # "one"
    BY <1>1, <2>2, SpanByIndent
  <2> QED
    BY <2>1, <2>2
<1> HIDE DEF n
<1>3. ASSUME NEW k \in (e + 1)..n, Solid(t[k]),
             \A j \in (e + 1)..k : Solid(t[j]) => ~(t[j].ind <= v)
      PROVE  FALSE
  <2>1. k \in (s + 1)..n
    BY <1>1
  <2>2. ASSUME NEW j \in (s + 1)..k
        PROVE  t[j].kind \in NoCode \/ t[j].ind > v
    <3>1. j \in (s + 1)..e \/ j \in (e + 1)..k
      BY <1>1
    <3>2. j \in 1..n /\ t[j].ind \in Nat /\ v \in Nat
      BY <1>1
    <3>3. CASE j \in (s + 1)..e
      BY <1>2, <3>3 DEF Deeper
    <3>4. CASE j \in (e + 1)..k
      <4>1. Solid(t[j]) => ~(t[j].ind <= v)
        BY <1>3, <3>4
      <4> QED
        BY <3>2, <4>1 DEF Solid
    <3> QED
      BY <3>1, <3>3, <3>4
  <2>3. Deeper(t, s, k)
    BY <2>2 DEF Deeper
  <2>4. k <= e
    BY <1>2, <1>3, <2>1, <2>3
  <2> QED
    BY <1>1, <2>4
<1> QED
  BY <1>2, <1>3 DEF n

\* The definitions around a definition reach to its end.
LEMMA AroundReach ==
    ASSUME ~Braces, NEW t, NEW s, NEW e, Defines(t, s, e),
           NEW i \in 1..(s - 1), t[i].kind \in Headers, t[i].ind < t[s].ind, Deeper(t, i, s - 1)
    PROVE  Deeper(t, i, e) /\ t[i].kind # "one" /\ \A k \in i..e : In(t, i, k)
<1> DEFINE n == Len(t)
<1>1. /\ IsText(t) /\ n \in Nat /\ s \in 1..n /\ e \in s..n
      /\ OneShallow(t) /\ \A j \in 1..n : t[j].ind \in Nat
  BY DefinesFacts
<1>2. Deeper(t, s, e) /\ Solid(t[e])
  BY EndByIndent
<1>3. ASSUME NEW k \in (i + 1)..e
      PROVE  t[k].kind \in NoCode \/ t[k].ind > t[i].ind
  <2>1. k \in (i + 1)..(s - 1) \/ k = s \/ k \in (s + 1)..e
    BY <1>1
  <2>2. k \in 1..n /\ i \in 1..n
    BY <1>1
  <2>3. CASE k \in (i + 1)..(s - 1)
    BY <2>3 DEF Deeper
  <2>4. CASE k = s
    BY <1>1, <2>2, <2>4
  <2>5. CASE k \in (s + 1)..e
    BY <1>1, <1>2, <2>2, <2>5 DEF Deeper
  <2> QED
    BY <2>1, <2>3, <2>4, <2>5
<1>4. Deeper(t, i, e)
  BY <1>3 DEF Deeper
<1>5. i \in 1..n /\ e \in (i + 1)..n
  BY <1>1
<1>6. t[i].kind # "one"
  BY <1>1, <1>2, <1>4, <1>5 DEF OneShallow
<1>7. \A k \in i..e : In(t, i, k)
  <2>1. In(t, i, i) /\ \A k \in (i + 1)..n :
            In(t, i, k) <=> \E x \in k..n : Solid(t[x]) /\ Deeper(t, i, x)
    BY <1>1, <1>5, InByIndent
  <2>2. ASSUME NEW k \in (i + 1)..e
        PROVE  In(t, i, k)
    <3>1. k \in (i + 1)..n /\ e \in k..n
      BY <1>1
    <3> QED
      BY <1>2, <1>4, <2>1, <3>1
  <2>3. \A k \in i..e : k = i \/ k \in (i + 1)..e
    BY <1>1
  <2> QED
    BY <2>1, <2>2, <2>3
<1> QED
  BY <1>4, <1>6, <1>7

\* Lines directly above a symbol that go with it.
Attaches(t, top, s) == top \in 1..s /\ \A k \in top..(s - 1) : Above(t, k, s)

\* Above the trivia and above the symbol, the same definitions are open.
LEMMA SameAboveIndent ==
    ASSUME ~Braces, NEW t, NEW s, NEW e, Defines(t, s, e), NEW top, Attaches(t, top, s)
    PROVE  /\ OpenFor(t, top - 1, t[s].ind) = OpenFor(t, s - 1, t[s].ind)
           /\ \A k \in top..s : Solid(t[k]) /\ t[k].ind = t[s].ind
<1> DEFINE n == Len(t)
           v == t[s].ind
<1>1. /\ n \in Nat /\ s \in 1..n /\ Solid(t[s]) /\ \A j \in 1..n : t[j].ind \in Nat
      /\ top \in 1..s /\ \A k \in top..(s - 1) : t[k].kind \in Trivia /\ t[k].ind = v
  BY DefinesFacts DEF Attaches, Above
<1>2. \A x : x.kind \in Trivia => Solid(x) /\ x.kind \notin Headers
  BY DEF Trivia, Decorating, Attached, OpensAny, OpensDoc, Headers, Solid, NoCode
<1> HIDE DEF n, v
<1>3. \A k \in top..s : Solid(t[k]) /\ t[k].ind = v
  <2>1. \A k \in top..s : k \in top..(s - 1) \/ k = s
    BY <1>1
  <2> QED
    BY <1>1, <1>2, <2>1 DEF v
<1>4. \A i \in OpenFor(t, top - 1, v) : i \in OpenFor(t, s - 1, v)
  <2> SUFFICES ASSUME NEW i \in 1..(top - 1), t[i].kind \in Headers, t[i].ind < v, Deeper(t, i, top - 1)
               PROVE  i \in OpenFor(t, s - 1, v)
    BY DEF OpenFor
  <2>1. \A k \in (i + 1)..(s - 1) : k \in (i + 1)..(top - 1) \/ k \in top..(s - 1)
    BY <1>1
  <2>2. \A k \in (i + 1)..(s - 1) : t[k].kind \in NoCode \/ t[k].ind > t[i].ind
    <3>1. t[i].ind \in Nat /\ v \in Nat
      BY <1>1 DEF v
    <3>2. \A k \in top..(s - 1) : t[k].ind > t[i].ind
      BY <1>1, <3>1
    <3> QED
      BY <2>1, <3>2 DEF Deeper
  <2>3. i \in 1..(s - 1)
    BY <1>1
  <2> QED
    BY <2>2, <2>3 DEF OpenFor, Deeper
<1>5. \A i \in OpenFor(t, s - 1, v) : i \in OpenFor(t, top - 1, v)
  <2> SUFFICES ASSUME NEW i \in 1..(s - 1), t[i].kind \in Headers, t[i].ind < v, Deeper(t, i, s - 1)
               PROVE  i \in OpenFor(t, top - 1, v)
    BY DEF OpenFor
  <2>1. ~(i \in top..(s - 1))
    BY <1>1, <1>2
  <2>2. i \in 1..(top - 1)
    BY <1>1, <2>1
  <2>3. Deeper(t, i, top - 1)
    BY <1>1 DEF Deeper
  <2> QED
    BY <2>2, <2>3 DEF OpenFor
<1> QED
  BY <1>3, <1>4, <1>5 DEF v

\* Room where a definition is, with the trivia above it and a blank line below.
Ends(t, e, q) == q = e \/ (q = e + 1 /\ q <= Len(t) /\ IsBlank(t[q]))

\* A definition can be taken away with its trivia and a blank line below.
LEMMA RoomOfIndent ==
    ASSUME ~Braces, NEW t, NEW s, NEW e, Defines(t, s, e), NEW top, Attaches(t, top, s),
           NEW q, Ends(t, e, q)
    PROVE  Room(t, top - 1, q, t[s].ind) /\ Reaching(t, top - 1, t[s].ind)
<1> DEFINE n == Len(t)
           v == t[s].ind
           p == top - 1
<1>1. /\ n \in Nat /\ s \in 1..n /\ e \in s..n /\ \A j \in 1..n : t[j].ind \in Nat
      /\ top \in 1..s /\ v \in Nat
  BY DefinesFacts DEF Attaches
<1>2. /\ Deeper(t, s, e)
      /\ \A k \in (e + 1)..n : Solid(t[k]) => \E j \in (e + 1)..k : Solid(t[j]) /\ t[j].ind <= v
  BY EndByIndent
<1>3. /\ OpenFor(t, p, v) = OpenFor(t, s - 1, v)
      /\ \A k \in top..s : Solid(t[k]) /\ t[k].ind = v
  BY SameAboveIndent
<1>4. q \in e..n /\ (q = e \/ (q = e + 1 /\ IsBlank(t[q])))
  BY <1>1 DEF Ends, n
<1>5. \A x : IsBlank(x) => ~Solid(x)
  BY DEF IsBlank, Solid, NoCode
<1> HIDE DEF n, v
<1>6. ASSUME NEW k \in (q + 1)..n, Solid(t[k])
      PROVE  \E j \in (q + 1)..k : Solid(t[j]) /\ t[j].ind <= v
  <2>1. k \in (e + 1)..n
    BY <1>1, <1>4
  <2>2. PICK j \in (e + 1)..k : Solid(t[j]) /\ t[j].ind <= v
    BY <1>2, <1>6, <2>1
  <2>3. j \in (q + 1)..k
    BY <1>1, <1>4, <1>5, <2>2
  <2> QED
    BY <2>2, <2>3
<1>7. ASSUME NEW j \in (p + 1)..q, Solid(t[j])
      PROVE  t[j].ind >= v
  <2>1. j \in top..s \/ j \in (s + 1)..e \/ (j = q /\ q = e + 1)
    BY <1>1, <1>4
  <2>2. CASE j \in top..s
    BY <1>1, <1>3, <2>2
  <2>3. CASE j \in (s + 1)..e
    <3>1. t[j].ind > v
      BY <1>2, <1>7, <2>3 DEF Deeper, Solid, v
    <3>2. t[j].ind \in Nat
      BY <1>1, <2>3
    <3> QED
      BY <1>1, <3>1, <3>2
  <2>4. CASE j = q /\ q = e + 1
    BY <1>1, <1>4, <1>5, <1>7, <2>4
  <2> QED
    BY <2>1, <2>2, <2>3, <2>4
<1>8. Fits(t, p, q, v)
  BY <1>1, <1>6, <1>7 DEF Fits, n
<1>9. Reaching(t, p, v)
  <2> SUFFICES ASSUME NEW i \in OpenFor(t, p, v)
               PROVE  In(t, i, p) /\ t[i].kind # "one"
    BY DEF Reaching
  <2>1. i \in 1..p /\ i \in 1..(s - 1) /\ t[i].kind \in Headers /\ t[i].ind < v /\ Deeper(t, i, s - 1)
    BY <1>3 DEF OpenFor
  <2>2. t[i].kind # "one" /\ \A k \in i..e : In(t, i, k)
    BY <2>1, AroundReach DEF v
  <2>3. p \in i..e
    BY <1>1, <2>1
  <2> QED
    BY <2>2, <2>3
<1> QED
  BY <1>8, <1>9 DEF Room, v

-----------------------------------------------------------------------------
(***************************************************************************)
(* ... and the places around and inside it.                                *)
(***************************************************************************)

\* There is room above a definition, ...
LEMMA RoomBeforeIndent ==
    ASSUME ~Braces, NEW t, NEW s, NEW e, Defines(t, s, e), NEW top, Attaches(t, top, s)
    PROVE  Room(t, top - 1, top - 1, t[s].ind)
<1> DEFINE n == Len(t)
           v == t[s].ind
           p == top - 1
<1>1. n \in Nat /\ s \in 1..n /\ top \in 1..s /\ v \in Nat
  BY DefinesFacts DEF Attaches
<1>2. \A k \in top..s : Solid(t[k]) /\ t[k].ind = v
  BY SameAboveIndent
<1>3. Ends(t, e, e)
  BY DEF Ends
<1>4. Reaching(t, p, v)
  BY <1>3, RoomOfIndent
<1> HIDE DEF n, v
<1>5. top \in top..s /\ \A k \in (p + 1)..n : top \in (p + 1)..k
  BY <1>1
<1>6. Solid(t[top]) /\ t[top].ind <= v
  BY <1>1, <1>2, <1>5
<1>7. \A j \in (p + 1)..p : FALSE
  BY <1>1
<1>8. Fits(t, p, p, v)
  BY <1>1, <1>5, <1>6, <1>7 DEF Fits, n
<1> QED
  BY <1>4, <1>8 DEF Room, v

\* ... below it, ...
LEMMA RoomAfterIndent ==
    ASSUME ~Braces, NEW t, NEW s, NEW e, Defines(t, s, e)
    PROVE  Room(t, e, e, t[s].ind) /\ OpenFor(t, e, t[s].ind) = OpenFor(t, s - 1, t[s].ind)
<1> DEFINE n == Len(t)
           v == t[s].ind
<1>1. /\ n \in Nat /\ s \in 1..n /\ e \in s..n /\ \A j \in 1..n : t[j].ind \in Nat
      /\ v \in Nat /\ Solid(t[s])
  BY DefinesFacts
<1>2. /\ Deeper(t, s, e)
      /\ \A k \in (e + 1)..n : Solid(t[k]) => \E j \in (e + 1)..k : Solid(t[j]) /\ t[j].ind <= v
  BY EndByIndent
<1>3. \A x : x.kind \in Headers => Solid(x)
  BY DEF Headers, Solid, NoCode
<1> HIDE DEF n
<1>4. ASSUME NEW i \in 1..(s - 1), t[i].kind \in Headers, t[i].ind < v, Deeper(t, i, s - 1)
      PROVE  i \in OpenFor(t, e, v) /\ t[i].kind # "one" /\ In(t, i, e)
  <2>1. Deeper(t, i, e) /\ t[i].kind # "one" /\ \A k \in i..e : In(t, i, k)
    BY <1>4, AroundReach
  <2>2. i \in 1..e /\ e \in i..e
    BY <1>1
  <2> QED
    BY <1>4, <2>1, <2>2 DEF OpenFor
<1>5. ASSUME NEW i \in 1..e, t[i].kind \in Headers, t[i].ind < v, Deeper(t, i, e)
      PROVE  i \in 1..(s - 1) /\ Deeper(t, i, s - 1)
  <2>1. ~(i \in (s + 1)..e)
    <3> SUFFICES ASSUME i \in (s + 1)..e
                 PROVE  FALSE
      OBVIOUS
    <3>1. t[i].ind > v
      BY <1>2, <1>3, <1>5 DEF Deeper, Solid
    <3>2. t[i].ind \in Nat
      BY <1>1
    <3> QED
      BY <1>1, <1>5, <3>1, <3>2
  <2>2. i # s
    BY <1>1, <1>5
  <2>3. i \in 1..(s - 1)
    BY <1>1, <2>1, <2>2
  <2> QED
    BY <1>1, <1>5, <2>3 DEF Deeper
<1> HIDE DEF v
<1>6. OpenFor(t, e, v) = OpenFor(t, s - 1, v)
  <2>1. \A i \in OpenFor(t, e, v) : i \in OpenFor(t, s - 1, v)
    BY <1>5 DEF OpenFor
  <2>2. \A i \in OpenFor(t, s - 1, v) : i \in OpenFor(t, e, v)
    BY <1>4 DEF OpenFor
  <2> QED
    BY <2>1, <2>2
<1>7. Reaching(t, e, v)
  <2>1. \A i \in OpenFor(t, e, v) : In(t, i, e) /\ t[i].kind # "one"
    BY <1>4, <1>5 DEF OpenFor
  <2> QED
    BY <2>1 DEF Reaching
<1>8. \A j \in (e + 1)..e : FALSE
  BY <1>1
<1>9. Fits(t, e, e, v)
  BY <1>1, <1>2, <1>8 DEF Fits, n
<1> QED
  BY <1>6, <1>7, <1>9 DEF Room, v

\* ... and at its end, for a line that is as deep as its body.
LEMMA RoomIntoIndent ==
    ASSUME ~Braces, NEW t, NEW s, NEW e, Defines(t, s, e), e > s, NEW v \in Nat, v > t[s].ind,
           \A k \in (s + 1)..e : IsBlank(t[k]) \/ t[k].ind >= v
    PROVE  /\ Room(t, e, e, v)
           /\ OpenFor(t, e, v) = OpenFor(t, s - 1, t[s].ind) \cup {s}
<1> DEFINE n == Len(t)
           w == t[s].ind
<1>1. /\ n \in Nat /\ s \in 1..n /\ e \in s..n /\ \A j \in 1..n : t[j].ind \in Nat
      /\ w \in Nat /\ Solid(t[s]) /\ t[s].kind \in Headers /\ e = SpanEnd(t, s)
  BY DefinesFacts
<1>2. /\ Deeper(t, s, e)
      /\ \A k \in (e + 1)..n : Solid(t[k]) => \E j \in (e + 1)..k : Solid(t[j]) /\ t[j].ind <= w
  BY EndByIndent
<1>3. \A x : x.kind \in Headers => Solid(x) /\ ~IsBlank(x)
  BY DEF Headers, Solid, NoCode, IsBlank
<1>4. t[s].kind # "one"
  BY <1>1 DEF SpanEnd
<1> HIDE DEF n
<1>5. ASSUME NEW i \in 1..(s - 1), t[i].kind \in Headers, t[i].ind < w, Deeper(t, i, s - 1)
      PROVE  i \in OpenFor(t, e, v) /\ t[i].kind # "one" /\ In(t, i, e)
  <2>1. Deeper(t, i, e) /\ t[i].kind # "one" /\ \A k \in i..e : In(t, i, k)
    BY <1>5, AroundReach
  <2>2. i \in 1..e /\ e \in i..e /\ t[i].ind \in Nat
    BY <1>1
  <2>3. t[i].ind < v
    BY <1>1, <1>5, <2>2
  <2> QED
    BY <1>5, <2>1, <2>2, <2>3 DEF OpenFor
<1>6. s \in OpenFor(t, e, v) /\ In(t, s, e)
  <2>1. s \in 1..e
    BY <1>1
  <2> QED
    BY <1>1, <1>2, <2>1 DEF OpenFor, In
<1>7. ASSUME NEW i \in 1..e, t[i].kind \in Headers, t[i].ind < v, Deeper(t, i, e), i # s
      PROVE  i \in 1..(s - 1) /\ t[i].ind < w /\ Deeper(t, i, s - 1)
  <2>1. ~(i \in (s + 1)..e)
    <3> SUFFICES ASSUME i \in (s + 1)..e
                 PROVE  FALSE
      OBVIOUS
    <3>1. t[i].ind >= v
      BY <1>3, <1>7
    <3>2. t[i].ind \in Nat
      BY <1>1
    <3> QED
      BY <1>7, <3>1, <3>2
  <2>2. i \in 1..(s - 1)
    BY <1>1, <1>7, <2>1
  <2>3. s \in (i + 1)..e
    BY <1>1, <2>2
  <2>4. t[s].ind > t[i].ind
    BY <1>1, <1>7, <2>3 DEF Deeper, Solid
  <2>5. t[i].ind \in Nat
    BY <1>1
  <2>6. Deeper(t, i, s - 1)
    BY <1>1, <1>7, <2>2 DEF Deeper
  <2> QED
    BY <1>1, <2>2, <2>4, <2>5, <2>6
<1>8. v > w
  OBVIOUS
<1> HIDE DEF w
<1>9. OpenFor(t, e, v) = OpenFor(t, s - 1, w) \cup {s}
  <2>1. \A i \in OpenFor(t, e, v) : i \in OpenFor(t, s - 1, w) \cup {s}
    BY <1>7 DEF OpenFor
  <2>2. \A i \in OpenFor(t, s - 1, w) : i \in OpenFor(t, e, v)
    BY <1>5 DEF OpenFor
  <2> QED
    BY <1>6, <2>1, <2>2
<1>10. Reaching(t, e, v)
  <2>1. \A i \in OpenFor(t, e, v) : i = s \/ i \in OpenFor(t, s - 1, w)
    BY <1>9
  <2>2. \A i \in OpenFor(t, s - 1, w) : In(t, i, e) /\ t[i].kind # "one"
    BY <1>5 DEF OpenFor
  <2> QED
    BY <1>4, <1>6, <2>1, <2>2 DEF Reaching
<1>11. \A j \in (e + 1)..e : FALSE
  BY <1>1
<1>12. \A k \in (e + 1)..n : Solid(t[k]) => \E j \in (e + 1)..k : Solid(t[j]) /\ t[j].ind <= v
  <2> SUFFICES ASSUME NEW k \in (e + 1)..n, Solid(t[k])
               PROVE  \E j \in (e + 1)..k : Solid(t[j]) /\ t[j].ind <= v
    OBVIOUS
  <2>1. PICK j \in (e + 1)..k : Solid(t[j]) /\ t[j].ind <= w
    BY <1>2
  <2>2. t[j].ind \in Nat
    BY <1>1
  <2> QED
    BY <1>1, <1>8, <2>1, <2>2
<1>13. Fits(t, e, e, v)
  BY <1>11, <1>12 DEF Fits, n
<1> QED
  BY <1>9, <1>10, <1>13 DEF Room, w

\* At the end of a text nothing is open for a line that is not indented.
LEMMA RoomAtEndIndent ==
    ASSUME ~Braces, NEW t, IsText(t), Numbers(t)
    PROVE  Room(t, Len(t), Len(t), 0) /\ OpenFor(t, Len(t), 0) = {}
<1>1. Len(t) \in Nat
  BY EmptyIffShort
<1> DEFINE n == Len(t)
<1>2. \A i \in 1..n : t[i].ind \in Nat
  BY DEF Numbers
<1>3. OpenFor(t, n, 0) = {}
  <2>1. \A i \in 1..n : ~(t[i].ind < 0)
    BY <1>2
  <2> HIDE DEF n
  <2> QED
    BY <2>1 DEF OpenFor
<1>4. \A j \in (n + 1)..n : FALSE
  BY <1>1
<1> HIDE DEF n
<1>5. Fits(t, n, n, 0)
  BY <1>4 DEF Fits, n
<1>6. Reaching(t, n, 0)
  BY <1>3 DEF Reaching
<1> QED
  BY <1>3, <1>5, <1>6 DEF Room, n

\* The definitions a header is in are the open ones above it, and its own.
LEMMA HeaderByIndent ==
    ASSUME ~Braces, NEW t, NEW s, NEW e, Defines(t, s, e),
           NEW i \in 1..(s - 1), t[i].kind \in Headers
    PROVE  In(t, i, s) <=> i \in OpenFor(t, s - 1, t[s].ind)
<1> DEFINE n == Len(t)
           v == t[s].ind
<1>1. /\ IsText(t) /\ n \in Nat /\ s \in 1..n /\ e \in s..n /\ \A j \in 1..n : t[j].ind \in Nat
      /\ OneShallow(t) /\ Solid(t[s])
  BY DefinesFacts
<1>2. i \in 1..n /\ s \in (i + 1)..n /\ s \in i..e
  BY <1>1
<1>3. In(t, i, s) <=> \E x \in s..n : Solid(t[x]) /\ Deeper(t, i, x)
  BY <1>1, <1>2, InByIndent
<1>4. ASSUME NEW x \in s..n, Deeper(t, i, x)
      PROVE  i \in OpenFor(t, s - 1, v)
  <2>1. s \in (i + 1)..x
    BY <1>1, <1>2
  <2>2. t[s].ind > t[i].ind
    BY <1>1, <1>4, <2>1 DEF Deeper, Solid
  <2>3. Deeper(t, i, s - 1)
    BY <1>1, <1>4 DEF Deeper
  <2>4. t[i].ind < v
    BY <1>1, <1>2, <2>2
  <2> QED
    BY <2>3, <2>4 DEF OpenFor
<1>5. ASSUME i \in OpenFor(t, s - 1, v)
      PROVE  In(t, i, s)
  <2>1. t[i].ind < v /\ Deeper(t, i, s - 1)
    BY <1>5 DEF OpenFor
  <2>2. \A k \in i..e : In(t, i, k)
    BY <2>1, AroundReach
  <2> QED
    BY <1>2, <2>2
<1> QED
  BY <1>3, <1>4, <1>5

\* No decorator is the last line of a definition.
LEMMA LastLineIndent ==
    ASSUME ~Braces, NEW t, NEW s, NEW e, Defines(t, s, e)
    PROVE  t[e].kind \notin Trivia
<1> SUFFICES ASSUME t[e].kind \in Trivia
             PROVE  FALSE
  OBVIOUS
<1> DEFINE n == Len(t)
           below == {k \in (e + 1)..n : t[k].kind \notin NoCode}
<1>1. /\ IsText(t) /\ n \in Nat /\ s \in 1..n /\ e \in s..n /\ \A j \in 1..n : t[j].ind \in Nat
      /\ Reparses(t) /\ KindsKnown(t) /\ t[s].kind \in Headers
  BY DefinesFacts
<1>2. /\ Deeper(t, s, e) /\ Solid(t[e])
      /\ \A k \in (e + 1)..n : Solid(t[k]) => \E j \in (e + 1)..k : Solid(t[j]) /\ t[j].ind <= t[s].ind
  BY EndByIndent
<1>3. DOMAIN t = 1..n /\ e \in 1..n
  BY <1>1, LenProperties DEF IsText
<1>4. t[e].kind \in Decorating
  BY <1>1, <1>3 DEF KindsKnown, Kinds, Trivia, Headers, NoCode, OpensDoc
<1>5. ~DecoratesNothing(t, e)
  BY <1>1, <1>3 DEF Reparses, HasParseError
<1>6. /\ below # {}
      /\ t[Min(below)].ind = t[e].ind
  BY <1>4, <1>5 DEF DecoratesNothing
<1>7. Min(below) \in below /\ \A k \in below : Min(below) <= k
  <2>1. below \in SUBSET Nat
    BY <1>1
  <2> HIDE DEF below
  <2> QED
    BY <1>6, <2>1, MinIsIn
<1> DEFINE m == Min(below)
<1>8. m \in (e + 1)..n /\ Solid(t[m]) /\ t[m].ind = t[e].ind
  BY <1>6, <1>7 DEF Solid
<1>9. \A k \in (e + 1)..n : Solid(t[k]) => m <= k
  BY <1>7 DEF Solid
<1> HIDE DEF m, below, n
<1>10. PICK j \in (e + 1)..m : Solid(t[j]) /\ t[j].ind <= t[s].ind
  BY <1>2, <1>8
<1>11. j = m
  <2>1. j \in (e + 1)..n
    BY <1>1, <1>8
  <2>2. m <= j
    BY <1>9, <1>10, <2>1
  <2> QED
    BY <1>1, <1>8, <1>10, <2>2
<1>12. e # s
  BY <1>1, <1>4 DEF Decorating, Attached, Headers
<1>13. e \in (s + 1)..e
  BY <1>1, <1>12
<1>14. t[e].ind > t[s].ind
  BY <1>2, <1>13 DEF Deeper, Solid
<1>15. t[e].ind \in Nat /\ t[s].ind \in Nat
  BY <1>1, <1>3
<1> QED
  BY <1>8, <1>10, <1>11, <1>14, <1>15

-----------------------------------------------------------------------------
(***************************************************************************)
(* The same where blocks end with a closing line.                          *)
(***************************************************************************)

\* Where blocks end with a closing line: the depth around a definition.
LEMMA DepthsAround ==
    ASSUME Braces, NEW t, NEW s, NEW e, Defines(t, s, e)
    PROVE  /\ IsText(t) /\ Balanced(t)
           /\ \A j \in 0..Len(t) : Depth(t, j) \in Nat
           /\ Depth(t, e) = Depth(t, s - 1)
           /\ \A j \in s..(e - 1) : Depth(t, j) > Depth(t, s - 1)
           /\ t[e].kind = "close" \/ (e = s /\ t[s].kind = "one")
<1>1. /\ IsText(t) /\ Reparses(t) /\ s \in 1..Len(t) /\ t[s].kind \in Headers /\ e = SpanEnd(t, s)
  BY DefinesFacts
<1>2. Balanced(t)
  BY <1>1 DEF Reparses, ValidateReparse
<1>3. \A j \in 0..Len(t) : Depth(t, j) \in Nat
  BY <1>1, <1>2, BalancedDepth
<1>4. /\ Depth(t, e) = Depth(t, s - 1)
      /\ \A j \in s..(e - 1) : Depth(t, j) > Depth(t, s - 1)
      /\ t[e].kind = "close" \/ (e = s /\ t[s].kind = "one")
  BY <1>1, <1>2, SpanInBraces
<1> QED
  BY <1>1, <1>2, <1>3, <1>4

\* Nothing opens or closes in the trivia above it.
LEMMA DepthOfTrivia ==
    ASSUME Braces, NEW t, NEW s, NEW e, Defines(t, s, e), NEW top, Attaches(t, top, s)
    PROVE  \A j \in (top - 1)..(s - 1) : Depth(t, j) = Depth(t, s - 1)
<1> DEFINE p == top - 1
           S == {d \in Nat : p + d <= s - 1 => Depth(t, p + d) = Depth(t, p)}
<1>1. /\ s \in Nat \ {0} /\ top \in 1..s /\ p \in Nat
      /\ \A k \in top..(s - 1) : t[k].kind \in Trivia
  <2>1. s \in 1..Len(t) /\ s \in Nat
    BY DefinesFacts
  <2>2. top \in 1..s /\ \A k \in top..(s - 1) : t[k].kind \in Trivia
    BY DEF Attaches, Above
  <2> QED
    BY <2>1, <2>2
<1>2. \A x \in Trivia : x \notin Openers \cup {"close"}
  BY DEF Trivia, Decorating, Attached, OpensAny, OpensDoc, Openers
<1>3. 0 \in S
  BY <1>1
<1>4. ASSUME NEW d \in Nat, d \in S
      PROVE  d + 1 \in S
  <2> SUFFICES ASSUME p + (d + 1) <= s - 1
               PROVE  Depth(t, p + (d + 1)) = Depth(t, p)
    OBVIOUS
  <2> DEFINE a == p + d
  <2>1. a \in Nat /\ a + 1 = p + (d + 1) /\ a + 1 \in top..(s - 1) /\ a <= s - 1
    BY <1>1
  <2>2. Depth(t, a) = Depth(t, p)
    BY <1>4, <2>1
  <2> HIDE DEF a
  <2>3. t[a + 1].kind \notin Openers \cup {"close"}
    BY <1>1, <1>2, <2>1
  <2>4. Depth(t, a + 1) = Depth(t, a)
    BY <2>1, <2>3, DepthStep
  <2> QED
    BY <2>1, <2>2, <2>4
<1>5. \A d \in Nat : d \in S
  <2> HIDE DEF S
  <2> QED
    BY <1>3, <1>4, NaturalInduction
<1>6. ASSUME NEW j \in p..(s - 1)
      PROVE  Depth(t, j) = Depth(t, p)
  <2>1. j - p \in Nat /\ p + (j - p) = j /\ j <= s - 1
    BY <1>1
  <2>2. j - p \in S
    BY <1>5, <2>1
  <2> QED
    BY <2>1, <2>2
<1>7. s - 1 \in p..(s - 1)
  BY <1>1
<1> HIDE DEF p
<1>8. \A j \in p..(s - 1) : Depth(t, j) = Depth(t, s - 1)
  BY <1>6, <1>7
<1> QED
  BY <1>8 DEF p

\* The same definitions are open above the trivia and above the definition, ...
LEMMA SameAboveBraces ==
    ASSUME Braces, NEW t, NEW s, NEW e, Defines(t, s, e), NEW top, Attaches(t, top, s)
    PROVE  Open(t, top - 1) = Open(t, s - 1)
<1> DEFINE p == top - 1
           r == s - 1
<1>1. /\ s \in Nat \ {0} /\ top \in 1..s /\ p \in Nat /\ r \in Nat /\ p <= r
      /\ \A k \in top..(s - 1) : t[k].kind \in Trivia
  BY DefinesFacts DEF Attaches, Above
<1>2. \A j \in p..r : Depth(t, j) = Depth(t, r)
  BY DepthOfTrivia
<1>3. \A x \in Trivia : x \notin Headers
  BY DEF Trivia, Decorating, Attached, OpensAny, OpensDoc, Headers
<1>4. \A i \in 1..r : i \in 1..p \/ i \in top..(s - 1)
  BY <1>1
<1>5. p \in p..r /\ r \in p..r
  BY <1>1
<1> HIDE DEF p, r
<1>6. Depth(t, p) = Depth(t, r)
  BY <1>2, <1>5
<1>7. ASSUME NEW i \in Open(t, p)
      PROVE  i \in Open(t, r)
  <2>1. i \in 1..p /\ t[i].kind \in Headers /\ \A j \in i..p : Depth(t, j) > Depth(t, i - 1)
    BY DEF Open
  <2>2. i \in 1..r /\ p \in i..p /\ \A j \in i..r : j \in i..p \/ j \in p..r
    BY <1>1, <2>1
  <2>3. Depth(t, p) > Depth(t, i - 1)
    BY <2>1, <2>2
  <2>4. \A j \in i..r : Depth(t, j) > Depth(t, i - 1)
    BY <1>2, <1>6, <2>1, <2>2, <2>3
  <2> QED
    BY <2>1, <2>2, <2>4 DEF Open
<1>8. ASSUME NEW i \in Open(t, r)
      PROVE  i \in Open(t, p)
  <2>1. i \in 1..r /\ t[i].kind \in Headers /\ \A j \in i..r : Depth(t, j) > Depth(t, i - 1)
    BY DEF Open
  <2>2. i \in 1..p
    BY <1>1, <1>3, <1>4, <2>1
  <2>3. \A j \in i..p : j \in i..r
    BY <1>1, <2>2
  <2> QED
    BY <2>1, <2>2, <2>3 DEF Open
<1>9. Open(t, p) = Open(t, r)
  BY <1>7, <1>8
<1> QED
  BY <1>9 DEF p, r

\* A definition can be taken away with its trivia and a blank line below.
LEMMA RoomOfBraces ==
    ASSUME Braces, NEW t, NEW s, NEW e, Defines(t, s, e), NEW top, Attaches(t, top, s),
           NEW q, Ends(t, e, q), NEW v
    PROVE  Room(t, top - 1, q, v)
<1> DEFINE p == top - 1
           n == Len(t)
           d == Depth(t, s - 1)
<1>1. /\ n \in Nat /\ s \in 1..n /\ e \in s..n /\ top \in 1..s
  BY DefinesFacts DEF Attaches
<1>2. /\ \A j \in 0..n : Depth(t, j) \in Nat
      /\ Depth(t, e) = d
      /\ \A j \in s..(e - 1) : Depth(t, j) > d
  BY DepthsAround
<1>3. \A j \in p..(s - 1) : Depth(t, j) = d
  BY DepthOfTrivia
<1>4. q \in e..n /\ (q = e \/ (q = e + 1 /\ IsBlank(t[q])))
  BY <1>1 DEF Ends, n
<1>5. Depth(t, q) = d
  <2>1. CASE q = e
    BY <1>2, <2>1
  <2>2. CASE q = e + 1 /\ IsBlank(t[q])
    <3>1. t[e + 1].kind \notin Openers \cup {"close"} /\ e \in Nat
      BY <1>1, <2>2 DEF IsBlank, Openers
    <3>2. Depth(t, e + 1) = Depth(t, e)
      BY <3>1, DepthStep
    <3> QED
      BY <1>2, <2>2, <3>2
  <2> QED
    BY <1>4, <2>1, <2>2
<1>6. p \in p..(s - 1) /\ s - 1 \in 0..n
  BY <1>1
<1>7. Depth(t, p) = d /\ d \in Nat
  BY <1>2, <1>3, <1>6
<1>8. \A j \in p..q : j \in p..(s - 1) \/ j \in s..(e - 1) \/ j = e \/ j = q
  BY <1>1, <1>4
<1>9. \A j \in p..q : j \in 0..n
  BY <1>1, <1>4
<1> HIDE DEF p, n, d
<1>10. \A j \in p..q : Depth(t, j) >= d
  <2> SUFFICES ASSUME NEW j \in p..q
               PROVE  Depth(t, j) >= d
    OBVIOUS
  <2>1. Depth(t, j) = d \/ Depth(t, j) > d
    BY <1>2, <1>3, <1>5, <1>8
  <2>2. Depth(t, j) \in Nat
    BY <1>2, <1>9
  <2> QED
    BY <1>7, <2>1, <2>2
<1>11. Level(t, p, q)
  BY <1>5, <1>7, <1>10 DEF Level
<1> QED
  BY <1>11 DEF Room, p

\* ... nothing is in the way of an insertion, ...
LEMMA RoomAnywhere ==
    ASSUME Braces, NEW t, NEW p \in Nat, NEW v
    PROVE  Room(t, p, p, v)
<1>1. Depth(t, p) \in Int
  BY DepthStep
<1>2. \A j \in p..p : j = p
  OBVIOUS
<1> QED
  BY <1>1, <1>2 DEF Room, Level

\* ... below a definition the same are open as above it, ...
LEMMA SameBelowBraces ==
    ASSUME Braces, NEW t, NEW s, NEW e, Defines(t, s, e)
    PROVE  Open(t, e) = Open(t, s - 1)
<1> DEFINE r == s - 1
           d == Depth(t, r)
           n == Len(t)
<1>1. n \in Nat /\ s \in 1..n /\ e \in s..n /\ r \in 0..n /\ r < s /\ r + 1 = s
  BY DefinesFacts
<1>2. /\ \A j \in 0..n : Depth(t, j) \in Nat
      /\ Depth(t, e) = d
      /\ \A j \in s..(e - 1) : Depth(t, j) > d
  BY DepthsAround
<1>3. d \in Nat
  BY <1>1, <1>2
<1> HIDE DEF r, d, n
<1>4. ASSUME NEW i \in Open(t, e)
      PROVE  i \in Open(t, r)
  <2>1. i \in 1..e /\ t[i].kind \in Headers /\ \A j \in i..e : Depth(t, j) > Depth(t, i - 1)
    BY DEF Open
  <2>2. e \in i..e /\ i - 1 \in 0..n
    BY <1>1, <2>1
  <2>3. d > Depth(t, i - 1) /\ Depth(t, i - 1) \in Nat
    BY <1>2, <2>1, <2>2
  <2>4. i # s
    BY <1>1, <1>3, <2>3 DEF d, r
  <2>5. ~(i \in (s + 1)..e)
    <3> SUFFICES ASSUME i \in (s + 1)..e
                 PROVE  FALSE
      OBVIOUS
    <3>1. i - 1 \in s..(e - 1)
      BY <1>1
    <3>2. Depth(t, i - 1) > d
      BY <1>2, <3>1
    <3> QED
      BY <1>3, <2>3, <3>2
  <2>6. i \in 1..r /\ \A j \in i..r : j \in i..e
    BY <1>1, <2>1, <2>4, <2>5
  <2> QED
    BY <2>1, <2>6 DEF Open
<1>5. ASSUME NEW i \in Open(t, r)
      PROVE  i \in Open(t, e)
  <2>1. i \in 1..r /\ t[i].kind \in Headers /\ \A j \in i..r : Depth(t, j) > Depth(t, i - 1)
    BY DEF Open
  <2>2. r \in i..r /\ i - 1 \in 0..n /\ i \in 1..e
        /\ \A j \in i..e : j \in i..r \/ j \in s..(e - 1) \/ j = e
    BY <1>1, <2>1
  <2>3. d > Depth(t, i - 1) /\ Depth(t, i - 1) \in Nat
    BY <1>2, <2>1, <2>2 DEF d
  <2>4. ASSUME NEW j \in i..e
        PROVE  Depth(t, j) > Depth(t, i - 1)
    <3>1. j \in 0..n
      BY <1>1, <2>1
    <3>2. Depth(t, j) \in Nat
      BY <1>2, <3>1
    <3> QED
      BY <1>2, <1>3, <2>1, <2>2, <2>3, <3>2
  <2> QED
    BY <2>1, <2>2, <2>4 DEF Open
<1>6. Open(t, e) = Open(t, r)
  BY <1>4, <1>5
<1> QED
  BY <1>6 DEF r

\* ... and above its closing line it is open, too.
LEMMA OpenIntoBraces ==
    ASSUME Braces, NEW t, NEW s, NEW e, Defines(t, s, e), e > s
    PROVE  /\ Open(t, e - 1) = Open(t, s - 1) \cup {s}
           /\ t[e - 1].kind \notin Trivia
<1> DEFINE r == s - 1
           d == Depth(t, r)
           n == Len(t)
           x == e - 1
<1>1. /\ n \in Nat /\ s \in 1..n /\ e \in s..n /\ r \in 0..n /\ r < s /\ r + 1 = s
      /\ x \in s..(e - 1) /\ x + 1 = e /\ x \in 1..n /\ e \in Nat \ {0}
      /\ t[s].kind \in Headers /\ Standing(t)
  BY DefinesFacts
<1>2. /\ \A j \in 0..n : Depth(t, j) \in Nat
      /\ Depth(t, e) = d
      /\ \A j \in s..(e - 1) : Depth(t, j) > d
      /\ t[e].kind = "close"
  <2>1. /\ \A j \in 0..Len(t) : Depth(t, j) \in Nat
        /\ Depth(t, e) = Depth(t, s - 1)
        /\ \A j \in s..(e - 1) : Depth(t, j) > Depth(t, s - 1)
        /\ t[e].kind = "close" \/ (e = s /\ t[s].kind = "one")
    BY DepthsAround
  <2>2. e # s
    BY <1>1
  <2> QED
    BY <2>1, <2>2
<1>3. d \in Nat
  BY <1>1, <1>2
<1>4. Depth(t, x) = d + 1
  <2>1. Depth(t, e) = Depth(t, e - 1) - 1 /\ Depth(t, e - 1) \in Int
    BY <1>1, <1>2, DepthMoves
  <2> QED
    BY <1>2, <1>3, <2>1
<1>5. t[x].kind \notin Trivia
  <2> SUFFICES ASSUME t[x].kind \in Trivia
               PROVE  FALSE
    OBVIOUS
  <2>1. StandsOver(t, x)
    BY <1>1 DEF Standing
  <2>2. t[e].kind \in Trivia \cup Headers \/ IsBlank(t[e])
    BY <1>1, <2>1 DEF StandsOver
  <2> QED
    BY <1>2, <2>2 DEF Trivia, Decorating, Attached, OpensAny, OpensDoc, Headers, IsBlank
<1> HIDE DEF r, d, n, x
<1>6. ASSUME NEW i \in Open(t, x)
      PROVE  i = s \/ i \in Open(t, r)
  <2>1. i \in 1..x /\ t[i].kind \in Headers /\ \A j \in i..x : Depth(t, j) > Depth(t, i - 1)
    BY DEF Open
  <2>2. x \in i..x /\ i - 1 \in 0..n
    BY <1>1, <2>1
  <2>3. d + 1 > Depth(t, i - 1) /\ Depth(t, i - 1) \in Nat
    BY <1>2, <1>4, <2>1, <2>2
  <2>4. ~(i \in (s + 1)..x)
    <3> SUFFICES ASSUME i \in (s + 1)..x
                 PROVE  FALSE
      OBVIOUS
    <3>1. i - 1 \in s..(e - 1)
      BY <1>1
    <3>2. Depth(t, i - 1) > d
      BY <1>2, <3>1
    <3> QED
      BY <1>3, <2>3, <3>2
  <2> SUFFICES ASSUME i # s
               PROVE  i \in Open(t, r)
    OBVIOUS
  <2>5. i \in 1..r /\ \A j \in i..r : j \in i..x
    BY <1>1, <2>1, <2>4
  <2> QED
    BY <2>1, <2>5 DEF Open
<1>7. ASSUME NEW i \in Open(t, r)
      PROVE  i \in Open(t, x)
  <2>1. i \in 1..r /\ t[i].kind \in Headers /\ \A j \in i..r : Depth(t, j) > Depth(t, i - 1)
    BY DEF Open
  <2>2. r \in i..r /\ i - 1 \in 0..n /\ i \in 1..x
        /\ \A j \in i..x : j \in i..r \/ j \in s..(e - 1)
    BY <1>1, <2>1
  <2>3. d > Depth(t, i - 1) /\ Depth(t, i - 1) \in Nat
    BY <1>2, <2>1, <2>2 DEF d
  <2>4. ASSUME NEW j \in i..x
        PROVE  Depth(t, j) > Depth(t, i - 1)
    <3>1. j \in 0..n
      BY <1>1, <2>1
    <3>2. Depth(t, j) \in Nat
      BY <1>2, <3>1
    <3> QED
      BY <1>2, <1>3, <2>1, <2>2, <2>3, <3>2
  <2> QED
    BY <2>1, <2>2, <2>4 DEF Open
<1>8. s \in Open(t, x)
  <2>1. s \in 1..x /\ \A j \in s..x : j \in s..(e - 1)
    BY <1>1
  <2>2. \A j \in s..x : Depth(t, j) > Depth(t, s - 1)
    BY <1>2, <2>1 DEF d, r
  <2> QED
    BY <1>1, <2>1, <2>2 DEF Open
<1>9. Open(t, x) = Open(t, r) \cup {s}
  BY <1>6, <1>7, <1>8
<1> QED
  BY <1>5, <1>9 DEF x, r

\* At the end of a text nothing is open.
LEMMA OpenAtEnd ==
    ASSUME Braces, NEW t, IsText(t), Balanced(t)
    PROVE  Open(t, Len(t)) = {}
<1>1. Depth(t, Len(t)) = 0 /\ (\A j \in 0..Len(t) : Depth(t, j) \in Nat) /\ Len(t) \in Nat
  BY BalancedDepth, EmptyIffShort
<1> DEFINE n == Len(t)
<1> HIDE DEF n
<1>2. ASSUME NEW i \in Open(t, n)
      PROVE  FALSE
  <2>1. i \in 1..n /\ \A j \in i..n : Depth(t, j) > Depth(t, i - 1)
    BY DEF Open
  <2>2. n \in i..n /\ i - 1 \in 0..n
    BY <1>1, <2>1 DEF n
  <2>3. Depth(t, n) > Depth(t, i - 1) /\ Depth(t, i - 1) \in Nat
    BY <1>1, <2>1, <2>2 DEF n
  <2> QED
    BY <1>1, <2>3 DEF n
<1> QED
  BY <1>2 DEF n

\* The definitions that are open above another are the ones around it.
LEMMA HeaderInBraces ==
    ASSUME Braces, NEW t, NEW s, NEW e, Defines(t, s, e),
           NEW i \in 1..(s - 1), t[i].kind \in Headers
    PROVE  In(t, i, s) <=> i \in Open(t, s - 1)
<1>1. IsText(t) /\ Balanced(t) /\ Len(t) \in Nat /\ s \in 1..Len(t)
  BY DepthsAround, DefinesFacts
<1>2. i \in 1..Len(t) /\ s \in i..Len(t)
  BY <1>1
<1>3. In(t, i, s) <=> \A j \in i..(s - 1) : Depth(t, j) > Depth(t, i - 1)
  BY <1>1, <1>2, InByDepth
<1> QED
  BY <1>3 DEF Open

\* What closes a definition is no trivia.
LEMMA LastLineBraces ==
    ASSUME Braces, NEW t, NEW s, NEW e, Defines(t, s, e)
    PROVE  t[e].kind \notin Trivia
<1>1. t[e].kind = "close" \/ t[e].kind \in Headers
  BY DepthsAround, DefinesFacts
<1> QED
  BY <1>1 DEF Trivia, Decorating, Attached, OpensAny, OpensDoc, Headers

-----------------------------------------------------------------------------
(***************************************************************************)
(* The place of a definition in either kind of language.                   *)
(***************************************************************************)

\* The names of the definitions of B.
IdsOf(t, B) == {t[i].id : i \in B}

\* What encloses a definition stands above it.
LEMMA EnclosingHeader ==
    ASSUME NEW t, NEW s, NEW e, Defines(t, s, e), NEW B, B = Enclosing(t, s - 1, t[s].ind)
    PROVE  /\ \A i \in B : i \in 1..(s - 1) /\ t[i].kind \in Headers
           /\ \A i \in 1..(s - 1) : t[i].kind \in Headers => (In(t, i, s) <=> i \in B)
<1>1. CASE Braces
  <2>1. B = Open(t, s - 1)
    BY <1>1 DEF Enclosing
  <2>2. \A i \in 1..(s - 1) : t[i].kind \in Headers => (In(t, i, s) <=> i \in B)
    BY <1>1, <2>1, HeaderInBraces
  <2> QED
    BY <2>1, <2>2 DEF Open
<1>2. CASE ~Braces
  <2>1. B = OpenFor(t, s - 1, t[s].ind)
    BY <1>2 DEF Enclosing
  <2>2. \A i \in 1..(s - 1) : t[i].kind \in Headers => (In(t, i, s) <=> i \in B)
    BY <1>2, <2>1, HeaderByIndent
  <2> QED
    BY <2>1, <2>2 DEF OpenFor
<1> QED
  BY <1>1, <1>2

\* A definition was written into the ones around it and itself.
LEMMA OwnOfHeader ==
    ASSUME NEW t, NEW s, NEW e, Defines(t, s, e), NEW B, B = Enclosing(t, s - 1, t[s].ind)
    PROVE  /\ t[s].own = IdsOf(t, B) \cup {t[s].id}
           /\ t[s].id \notin IdsOf(t, B)
<1>1. /\ IsText(t) /\ s \in 1..Len(t) /\ s \in Nat /\ e \in s..Len(t) /\ e = SpanEnd(t, s)
      /\ t[s].kind \in Headers /\ Placed(t) /\ DistinctLines(t) /\ Len(t) \in Nat
      /\ t[s].id \in Nat \ {0}
  BY DefinesFacts
<1>2. /\ \A i \in B : i \in 1..(s - 1) /\ t[i].kind \in Headers
      /\ \A i \in 1..(s - 1) : t[i].kind \in Headers => (In(t, i, s) <=> i \in B)
  BY EnclosingHeader
<1>3. Around(t, s) = t[s].own
  BY <1>1 DEF Placed, CodeKinds
<1>4. \A i \in 1..(s - 1) : i \in 1..Len(t) /\ i # s
  BY <1>1
<1>5. ASSUME NEW x \in t[s].own
      PROVE  x \in IdsOf(t, B) \cup {t[s].id}
  <2>1. InAround(t, s, x)
    BY <1>1, <1>3, AroundBy
  <2>2. PICK i \in 1..Len(t) : t[i].kind \in Headers /\ In(t, i, s) /\ t[i].id = x
    BY <2>1 DEF InAround
  <2>3. i <= s
    BY <2>2 DEF In
  <2>4. i = s \/ i \in 1..(s - 1)
    BY <1>1, <2>3
  <2> QED
    BY <1>2, <2>2, <2>4 DEF IdsOf
<1>6. ASSUME NEW x \in IdsOf(t, B) \cup {t[s].id}
      PROVE  x \in t[s].own
  <2>1. In(t, s, s)
    BY <1>1 DEF In
  <2>2. \E i \in 1..Len(t) : t[i].kind \in Headers /\ In(t, i, s) /\ t[i].id = x
    BY <1>1, <1>2, <1>4, <2>1 DEF IdsOf
  <2> QED
    BY <1>1, <1>3, <2>2, AroundBy DEF InAround
<1>7. ASSUME NEW i \in B
      PROVE  t[i].id # t[s].id
  BY <1>1, <1>2, <1>4 DEF DistinctLines
<1> QED
  BY <1>5, <1>6, <1>7 DEF IdsOf

\* The lines of a definition were written into it.
LEMMA OwnInSpan ==
    ASSUME NEW t, NEW s, NEW e, Defines(t, s, e), NEW k \in s..e
    PROVE  IsBlank(t[k]) \/ t[s].id \in t[k].own
<1>1. /\ IsText(t) /\ s \in 1..Len(t) /\ e \in s..Len(t) /\ e = SpanEnd(t, s)
      /\ t[s].kind \in Headers /\ Placed(t) /\ Len(t) \in Nat
  BY DefinesFacts
<1>2. k \in 1..Len(t) /\ k \in Nat /\ s <= k /\ k <= e
  BY <1>1
<1>3. In(t, s, k)
  BY <1>1, <1>2 DEF In
<1>4. t[s].id \in Around(t, k)
  BY <1>1, <1>2, <1>3, AroundBy DEF InAround
<1> QED
  BY <1>2, <1>1, <1>4 DEF Placed

-----------------------------------------------------------------------------
\* A definition and the trivia above it are in the way of nothing, ...
LEMMA RoomOfSymbol ==
    ASSUME NEW t, NEW s, NEW e, Defines(t, s, e), NEW top, Attaches(t, top, s),
           NEW q, Ends(t, e, q)
    PROVE  /\ Room(t, top - 1, q, t[s].ind)
           /\ Room(t, top - 1, top - 1, t[s].ind)
           /\ Enclosing(t, top - 1, t[s].ind) = Enclosing(t, s - 1, t[s].ind)
<1>1. CASE Braces
  <2>1. top - 1 \in Nat
    BY DefinesFacts DEF Attaches
  <2>2. Room(t, top - 1, top - 1, t[s].ind)
    BY <1>1, <2>1, RoomAnywhere
  <2> QED
    BY <1>1, <2>2, RoomOfBraces, SameAboveBraces DEF Enclosing
<1>2. CASE ~Braces
  BY <1>2, RoomOfIndent, RoomBeforeIndent, SameAboveIndent DEF Enclosing
<1> QED
  BY <1>1, <1>2

\* ... another one can stand below, ...
LEMMA RoomBelowSymbol ==
    ASSUME NEW t, NEW s, NEW e, Defines(t, s, e)
    PROVE  /\ Room(t, e, e, t[s].ind)
           /\ Enclosing(t, e, t[s].ind) = Enclosing(t, s - 1, t[s].ind)
           /\ t[e].kind \notin Trivia
<1>1. CASE Braces
  <2>1. e \in Nat
    BY DefinesFacts
  <2> QED
    BY <1>1, <2>1, RoomAnywhere, SameBelowBraces, LastLineBraces DEF Enclosing
<1>2. CASE ~Braces
  BY <1>2, RoomAfterIndent, LastLineIndent DEF Enclosing
<1> QED
  BY <1>1, <1>2

\* ... and at the end of a text.
LEMMA RoomAtEnd ==
    ASSUME NEW t, IsText(t), Editable(t), Numbers(t)
    PROVE  /\ Room(t, Len(t), Len(t), 0)
           /\ Enclosing(t, Len(t), 0) = {}
           /\ Len(t) >= 1 => t[Len(t)].kind \notin Trivia
<1>1. Len(t) \in Nat /\ Standing(t) /\ Reparses(t)
  BY EmptyIffShort, WrittenParts
<1>2. Len(t) >= 1 => t[Len(t)].kind \notin Trivia
  <2> SUFFICES ASSUME Len(t) >= 1, t[Len(t)].kind \in Trivia
               PROVE  FALSE
    OBVIOUS
  <2>1. Len(t) \in 1..Len(t)
    BY <1>1
  <2>2. StandsOver(t, Len(t))
    BY <1>1, <2>1 DEF Standing
  <2>3. Len(t) < Len(t)
    BY <2>2 DEF StandsOver
  <2> QED
    BY <1>1, <2>3
<1>3. CASE Braces
  <2>1. Balanced(t)
    BY <1>1, <1>3 DEF Reparses, ValidateReparse
  <2> QED
    BY <1>1, <1>2, <1>3, <2>1, RoomAnywhere, OpenAtEnd DEF Enclosing
<1>4. CASE ~Braces
  BY <1>2, <1>4, RoomAtEndIndent DEF Enclosing
<1> QED
  BY <1>3, <1>4

-----------------------------------------------------------------------------
(***************************************************************************)
(* The edits, one by one, have room for what they write.                   *)
(***************************************************************************)

\* What stood over a definition stands over what takes its place.
LEMMA StandsOverNew ==
    ASSUME NEW t, NEW s, NEW e, Defines(t, s, e), NEW p, p = s - 1, p >= 1, t[p].kind \in Trivia,
           NEW u, NEW q, NEW m, Spliced(t, u, p, q, m), m >= 1, u[s].own = t[s].own,
           \/ u[s].kind \in Headers /\ (Braces \/ u[s].ind = t[s].ind)
           \/ IsBlank(u[s])
    PROVE  StandsOver(u, p)
<1>1. /\ s \in 1..Len(t) /\ s \in Nat /\ Len(t) \in Nat /\ Standing(t)
      /\ t[s].kind \in Headers /\ ~IsBlank(t[s])
  BY DefinesFacts
<1>2. p \in 1..Len(t) /\ p + 1 = s /\ p \in 1..p
  BY <1>1
<1>3. StandsOver(t, p)
  BY <1>1, <1>2 DEF Standing
<1>4. /\ DocGoesOn(t[p]) <=> InDoc(t[s])
      /\ t[p].own = t[s].own /\ (Braces \/ t[p].ind = t[s].ind)
  BY <1>1, <1>2, <1>3 DEF StandsOver
<1>5. ~InDoc(t[s]) /\ ~InDoc(u[s])
  BY <1>1 DEF InDoc, Headers, IsBlank
<1>6. u[p] = t[p] /\ q \in p..Len(t) /\ Len(u) = Len(t) - q + (p + m) /\ m \in Nat
  BY <1>2 DEF Spliced
<1>7. p < Len(u)
  BY <1>1, <1>2, <1>6
<1> QED
  BY <1>2, <1>4, <1>5, <1>6, <1>7 DEF StandsOver

\* A line in Symbols.
LEMMA DefinesSymbol ==
    ASSUME NEW t, NEW s, NEW e, Defines(t, s, e)
    PROVE  \E r \in Symbols(t) : r.id = t[s].id
<1>1. s \in 1..Len(t) /\ t[s].kind \in Headers /\ IsText(t)
  BY DefinesFacts
<1>2. DOMAIN t = 1..Len(t)
  BY <1>1, LenProperties DEF IsText
<1> DEFINE r == [id |-> t[s].id, name |-> t[s].name, start |-> s, end |-> SpanEnd(t, s)]
<1>3. r \in Symbols(t)
  BY <1>1, <1>2 DEF Symbols
<1>4. r.id = t[s].id
  OBVIOUS
<1> QED
  BY <1>3, <1>4

\* A definition can be replaced by another one.
LEMMA ReplaceFits ==
    ASSUME NEW t, NEW s, NEW e, Defines(t, s, e), NEW b,
           BlockOf(t, b, t[s].id, t[s].own, t[s].ind),
           NEW u, GoesOn(u, SubSeq(t, 1, s - 1) \o b, t, e)
    PROVE  Fitted(t, u, s - 1, e, Len(b), s, t[s].ind, t[s].id) /\ Numbers(u)
<1> DEFINE p == s - 1
           m == Len(b)
           v == t[s].ind
           id == t[s].id
           B == Enclosing(t, p, v)
<1>1. /\ IsText(t) /\ Len(t) \in Nat /\ s \in 1..Len(t) /\ e \in s..Len(t) /\ s \in Nat /\ e \in Nat
      /\ DistinctLines(t) /\ v \in Nat /\ id \in Nat \ {0} /\ ~IsBlank(t[s])
      /\ t[s].kind \in Headers
  BY DefinesFacts
<1>2. p \in 0..Len(t) /\ e \in p..Len(t) /\ s = p + 0 + 1 /\ p < e /\ p \in Nat /\ p + 1 = s
      /\ p + 0 = p
  BY <1>1
<1>3. IsText(b) /\ m \in Nat \ {0} /\ m = Len(b) + 0 /\ m \in Nat /\ m >= 1
  BY DEF BlockOf
<1>4. Spliced(t, u, p, e, m) /\ \A k \in 1..m : u[p + k] = b[k]
  BY <1>1, <1>2, <1>3, SplicedMiddle
<1>5. Brings(u, p, 0, b)
  BY <1>2, <1>4 DEF Brings
<1>6. Numbers(t)
  BY DEF Defines
<1>7. \A i \in 1..Len(t) : t[i].id = id => i = p + 1 /\ p < e /\ 0 = 0
  BY <1>1, <1>2 DEF DistinctLines
<1>8. /\ NewBlock(u, p, m, s, v) /\ NewIds(t, u, p, e, m) /\ Numbers(u) /\ u[s].id = id
      /\ \A k \in s..(p + m) : u[k].own = t[s].own \cup {id}
  <2> DEFINE own == t[s].own
             g == 0
  <2>1. BlockOf(t, b, id, own, v) /\ id \in Nat \ {0} /\ v \in Nat
    BY <1>1
  <2>0. Spliced(t, u, p, e, m)
    BY <1>4
  <2>2. /\ g \in {0, 1} /\ m = Len(b) + g /\ Brings(u, p, g, b) /\ s = p + g + 1
        /\ Freed(t, p, e, g, id)
    BY <1>2, <1>3, <1>5, <1>7 DEF Freed
  <2> HIDE DEF p, m, v, id, g, own
  <2>3. PutAt(t, u, p, e, m, s, v, own, id)
    BY ONLY <1>6, <2>0, <2>1, <2>2, PutBlock, Zenon
  <2> QED
    BY <2>3 DEF own, PutAt
<1>9. /\ t[s].own = IdsOf(t, B) \cup {id}
      /\ \A i \in B : i \in 1..p /\ t[i].kind \in Headers
  <2>1. B = Enclosing(t, s - 1, t[s].ind)
    OBVIOUS
  <2> HIDE DEF B
  <2> QED
    BY <2>1, OwnOfHeader, EnclosingHeader
<1>10. NewOwn(t, u, p, m, s, B, id)
  <2>1. \A k \in s..(p + m) : u[k].own = IdsOf(t, B) \cup {id}
    BY <1>8, <1>9
  <2> HIDE DEF B, p, m, id
  <2> QED
    BY <1>8, <1>9, <2>1 DEF NewOwn, IdsOf
<1>11. Room(t, p, e, v)
  <2>1. Attaches(t, s, s)
    BY <1>1 DEF Attaches
  <2>2. Ends(t, e, e)
    BY DEF Ends
  <2> QED
    BY <2>1, <2>2, RoomOfSymbol
<1>12. s \in s..(p + m) /\ s <= p + m
  BY <1>1, <1>2, <1>3
<1>13. u[s].own = t[s].own /\ u[s].kind \in Headers /\ (Braces \/ u[s].ind = v)
  <2>1. u[s].own = t[s].own
    BY <1>8, <1>9, <1>12
  <2>2. u[s].kind \in Headers
    BY <1>8, <1>12 DEF NewBlock, NewLines
  <2>3. ~Braces => u[s].ind = v
    BY <1>8, <1>12 DEF NewBlock, StartsAt
  <2> QED
    BY <2>1, <2>2, <2>3
<1>14. Seams(t, u, p, e)
  <2>1. t[e].kind \notin Trivia
    BY RoomBelowSymbol
  <2>2. p >= 1 /\ t[p].kind \in Trivia => StandsOver(u, p)
    BY <1>3, <1>4, <1>13, StandsOverNew
  <2> QED
    BY <2>1, <2>2 DEF Seams
<1>15. OfOneSymbol(t, p, e)
  <2>1. \A i \in (p + 1)..e : IsBlank(t[i]) \/ id \in t[i].own
    BY <1>2, OwnInSpan
  <2>2. \E r \in Symbols(t) : r.id = id
    BY DefinesSymbol
  <2> QED
    BY <2>1, <2>2 DEF OfOneSymbol
<1> HIDE DEF p, m, v, id
<1>16. Fitted(t, u, p, e, m, s, v, id)
  BY <1>4, <1>8, <1>10, <1>11, <1>14, <1>15 DEF Fitted
<1> QED
  BY <1>8, <1>16 DEF p, m, v, id

\* An empty line can stand where a definition was.
LEMMA EmptyFits ==
    ASSUME NEW t, NEW s, NEW e, Defines(t, s, e),
           NEW l, IsBlank(l), l.ind \in Nat, l.id = t[s].id, l.own = t[s].own,
           NEW w, IsText(w), Len(w) = 1, w[1] = l,
           NEW u, GoesOn(u, SubSeq(t, 1, s - 1) \o w, t, e)
    PROVE  Fitted(t, u, s - 1, e, 1, s + 1, t[s].ind, t[s].id) /\ Numbers(u)
<1> DEFINE p == s - 1
           v == t[s].ind
           id == t[s].id
           B == Enclosing(t, p, v)
<1>1. /\ IsText(t) /\ Len(t) \in Nat /\ s \in 1..Len(t) /\ e \in s..Len(t) /\ s \in Nat /\ e \in Nat
      /\ DistinctLines(t) /\ v \in Nat /\ id \in Nat \ {0} /\ ~IsBlank(t[s])
      /\ t[s].kind \in Headers /\ \A i \in 1..Len(t) : t[i].ind \in Nat /\ t[i].id \in Nat
  BY DefinesFacts
<1>2. p \in 0..Len(t) /\ e \in p..Len(t) /\ p < e /\ p \in Nat /\ p + 1 = s
      /\ (\A k \in (p + 1)..(p + 1) : k = s) /\ (\A k \in (s + 1)..(p + 1) : FALSE)
      /\ (\A k \in (s + 2)..(p + 1) : FALSE) /\ (\A k \in (s + 1 + 1)..(p + 1) : FALSE)
      /\ ~(s + 1 <= p + 1) /\ s + 1 \in (p + 1)..(p + 1 + 1)
      /\ \A k \in (p + 1)..(s + 1 - 1) : k = s
  BY <1>1
<1>3. 1 \in 1..Len(w)
  OBVIOUS
<1>4. Spliced(t, u, p, e, 1) /\ u[s] = l
  <2>1. IsText(t) /\ p \in 0..Len(t) /\ e \in p..Len(t)
    BY <1>1, <1>2
  <2>0. IsText(w) /\ GoesOn(u, SubSeq(t, 1, p) \o w, t, e)
    OBVIOUS
  <2>2. Spliced(t, u, p, e, Len(w)) /\ \A k \in 1..Len(w) : u[p + k] = w[k]
    BY ONLY <2>0, <2>1, SplicedMiddle
  <2> HIDE DEF p
  <2> QED
    BY <1>2, <1>3, <2>2
<1>5. NewBlock(u, p, 1, s + 1, v)
  <2> HIDE DEF p, v
  <2>1. NewLines(u, p, 1, s + 1)
    BY <1>2, <1>4 DEF NewLines
  <2>2. StartsAt(u, p, 1, s + 1, v)
    BY <1>2 DEF StartsAt
  <2> QED
    BY <1>2, <2>1, <2>2 DEF NewBlock
<1>6. NewIds(t, u, p, e, 1)
  <2>1. \A i \in 1..Len(t) : t[i].id = id => i = s
    BY <1>1 DEF DistinctLines
  <2> HIDE DEF p, id
  <2>2. u[s].id = id
    BY <1>4 DEF id
  <2> QED
    BY <1>2, <1>4, <2>1, <2>2 DEF NewIds
<1>7. Numbers(u)
  <2> DEFINE m == 1
  <2>0. Spliced(t, u, p, e, m) /\ \A j \in (p + 1)..(p + m) : j = s
    BY <1>2, <1>4
  <2> HIDE DEF p, m
  <2>1. \A i \in Stays(t, p, e) : i \in 1..Len(t) /\ u[Moved(p, e, m, i)] = t[i]
    BY <2>0, MovedLines
  <2>2. \A j \in 1..Len(u) :
            j \in (p + 1)..(p + m) \/ \E i \in Stays(t, p, e) : j = Moved(p, e, m, i)
    BY <2>0, MovedLines
  <2>3. ASSUME NEW j \in 1..Len(u)
        PROVE  u[j].ind \in Nat /\ u[j].id \in Nat
    <3>1. CASE \E i \in Stays(t, p, e) : j = Moved(p, e, m, i)
      BY <1>1, <2>1, <3>1
    <3>2. CASE j = s
      BY <1>1, <1>4, <3>2
    <3> QED
      BY <2>0, <2>2, <3>1, <3>2
  <2> QED
    BY <2>3 DEF Numbers
<1>8. NewOwn(t, u, p, 1, s + 1, B, id)
  <2>1. \A i \in B : i \in 1..p /\ t[i].kind \in Headers
    <3>1. B = Enclosing(t, s - 1, t[s].ind)
      OBVIOUS
    <3> HIDE DEF B
    <3> QED
      BY <3>1, EnclosingHeader
  <2> HIDE DEF p, B, id
  <2> QED
    BY <1>2, <2>1 DEF NewOwn
<1>9. Room(t, p, e, v)
  <2>1. Attaches(t, s, s)
    BY <1>1 DEF Attaches
  <2>2. Ends(t, e, e)
    BY DEF Ends
  <2> QED
    BY <2>1, <2>2, RoomOfSymbol
<1>10. Seams(t, u, p, e)
  <2>1. t[e].kind \notin Trivia
    BY RoomBelowSymbol
  <2>2. u[s].own = t[s].own /\ IsBlank(u[s])
    BY <1>4
  <2>3. 1 >= 1
    OBVIOUS
  <2>4. p >= 1 /\ t[p].kind \in Trivia => StandsOver(u, p)
    BY <1>4, <2>2, <2>3, StandsOverNew
  <2> QED
    BY <2>1, <2>4 DEF Seams
<1>11. OfOneSymbol(t, p, e)
  <2>1. \A i \in (p + 1)..e : IsBlank(t[i]) \/ id \in t[i].own
    BY <1>2, OwnInSpan
  <2>2. \E r \in Symbols(t) : r.id = id
    BY DefinesSymbol
  <2> QED
    BY <2>1, <2>2 DEF OfOneSymbol
<1> HIDE DEF p, v, id
<1>12. Fitted(t, u, p, e, 1, s + 1, v, id)
  BY <1>4, <1>5, <1>6, <1>8, <1>9, <1>10, <1>11 DEF Fitted
<1> QED
  BY <1>7, <1>12 DEF p, v, id

-----------------------------------------------------------------------------

\* What stands above a definition belongs to it.
LEMMA TriviaOfSymbol ==
    ASSUME NEW t, NEW s, NEW e, Defines(t, s, e), Known(t, t[s].id, s),
           NEW top, top = TriviaTop(t, s)
    PROVE  /\ Attaches(t, top, s)
           /\ top \in 1..s /\ (top = 1 \/ t[top - 1].kind \notin Trivia)
<1>1. IsText(t) /\ Standing(t) /\ KindsKnown(t) /\ s \in 1..Len(t) /\ t[s].kind \in Headers
  BY DefinesFacts
<1>2. t[s].id \in t[s].own
  <2>1. s \in s..e /\ ~IsBlank(t[s])
    BY DefinesFacts
  <2> QED
    BY <2>1, OwnInSpan
<1>3. Tops(t, top, s)
  BY <1>1, <1>2, TriviaAbove
<1> QED
  BY <1>3 DEF Tops, Attaches

\* A definition can be taken away, with the trivia above and a blank line below.
LEMMA DeleteFits ==
    ASSUME NEW t, NEW s, NEW e, Defines(t, s, e), Known(t, t[s].id, s),
           NEW top, top = TriviaTop(t, s), NEW q, Ends(t, e, q), NEW u, GoesOn(u, SubSeq(t, 1, top - 1), t, q)
    PROVE  Fitted(t, u, top - 1, q, 0, top, t[s].ind, t[s].id) /\ Numbers(u)
<1> DEFINE p == top - 1
           v == t[s].ind
           id == t[s].id
           B == Enclosing(t, p, v)
           m == 0
<1>1. /\ IsText(t) /\ Len(t) \in Nat /\ s \in 1..Len(t) /\ e \in s..Len(t) /\ s \in Nat /\ e \in Nat
      /\ v \in Nat /\ ~IsBlank(t[s]) /\ t[s].kind \in Headers
      /\ \A i \in 1..Len(t) : t[i].ind \in Nat /\ t[i].id \in Nat
  BY DefinesFacts
<1>2. Attaches(t, top, s) /\ top \in 1..s /\ (top = 1 \/ t[top - 1].kind \notin Trivia)
  BY TriviaOfSymbol
<1>3. q \in e..Len(t) /\ (q = e \/ (q = e + 1 /\ IsBlank(t[q])))
  BY <1>1 DEF Ends
<1>4. /\ p \in 0..Len(t) /\ q \in p..Len(t) /\ p < q /\ p \in Nat /\ p + 1 = top /\ m \in Nat
      /\ top \in (p + 1)..(p + m + 1) /\ ~(top <= p + m)
      /\ (\A k \in (p + 1)..(top - 1) : FALSE) /\ (\A k \in (p + 1)..(p + m) : FALSE)
      /\ (\A k \in (top + 1)..(p + m) : FALSE) /\ (\A k \in top..(p + m) : FALSE)
  <2>1. p = top - 1 /\ m = 0 /\ top \in 1..s
    BY <1>2
  <2> DEFINE n == Len(t)
  <2>2. n \in Nat /\ s \in 1..n /\ e \in s..n /\ q \in e..n
    BY <1>1, <1>3
  <2> HIDE DEF p, m, n
  <2>3. /\ p \in 0..n /\ q \in p..n /\ p < q /\ p \in Nat /\ p + 1 = top /\ m \in Nat
        /\ top \in (p + 1)..(p + m + 1) /\ ~(top <= p + m)
    BY ONLY <2>1, <2>2
  <2>4. /\ (\A k \in (p + 1)..(top - 1) : FALSE) /\ (\A k \in (p + 1)..(p + m) : FALSE)
        /\ (\A k \in (top + 1)..(p + m) : FALSE) /\ (\A k \in top..(p + m) : FALSE)
    BY ONLY <2>1, <2>2
  <2> QED
    BY <2>3, <2>4 DEF n
<1>5. Spliced(t, u, p, q, m)
  <2>1. IsText(t) /\ p \in 0..Len(t) /\ q \in p..Len(t)
    BY <1>1, <1>4
  <2>2. GoesOn(u, SubSeq(t, 1, p), t, q)
    OBVIOUS
  <2> HIDE DEF p
  <2> QED
    BY ONLY <2>1, <2>2, SplicedOut
<1>6. NewBlock(u, p, m, top, v)
  <2> HIDE DEF p, v, m
  <2>1. NewLines(u, p, m, top)
    BY <1>4 DEF NewLines
  <2>2. StartsAt(u, p, m, top, v)
    BY <1>4 DEF StartsAt
  <2> QED
    BY <1>4, <2>1, <2>2 DEF NewBlock
<1>7. NewIds(t, u, p, q, m)
  <2> HIDE DEF p, m
  <2> QED
    BY <1>4 DEF NewIds
<1>8. Numbers(u)
  <2> HIDE DEF p, m
  <2>1. \A i \in Stays(t, p, q) : i \in 1..Len(t) /\ u[Moved(p, q, m, i)] = t[i]
    BY <1>5, MovedLines
  <2>2. \A j \in 1..Len(u) :
            j \in (p + 1)..(p + m) \/ \E i \in Stays(t, p, q) : j = Moved(p, q, m, i)
    BY <1>5, MovedLines
  <2>3. ASSUME NEW j \in 1..Len(u)
        PROVE  u[j].ind \in Nat /\ u[j].id \in Nat
    BY <1>1, <1>4, <2>1, <2>2
  <2> QED
    BY <2>3 DEF Numbers
<1>9. /\ Room(t, p, q, v)
      /\ B = Enclosing(t, s - 1, v)
  BY <1>2, RoomOfSymbol
<1>10. \A i \in B : i \in 1..p /\ t[i].kind \in Headers
  BY DEF Enclosing, Open, OpenFor
<1>11. NewOwn(t, u, p, m, top, B, id)
  <2> HIDE DEF p, B, id, m
  <2> QED
    BY <1>4, <1>10 DEF NewOwn
<1>12. Seams(t, u, p, q)
  <2>1. t[e].kind \notin Trivia
    BY RoomBelowSymbol
  <2>2. \A l : IsBlank(l) => l.kind \notin Trivia
    BY DEF IsBlank, Trivia, Decorating, Attached, OpensAny, OpensDoc
  <2>3. t[q].kind \notin Trivia
    BY <1>3, <2>1, <2>2
  <2>4. p >= 1 => t[p].kind \notin Trivia
    BY <1>2, <1>4
  <2> QED
    BY <2>3, <2>4 DEF Seams
<1>13. OfOneSymbol(t, p, q)
  <2>1. \E r \in Symbols(t) : r.id = id
    BY DefinesSymbol
  <2>2. ASSUME NEW i \in (p + 1)..q
        PROVE  IsBlank(t[i]) \/ id \in t[i].own
    <3>1. i \in top..(s - 1) \/ i \in s..e \/ i = e + 1
      BY <1>1, <1>2, <1>3, <1>4
    <3>2. CASE i \in top..(s - 1)
      <4>1. t[i].own = t[s].own
        BY <1>2, <3>2 DEF Attaches, Above
      <4>2. s \in s..e
        BY <1>1
      <4>3. id \in t[s].own
        BY <1>1, <4>2, OwnInSpan
      <4> QED
        BY <4>1, <4>3
    <3>3. CASE i \in s..e
      BY <3>3, OwnInSpan
    <3>4. CASE i = e + 1
      BY <1>1, <1>3, <3>4
    <3> QED
      BY <3>1, <3>2, <3>3, <3>4
  <2> HIDE DEF p, id
  <2> QED
    BY <2>1, <2>2 DEF OfOneSymbol
<1>14. Fitted(t, u, p, q, m, top, v, id)
  <2> HIDE DEF p, v, id, m
  <2> QED
    BY <1>5, <1>6, <1>7, <1>9, <1>11, <1>12, <1>13 DEF Fitted
<1> QED
  BY <1>8, <1>14

-----------------------------------------------------------------------------
\* w is b, below an empty line if g = 1.
Gapped(w, g, b) ==
    /\ IsText(w) /\ Len(w) = g + Len(b)
    /\ g = 1 => w[1] = Blank
    /\ \A k \in 1..Len(b) : w[g + k] = b[k]

\* A definition can be put where there is room, in what is open there.
LEMMA InsertFits ==
    ASSUME NEW t, IsText(t), Editable(t), Numbers(t), NEW at \in 0..Len(t), NEW v \in Nat,
           Room(t, at, at, v), at >= 1 => t[at].kind \notin Trivia,
           NEW id \in Nat \ {0}, \A i \in 1..Len(t) : t[i].id # id,
           NEW own, own = IdsOf(t, Enclosing(t, at, v)),
           NEW b, BlockOf(t, b, id, own, v), NEW g \in {0, 1}, NEW w, Gapped(w, g, b),
           NEW u, GoesOn(u, SubSeq(t, 1, at) \o w, t, at)
    PROVE  Fitted(t, u, at, at, Len(w), at + g + 1, v, id) /\ Numbers(u)
<1> DEFINE B == Enclosing(t, at, v)
           h == at + g + 1
           m == Len(w)
<1>1. Len(t) \in Nat /\ at \in Nat /\ at \in at..Len(t) /\ IsText(b) /\ Len(b) \in Nat \ {0}
  BY EmptyIffShort DEF BlockOf
<1>0. /\ IsText(w) /\ Len(w) = g + Len(b) /\ (g = 1 => w[1] = Blank)
      /\ \A k \in 1..Len(b) : w[g + k] = b[k]
  BY DEF Gapped
<1>2. Spliced(t, u, at, at, m) /\ \A k \in 1..m : u[at + k] = w[k]
  <2>1. IsText(t) /\ IsText(w) /\ at \in 0..Len(t) /\ at \in at..Len(t)
        /\ GoesOn(u, SubSeq(t, 1, at) \o w, t, at)
    BY <1>0, <1>1
  <2> QED
    BY ONLY <2>1, SplicedMiddle
<1>3. m = Len(b) + g /\ m \in Nat /\ (g = 0 \/ g = 1) /\ h = at + g + 1
      /\ (g = 1 => 1 \in 1..m) /\ \A k \in 1..Len(b) : g + k \in 1..m /\ at + (g + k) = at + g + k
  BY <1>0, <1>1
<1> HIDE DEF m, h
<1>4. Brings(u, at, g, b)
  <2>1. g = 1 => u[at + 1] = Blank
    BY <1>0, <1>2, <1>3
  <2>2. ASSUME NEW k \in 1..Len(b)
        PROVE  u[at + g + k] = b[k]
    <3>1. g + k \in 1..m /\ at + (g + k) = at + g + k
      BY <1>3
    <3>2. u[at + (g + k)] = w[g + k] /\ w[g + k] = b[k]
      BY <1>0, <1>2, <3>1
    <3> QED
      BY <3>1, <3>2
  <2> QED
    BY <2>1, <2>2 DEF Brings
<1>5. /\ NewBlock(u, at, m, h, v) /\ NewIds(t, u, at, at, m) /\ Numbers(u) /\ u[h].id = id
      /\ \A k \in h..(at + m) : u[k].own = own \cup {id}
  <2> DEFINE p == at
             q == at
             ind == v
             first == id
             gap == g
  <2>1. /\ Spliced(t, u, p, q, m) /\ Numbers(t)
        /\ BlockOf(t, b, first, own, ind) /\ first \in Nat \ {0} /\ ind \in Nat
    BY <1>2
  <2>2. /\ gap \in {0, 1} /\ m = Len(b) + gap /\ Brings(u, p, gap, b) /\ h = p + gap + 1
        /\ Freed(t, p, q, gap, first)
    BY <1>3, <1>4 DEF Freed
  <2> HIDE DEF p, q, ind, first, gap
  <2>3. PutAt(t, u, p, q, m, h, ind, own, first)
    BY ONLY <2>1, <2>2, PutBlock, Zenon
  <2> QED
    BY <2>3 DEF p, q, ind, first, PutAt
<1>6. \A i \in B : i \in 1..at /\ t[i].kind \in Headers
  BY DEF Enclosing, Open, OpenFor
<1>7. NewOwn(t, u, at, m, h, B, id)
  BY <1>5, <1>6 DEF NewOwn, IdsOf
<1>8. Seams(t, u, at, at)
  BY DEF Seams
<1>9. OfOneSymbol(t, at, at)
  BY DEF OfOneSymbol
<1>10. Fitted(t, u, at, at, m, h, v, id)
  <2>1. NewOwn(t, u, at, m, h, Enclosing(t, at, v), id)
    BY <1>7
  <2> HIDE DEF B
  <2> QED
    BY <1>2, <1>5, <1>8, <1>9, <2>1 DEF Fitted
<1> QED
  BY <1>5, <1>10 DEF m, h

-----------------------------------------------------------------------------
(***************************************************************************)
(* Each of them leaves a text the next one can rely on.                    *)
(***************************************************************************)

\* The edit of t to u leaves a text as the next edit needs it, and keeps lines.
Good(t, u) == Editable(u) /\ Numbers(u) /\ LinesKept(t, u)

\* A symbol is a definition.
LEMMA SymbolDefines ==
    ASSUME NEW t, IsText(t), Editable(t), Numbers(t), NEW s \in Symbols(t)
    PROVE  /\ Defines(t, s.start, s.end) /\ s.id = t[s.start].id
           /\ s.start \in 1..Len(t) /\ s.end \in s.start..Len(t)
<1>1. DOMAIN t = 1..Len(t)
  BY LenProperties DEF IsText
<1>2. PICK i \in 1..Len(t) :
        /\ t[i].kind \in Headers
        /\ s = [id |-> t[i].id, name |-> t[i].name, start |-> i, end |-> SpanEnd(t, i)]
  BY <1>1 DEF Symbols
<1>3. s.id = t[i].id /\ s.start = i /\ s.end = SpanEnd(t, i)
  BY <1>2
<1>4. Defines(t, s.start, s.end)
  BY <1>2, <1>3 DEF Defines
<1>5. s.end \in s.start..Len(t)
  BY <1>4, DefinesFacts
<1> QED
  BY <1>2, <1>3, <1>4, <1>5

\* An insertion puts the block where it says, below an empty line or not.
LEMMA InsertedGap ==
    ASSUME NEW t, NEW at, NEW block, IsText(block), NEW last,
           NEW u, u = Inserted(t, at, block, last)
    PROVE  \E g \in {0, 1} : \E w :
                Gapped(w, g, block) /\ GoesOn(u, SubSeq(t, 1, at) \o w, t, at)
<1> DEFINE l == <<Blank>>
           z == l \o block
           w == IF at = Len(t) /\ ~last THEN block ELSE z
           g == IF at = Len(t) /\ ~last THEN 0 ELSE 1
           x == SubSeq(t, 1, at)
           n == Len(block)
<1>1. IsText(l) /\ Len(l) = 1 /\ l[1] = Blank
  <2>1. l[1] = Blank
    OBVIOUS
  <2> QED
    BY <2>1, OneLine
<1>2. n \in Nat
  BY EmptyIffShort
<1> HIDE DEF l
<1>3. /\ IsText(z) /\ Len(z) = Len(l) + n
      /\ \A i \in 1..Len(l) : z[i] = l[i]
      /\ \A i \in 1..n : z[Len(l) + i] = block[i]
  <2>1. IsText(l) /\ IsText(block)
    BY <1>1
  <2> QED
    BY ONLY <2>1, TextJoin
<1> HIDE DEF z
<1>4. /\ IsText(z) /\ Len(z) = 1 + n /\ z[1] = Blank
      /\ \A k \in 1..n : z[1 + k] = block[k]
  BY <1>1, <1>3
<1>5. 0 + n = n /\ \A k \in 1..n : 0 + k = k
  BY <1>2
<1> HIDE DEF n
<1>6. Gapped(z, 1, block)
  BY <1>4 DEF Gapped, n
<1>7. Gapped(block, 0, block)
  BY <1>5 DEF Gapped, n
<1>8. Gapped(w, g, block) /\ g \in {0, 1}
  BY <1>6, <1>7
<1>9. u = x \o w \o SubSeq(t, at + 1, Len(t))
  BY DEF Inserted, z, l
<1>10. GoesOn(u, SubSeq(t, 1, at) \o w, t, at)
  <2> HIDE DEF w
  <2> QED
    BY <1>9 DEF GoesOn
<1> HIDE DEF w, g
<1> QED
  BY <1>8, <1>10

\* A new definition where there is room is a good edit.
LEMMA InsertIsGood ==
    ASSUME BodiesAreBlocks, lang \in DOMAIN Originals,
           NEW t, IsText(t), Editable(t), Numbers(t), NEW at \in 0..Len(t), NEW v \in Nat,
           Room(t, at, at, v), at >= 1 => t[at].kind \notin Trivia,
           NEW own, own = IdsOf(t, Enclosing(t, at, v)),
           NEW body \in Bodies[lang],
           NEW b, b = Authored(t, ReindentBlock(body, v), FreshId(t), own),
           NEW last, NEW u, u = Inserted(t, at, b, last), Reparses(u)
    PROVE  Good(t, u)
<1> DEFINE id == FreshId(t)
<1>1. id \in Nat \ {0} /\ \A i \in 1..Len(t) : t[i].id # id
  <2>1. id \in Nat \ {0} /\ \A i \in 1..Len(t) : t[i].id < id
    BY FreshIdIsNew
  <2>2. \A i \in 1..Len(t) : t[i].id \in Nat
    BY DEF Numbers
  <2> HIDE DEF id
  <2> QED
    BY <2>1, <2>2
<1> HIDE DEF id
<1>2. BlockOf(t, b, id, own, v)
  <2> DEFINE r == ReindentBlock(body, v)
  <2>1. b = Authored(t, r, id, own)
    BY DEF id
  <2>2. Shaped(r, v)
    BY ReindentedBlock
  <2> HIDE DEF r
  <2> QED
    BY <1>1, <2>1, <2>2, AuthoredBlock
<1>3. IsText(b)
  BY <1>2 DEF BlockOf
<1>4. PICK g \in {0, 1} : \E w :
            Gapped(w, g, b) /\ GoesOn(u, SubSeq(t, 1, at) \o w, t, at)
  BY <1>3, InsertedGap
<1>5. PICK w : Gapped(w, g, b) /\ GoesOn(u, SubSeq(t, 1, at) \o w, t, at)
  BY <1>4
<1>6. Fitted(t, u, at, at, Len(w), at + g + 1, v, id) /\ Numbers(u)
  BY <1>1, <1>2, <1>5, InsertFits
<1> DEFINE h == at + g + 1
           m == Len(w)
<1> HIDE DEF h, m
<1>7. Fitted(t, u, at, at, m, h, v, id)
  BY <1>6 DEF h, m
<1>8. Editable(u) /\ LinesKept(t, u)
  BY <1>6, <1>7, FittedIsGood
<1> QED
  BY <1>6, <1>8 DEF Good

-----------------------------------------------------------------------------
\* The indentation inside a definition whose blocks go by indentation.
LEMMA InnerIndent ==
    ASSUME ~Braces, NEW t, NEW s \in Symbols(t), Defines(t, s.start, s.end), s.end > s.start,
           NEW at, NEW v, v = IndentAt(t, "into", s, at)
    PROVE  /\ v \in Nat /\ v > t[s.start].ind
           /\ \A k \in (s.start + 1)..s.end : IsBlank(t[k]) \/ t[k].ind >= v
<1> DEFINE i == s.start
           e == s.end
           J == {k \in (i + 1)..e : ~IsBlank(t[k])}
           S == {t[k].ind : k \in J}
<1>1. /\ Len(t) \in Nat /\ i \in 1..Len(t) /\ e \in i..Len(t) /\ i \in Nat /\ e \in Nat
      /\ e = SpanEnd(t, i) /\ t[i].kind \in Headers /\ DeepBlocks(t)
      /\ (\A k \in 1..Len(t) : t[k].ind \in Nat) /\ t[i].ind \in Nat
  BY DefinesFacts
<1> HIDE DEF i, e
<1>2. \A k \in (i + 1)..e : k \in 1..Len(t)
  BY <1>1
<1>3. \A k \in J : t[k].ind > t[i].ind /\ t[k].ind \in Nat
  BY <1>1, <1>2 DEF DeepBlocks
<1>4. e \in J
  <2>1. Solid(t[e])
    BY EndByIndent DEF i, e
  <2>2. ~IsBlank(t[e])
    BY <2>1 DEF Solid, NoCode, IsBlank
  <2>3. e \in (i + 1)..e
    BY <1>1 DEF i, e
  <2> QED
    BY <2>2, <2>3
<1>5. v = Min(S)
  <2>1. v = IF J = {} THEN t[i].ind + 1 ELSE Min(S)
    BY DEF IndentAt, i, e
  <2> HIDE DEF S, J
  <2> QED
    BY <1>4, <2>1
<1> HIDE DEF J
<1>6. S \in SUBSET Nat /\ S # {}
  BY <1>3, <1>4
<1>7. \A k \in J : t[k].ind \in S
  OBVIOUS
<1>8. PICK k \in J : v = t[k].ind
  <2>1. Min(S) \in S
    <3> HIDE DEF S
    <3> QED
      BY <1>6, MinIsIn
  <2> QED
    BY <1>5, <2>1
<1>9. v \in Nat /\ v > t[i].ind
  BY <1>3, <1>8
<1> HIDE DEF S
<1>10. \A x \in S : v <= x
  BY <1>5, <1>6, MinIsIn
<1>11. \A l \in J : v <= t[l].ind
  BY <1>7, <1>10
<1>12. ASSUME NEW l \in (i + 1)..e, ~IsBlank(t[l])
       PROVE  t[l].ind >= v
  <2>1. l \in J
    BY <1>12 DEF J
  <2> QED
    BY <1>3, <1>9, <1>11, <2>1
<1> QED
  BY <1>9, <1>12 DEF i, e

\* The indentation of the last line above the closing one.
LEMMA IndentAbove ==
    ASSUME Braces, NEW t, IsText(t), Numbers(t), NEW s, NEW at \in 0..Len(t)
    PROVE  IndentAt(t, "into", s, at) \in Nat
<1> DEFINE A == {k \in 1..at : ~IsBlank(t[k])}
<1>1. Len(t) \in Nat /\ at \in Nat
  BY EmptyIffShort
<1>2. IndentAt(t, "into", s, at) = IF A = {} THEN 0 ELSE t[Max(A)].ind
  BY DEF IndentAt
<1>3. A \in SUBSET (0..at)
  BY <1>1
<1>4. A # {} => Max(A) \in A
  <2> HIDE DEF A
  <2> QED
    BY <1>1, <1>3, MaxIsIn
<1>5. A # {} => Max(A) \in 1..Len(t)
  BY <1>1, <1>4
<1> HIDE DEF A
<1> QED
  BY <1>2, <1>5 DEF Numbers

\* The place for a new member is inside the definition.
LEMMA RoomInside ==
    ASSUME NEW t, NEW s \in Symbols(t), Defines(t, s.start, s.end), s.end > s.start,
           NEW at, at = LinesBefore(t, "into", s), NEW v, v = IndentAt(t, "into", s, at)
    PROVE  /\ at \in 1..Len(t) /\ v \in Nat /\ Room(t, at, at, v) /\ t[at].kind \notin Trivia
           /\ Enclosing(t, at, v) = Enclosing(t, s.start - 1, t[s.start].ind) \cup {s.start}
<1>1. /\ IsText(t) /\ Len(t) \in Nat /\ s.start \in 1..Len(t) /\ s.end \in s.start..Len(t)
      /\ s.start \in Nat /\ s.end \in Nat
  BY DefinesFacts
<1>2. Numbers(t)
  BY DEF Defines
<1>3. CASE Braces
  <2>1. at = s.end - 1
    BY <1>3 DEF LinesBefore
  <2>2. at \in 1..Len(t) /\ at \in 0..Len(t) /\ at \in Nat
    BY <1>1, <2>1
  <2>3. v \in Nat
    BY <1>1, <1>2, <1>3, <2>2, IndentAbove
  <2>4. Room(t, at, at, v)
    BY <1>3, <2>2, RoomAnywhere
  <2>5. /\ Open(t, s.end - 1) = Open(t, s.start - 1) \cup {s.start}
        /\ t[s.end - 1].kind \notin Trivia
    BY <1>3, OpenIntoBraces
  <2> QED
    BY <1>3, <2>1, <2>2, <2>3, <2>4, <2>5 DEF Enclosing
<1>4. CASE ~Braces
  <2>1. at = s.end
    BY <1>4 DEF LinesBefore
  <2>2. at \in 1..Len(t)
    BY <1>1, <2>1
  <2>3. /\ v \in Nat /\ v > t[s.start].ind
        /\ \A k \in (s.start + 1)..s.end : IsBlank(t[k]) \/ t[k].ind >= v
    BY <1>4, InnerIndent
  <2>4. /\ Room(t, s.end, s.end, v)
        /\ OpenFor(t, s.end, v) = OpenFor(t, s.start - 1, t[s.start].ind) \cup {s.start}
    BY <1>4, <2>3, RoomIntoIndent
  <2>5. t[s.end].kind \notin Trivia
    BY RoomBelowSymbol
  <2> QED
    BY <1>4, <2>1, <2>2, <2>3, <2>4, <2>5 DEF Enclosing
<1> QED
  BY <1>3, <1>4

\* The place for a new sibling is beside the definition.
LEMMA RoomBeside ==
    ASSUME NEW t, NEW s \in Symbols(t), Defines(t, s.start, s.end), NEW place \in {"before", "after"},
           place = "before" => Known(t, t[s.start].id, s.start), NEW at, at = LinesBefore(t, place, s), NEW v, v = IndentAt(t, place, s, at)
    PROVE  /\ at \in 0..Len(t) /\ v \in Nat /\ Room(t, at, at, v)
           /\ at >= 1 => t[at].kind \notin Trivia
           /\ Enclosing(t, at, v) = Enclosing(t, s.start - 1, t[s.start].ind)
<1>1. /\ IsText(t) /\ Len(t) \in Nat /\ s.start \in 1..Len(t) /\ s.end \in s.start..Len(t)
      /\ s.start \in Nat /\ s.end \in Nat /\ t[s.start].ind \in Nat
  BY DefinesFacts
<1>2. v = t[s.start].ind
  BY DEF IndentAt
<1>3. CASE place = "after"
  <2>1. at = s.end
    BY <1>3 DEF LinesBefore
  <2>2. at \in 0..Len(t)
    BY <1>1, <2>1
  <2> QED
    BY <1>1, <1>2, <2>1, <2>2, RoomBelowSymbol
<1>4. CASE place = "before"
  <2> DEFINE top == TriviaTop(t, s.start)
  <2>1. at = top - 1
    BY <1>4 DEF LinesBefore
  <2>2. Attaches(t, top, s.start) /\ top \in 1..s.start /\ (top = 1 \/ t[top - 1].kind \notin Trivia)
    BY <1>4, TriviaOfSymbol
  <2>3. Ends(t, s.end, s.end)
    BY DEF Ends
  <2> HIDE DEF top
  <2>4. at \in 0..Len(t) /\ (at >= 1 => top # 1)
    BY <1>1, <2>1, <2>2
  <2>5. /\ Room(t, top - 1, top - 1, t[s.start].ind)
        /\ Enclosing(t, top - 1, t[s.start].ind) = Enclosing(t, s.start - 1, t[s.start].ind)
    BY <2>2, <2>3, RoomOfSymbol
  <2> QED
    BY <1>1, <1>2, <2>1, <2>2, <2>4, <2>5
<1> QED
  BY <1>3, <1>4

-----------------------------------------------------------------------------

\* A symbol can be taken away.
LEMMA DeleteIsGood ==
    ASSUME NEW t, IsText(t), Editable(t), Numbers(t), NEW s \in Symbols(t),
           Recognised(t, s), NEW u, u = Deleted(t, s), Reparses(u)
    PROVE  Good(t, u)
<1> DEFINE i == s.start
           e == s.end
           n == Len(t)
           top == TriviaTop(t, i)
           blank == e < n /\ IsBlank(t[e + 1])
           next == IF blank THEN e + 2 ELSE e + 1
           q == IF blank THEN e + 1 ELSE e
           v == t[i].ind
           id == t[i].id
           p == top - 1
           m == 0
<1>1. Defines(t, i, e) /\ Known(t, t[i].id, i)
  BY SymbolDefines DEF Recognised, Known
<1> HIDE DEF i, e
<1>2. n \in Nat /\ e \in Nat /\ e \in 1..n /\ v \in Nat
  BY <1>1, DefinesFacts
<1>3. next = q + 1
  BY <1>2
<1>4. Ends(t, e, q)
  BY <1>2 DEF Ends
<1>5. u = SubSeq(t, 1, top - 1) \o SubSeq(t, next, n)
  BY DEF Deleted, i, e
<1> HIDE DEF top, q, next
<1>6. GoesOn(u, SubSeq(t, 1, top - 1), t, q)
  BY <1>3, <1>5 DEF GoesOn
<1>7. Fitted(t, u, top - 1, q, 0, top, t[i].ind, t[i].id) /\ Numbers(u)
  BY <1>1, <1>4, <1>6, DeleteFits DEF top
<1> HIDE DEF p, m, v, id
<1>8. Fitted(t, u, p, q, m, top, v, id)
  BY <1>7 DEF p, m, v, id
<1>9. Editable(u) /\ LinesKept(t, u)
  BY <1>2, <1>7, <1>8, FittedIsGood
<1> QED
  BY <1>7, <1>9 DEF Good

\* It can be replaced by another definition.
LEMMA ReplaceIsGood ==
    ASSUME BodiesAreBlocks, lang \in DOMAIN Originals,
           NEW t, IsText(t), Editable(t), Numbers(t), NEW s \in Symbols(t),
           NEW body \in Bodies[lang], InPlace(t, s, body),
           NEW u, u = Replaced(t, s, body), Reparses(u)
    PROVE  Good(t, u)
<1> DEFINE i == s.start
           e == s.end
           v == t[i].ind
           id == t[i].id
           own == t[i].own
           b == Authored(t, body, id, own)
           m == Len(b)
           p == i - 1
<1>1. Defines(t, i, e) /\ s.id = id
  BY SymbolDefines
<1>2. v \in Nat /\ id \in Nat \ {0}
  BY <1>1, DefinesFacts
<1>3. body # <<>> /\ Shaped(body, v)
  <2>1. body # <<>>
    BY SpliceAssumption DEF BodiesAreBlocks
  <2> QED
    BY <2>1, PlainBlock DEF InPlace
<1>4. u = SubSeq(t, 1, i - 1) \o b \o SubSeq(t, e + 1, Len(t))
  BY <1>1, <1>3 DEF Replaced
<1> HIDE DEF i, e
<1>5. BlockOf(t, b, id, own, v)
  <2> HIDE DEF v, id, own
  <2> QED
    BY <1>2, <1>3, AuthoredBlock
<1> HIDE DEF b
<1>6. GoesOn(u, SubSeq(t, 1, i - 1) \o b, t, e)
  BY <1>4 DEF GoesOn
<1>7. Fitted(t, u, i - 1, e, Len(b), i, t[i].ind, t[i].id) /\ Numbers(u)
  BY <1>1, <1>5, <1>6, ReplaceFits
<1> HIDE DEF p, m, v, id
<1>8. Fitted(t, u, p, e, m, i, v, id)
  BY <1>7 DEF p, m, v, id
<1>9. Editable(u) /\ LinesKept(t, u)
  BY <1>2, <1>7, <1>8, FittedIsGood
<1> QED
  BY <1>7, <1>9 DEF Good

\* It can be replaced by nothing.
LEMMA EmptyIsGood ==
    ASSUME NEW t, IsText(t), Editable(t), Numbers(t), NEW s \in Symbols(t),
           NEW u, u = Replaced(t, s, <<>>), Reparses(u)
    PROVE  Good(t, u)
<1> DEFINE i == s.start
           e == s.end
           ind == t[i].ind
           id == t[i].id
           l == [Blank EXCEPT !.id = s.id, !.own = t[i].own]
           w == <<l>>
           p == i - 1
           m == 1
           h == i + 1
<1>1. Defines(t, i, e) /\ s.id = id
  BY SymbolDefines
<1>2. u = SubSeq(t, 1, i - 1) \o w \o SubSeq(t, e + 1, Len(t))
  BY DEF Replaced
<1>3. IsBlank(l) /\ l.ind \in Nat /\ l.id = t[i].id /\ l.own = t[i].own
  <2>1. l.id = s.id /\ l.own = t[i].own /\ l.kind = "blank" /\ l.ind = 0
    BY DEF Blank
  <2> HIDE DEF l
  <2> QED
    BY <1>1, <2>1 DEF IsBlank
<1> HIDE DEF i, e, l
<1>4. IsText(w) /\ Len(w) = 1 /\ w[1] = l
  BY OneLine
<1> HIDE DEF w
<1>5. GoesOn(u, SubSeq(t, 1, i - 1) \o w, t, e)
  BY <1>2 DEF GoesOn
<1>6. Fitted(t, u, i - 1, e, 1, i + 1, t[i].ind, t[i].id) /\ Numbers(u)
  BY <1>1, <1>3, <1>4, <1>5, EmptyFits
<1>7. ind \in Nat
  BY <1>1, DefinesFacts
<1> HIDE DEF p, m, ind, id, h
<1>8. Fitted(t, u, p, e, m, h, ind, id)
  BY <1>6 DEF p, m, ind, id, h
<1>9. Editable(u) /\ LinesKept(t, u)
  BY <1>6, <1>7, <1>8, FittedIsGood
<1> QED
  BY <1>6, <1>9 DEF Good

\* A definition can be added beside a symbol or as a member of it.
LEMMA InsertAtIsGood ==
    ASSUME BodiesAreBlocks, lang \in DOMAIN Originals,
           NEW t, IsText(t), Editable(t), Numbers(t), NEW s \in Symbols(t),
           NEW place \in Places, place = "into" => s.end > s.start,
           place = "before" => Recognised(t, s),
           NEW at, at = LinesBefore(t, place, s), NEW v, v = IndentAt(t, place, s, at),
           NEW body \in Bodies[lang],
           NEW b, b = Authored(t, ReindentBlock(body, v), FreshId(t), Meant(t, place, s)),
           NEW last, NEW u, u = Inserted(t, at, b, last), Reparses(u)
    PROVE  Good(t, u)
<1> DEFINE i == s.start
           B == Enclosing(t, i - 1, t[i].ind)
           own == Meant(t, place, s)
<1>1. /\ Defines(t, s.start, s.end) /\ s.id = t[i].id
      /\ place = "before" => Known(t, t[s.start].id, s.start)
  BY SymbolDefines DEF Recognised, Known
<1>2. t[i].own = IdsOf(t, B) \cup {t[i].id} /\ t[i].id \notin IdsOf(t, B)
  <2>1. B = Enclosing(t, s.start - 1, t[s.start].ind)
    OBVIOUS
  <2> HIDE DEF B
  <2> QED
    BY <1>1, <2>1, OwnOfHeader
<1> HIDE DEF B
<1>3. CASE place = "into"
  <2>1. /\ at \in 1..Len(t) /\ v \in Nat /\ Room(t, at, at, v) /\ t[at].kind \notin Trivia
        /\ Enclosing(t, at, v) = B \cup {i}
    BY <1>1, <1>3, RoomInside DEF B
  <2>2. own = IdsOf(t, Enclosing(t, at, v))
    <3>1. own = t[i].own
      BY <1>3 DEF Meant
    <3>2. IdsOf(t, B \cup {i}) = IdsOf(t, B) \cup {t[i].id}
      BY DEF IdsOf
    <3> QED
      BY <1>2, <2>1, <3>1, <3>2
  <2>3. at \in 0..Len(t)
    BY <2>1, EmptyIffShort
  <2> HIDE DEF own
  <2>4. b = Authored(t, ReindentBlock(body, v), FreshId(t), own)
    BY DEF own
  <2> QED
    BY <2>1, <2>2, <2>3, <2>4, InsertIsGood
<1>4. CASE place # "into"
  <2>1. place \in {"before", "after"}
    BY <1>4 DEF Places
  <2>2. /\ at \in 0..Len(t) /\ v \in Nat /\ Room(t, at, at, v)
        /\ at >= 1 => t[at].kind \notin Trivia
        /\ Enclosing(t, at, v) = B
    BY <1>1, <2>1, RoomBeside DEF B
  <2>3. own = IdsOf(t, Enclosing(t, at, v))
    <3>1. own = t[i].own \ {t[i].id}
      BY <1>1, <1>4 DEF Meant
    <3> QED
      BY <1>2, <2>2, <3>1
  <2> HIDE DEF own
  <2>4. b = Authored(t, ReindentBlock(body, v), FreshId(t), own)
    BY DEF own
  <2> QED
    BY <2>2, <2>3, <2>4, InsertIsGood
<1> QED
  BY <1>3, <1>4

\* A definition can be added at the end.
LEMMA InsertEndIsGood ==
    ASSUME BodiesAreBlocks, lang \in DOMAIN Originals,
           NEW t, IsText(t), Editable(t), Numbers(t), NEW body \in Bodies[lang],
           NEW b, b = Authored(t, ReindentBlock(body, 0), FreshId(t), {}),
           NEW last, NEW u, u = Inserted(t, Len(t), b, last), Reparses(u)
    PROVE  Good(t, u)
<1> DEFINE at == Len(t)
           v == 0
           own == {}
<1>1. at \in 0..Len(t) /\ v \in Nat
  BY EmptyIffShort
<1>2. /\ Room(t, at, at, v) /\ Enclosing(t, at, v) = {}
      /\ at >= 1 => t[at].kind \notin Trivia
  BY RoomAtEnd
<1>3. own = IdsOf(t, Enclosing(t, at, v))
  BY <1>2 DEF IdsOf
<1>4. /\ b = Authored(t, ReindentBlock(body, v), FreshId(t), own)
      /\ u = Inserted(t, at, b, last)
  OBVIOUS
<1> HIDE DEF at, v, own
<1> QED
  BY <1>1, <1>2, <1>3, <1>4, InsertIsGood

-----------------------------------------------------------------------------
(***************************************************************************)
(* The invariant of the edits.                                             *)
(***************************************************************************)

\* What the edits need of a text and leave for the next one.
WrittenInv == SpliceInv /\ (regular => Numbers(text) /\ Editable(text))

\* No edit changes the language, or makes up for an irregular one.
LEMMA StaysIrregular ==
    ASSUME SpliceNext
    PROVE  lang' = lang /\ (regular' => regular)
<1>1. ASSUME NEW container, NEW name, NEW want, Delete(container, name, want)
      PROVE  lang' = lang /\ (regular' => regular)
  BY <1>1 DEF Delete
<1>2. ASSUME NEW container, NEW name, NEW want, NEW body, Replace(container, name, want, body)
      PROVE  lang' = lang /\ (regular' => regular)
  BY <1>2 DEF Replace
<1>3. ASSUME NEW container, NEW name, NEW want, NEW place, NEW body,
             Insert(container, name, want, place, body)
      PROVE  lang' = lang /\ (regular' => regular)
  BY <1>3 DEF Insert
<1>4. ASSUME NEW body, InsertEnd(body)
      PROVE  lang' = lang /\ (regular' => regular)
  BY <1>4 DEF InsertEnd
<1> QED
  BY <1>1, <1>2, <1>3, <1>4 DEF SpliceNext

\* Every regular edit leaves a text as the next one needs it.
LEMMA SpliceNextIsGood ==
    ASSUME BodiesAreBlocks, WrittenInv, SpliceNext, regular'
    PROVE  Good(text, text')
<1>0. lang \in DOMAIN Originals /\ IsText(text) /\ Editable(text) /\ Numbers(text)
  BY StaysIrregular DEF WrittenInv, SpliceInv
<1>1. ASSUME NEW container, NEW name, NEW want, Delete(container, name, want)
      PROVE  Good(text, text')
  <2>1. PICK s \in ResolveSpan(text, container, name, want) :
            text' = Deleted(text, s) /\ Reparses(Deleted(text, s)) /\ Recognised(text, s)
    BY <1>1 DEF Delete
  <2>2. s \in Symbols(text)
    BY ResolvedIsSymbol
  <2> DEFINE u == Deleted(text, s)
  <2>3. u = Deleted(text, s) /\ Reparses(u)
    BY <2>1
  <2>4. text' = u
    BY <2>1
  <2> HIDE DEF u
  <2>5. Good(text, u)
    BY <1>0, <2>1, <2>2, <2>3, DeleteIsGood
  <2> QED
    BY <2>4, <2>5
<1>2. ASSUME NEW container, NEW name, NEW want, NEW body \in Bodies[lang] \cup {<<>>},
             Replace(container, name, want, body)
      PROVE  Good(text, text')
  <2>1. PICK s \in ResolveSpan(text, container, name, want) :
            text' = Replaced(text, s, body) /\ Reparses(Replaced(text, s, body)) /\ InPlace(text, s, body)
    BY <1>2 DEF Replace
  <2>2. s \in Symbols(text)
    BY ResolvedIsSymbol
  <2>3. CASE body \in Bodies[lang]
    BY <1>0, <2>1, <2>2, <2>3, ReplaceIsGood
  <2>4. CASE body = <<>>
    BY <1>0, <2>1, <2>2, <2>4, EmptyIsGood
  <2> QED
    BY <2>3, <2>4
<1>3. ASSUME NEW container, NEW name, NEW want, NEW body \in Bodies[lang], NEW place \in Places,
             Insert(container, name, want, place, body)
      PROVE  Good(text, text')
  <2>1. PICK s \in ResolveSpan(text, container, name, want) :
            LET at == LinesBefore(text, place, s)
                block == Authored(text, ReindentBlock(body, IndentAt(text, place, s, at)),
                                  FreshId(text), Meant(text, place, s))
            IN  /\ place = "into" => s.end > s.start
                /\ place = "before" => Recognised(text, s)
                /\ Reparses(Inserted(text, at, block, eol))
                /\ text' = Inserted(text, at, block, eol)
    BY <1>3 DEF Insert
  <2>2. s \in Symbols(text)
    BY ResolvedIsSymbol
  <2> DEFINE at == LinesBefore(text, place, s)
             v == IndentAt(text, place, s, at)
             b == Authored(text, ReindentBlock(body, v), FreshId(text), Meant(text, place, s))
             u == Inserted(text, at, b, eol)
  <2>3. /\ place = "into" => s.end > s.start
        /\ place = "before" => Recognised(text, s)
        /\ at = LinesBefore(text, place, s) /\ v = IndentAt(text, place, s, at)
        /\ b = Authored(text, ReindentBlock(body, v), FreshId(text), Meant(text, place, s))
        /\ u = Inserted(text, at, b, eol) /\ Reparses(u)
    BY <2>1
  <2>4. text' = u
    BY <2>1
  <2> HIDE DEF at, v, b, u
  <2>5. Good(text, u)
    BY <1>0, <2>2, <2>3, InsertAtIsGood
  <2> QED
    BY <2>4, <2>5
<1>4. ASSUME NEW body \in Bodies[lang], InsertEnd(body)
      PROVE  Good(text, text')
  <2> DEFINE b == Authored(text, ReindentBlock(body, 0), FreshId(text), {})
             u == Inserted(text, Len(text), b, eol)
  <2>1. /\ b = Authored(text, ReindentBlock(body, 0), FreshId(text), {})
        /\ u = Inserted(text, Len(text), b, eol) /\ Reparses(u)
    BY <1>4 DEF InsertEnd
  <2>2. text' = u
    BY <1>4 DEF InsertEnd
  <2> HIDE DEF b, u
  <2>3. Good(text, u)
    BY <1>0, <2>1, InsertEndIsGood
  <2> QED
    BY <2>2, <2>3
<1> QED
  BY <1>1, <1>2, <1>3, <1>4 DEF SpliceNext

\* A text of the repository has numbers in its lines.
LEMMA SpliceInitNumbers == SpliceInit => Numbers(text)
<1> SUFFICES ASSUME SpliceInit
             PROVE  Numbers(text)
  OBVIOUS
<1>1. text \in Seq(TextLine)
  BY SpliceAssumption DEF SpliceInit
<1>2. \A i \in 1..Len(text) : text[i] \in TextLine
  BY <1>1
<1> QED
  BY <1>2 DEF Numbers, TextLine

\* Whether a text is written well depends on it and the language.
LEMMA WrittenLater ==
    ASSUME lang' = lang
    PROVE  Editable(text)' = Editable(text')
<1>1. Braces' = Braces
  BY DEF Braces
<1> QED
  BY <1>1 DEF Editable, Reparses, ValidateReparse, HasParseError, InItsSymbols, Around, Symbols, SpanEnd,
              Kinds, StandsOver

\* The invariant of the edits is inductive, and a regular step keeps the lines.
LEMMA WrittenStep ==
    ASSUME BodiesAreBlocks, WrittenInv, [SpliceNext]_spliceVars
    PROVE  /\ WrittenInv'
           /\ spliceVars' = spliceVars \/ (regular' => LinesKept(text, text'))
<1>1. CASE SpliceNext
  <2>1. SpliceInv' /\ lang' = lang
    BY <1>1, SpliceNextShowsChange, StaysIrregular DEF WrittenInv
  <2>2. regular' => Editable(text') /\ Numbers(text') /\ LinesKept(text, text')
    BY <1>1, SpliceNextIsGood DEF Good
  <2>3. Editable(text)' = Editable(text')
    BY <2>1, WrittenLater
  <2> QED
    BY <2>1, <2>2, <2>3 DEF WrittenInv
<1>2. CASE UNCHANGED spliceVars
  <2>1. text' = text /\ lang' = lang /\ regular' = regular /\ spliceVars' = spliceVars
    BY <1>2 DEF spliceVars
  <2>2. Editable(text)' = Editable(text')
    BY <2>1, WrittenLater
  <2> QED
    BY <2>1, <2>2 DEF WrittenInv, SpliceInv, IsText, Numbers
<1> QED
  BY <1>1, <1>2

\* The lines of a step, as the property says it.
LEMMA NeighboursOfLines ==
    ASSUME IsText(text), IsText(text'), LinesKept(text, text')
    PROVE  Neighbours
<1>1. DOMAIN text = 1..Len(text) /\ DOMAIN text' = 1..Len(text')
  BY LenProperties DEF IsText
<1> QED
  BY <1>1 DEF LinesKept, Neighbours

\* What stands above a symbol is not left alone.
LEMMA WrittenIsKept ==
    ASSUME WrittenInv
    PROVE  WellWritten /\ NothingOrphaned
<1>1. regular => Editable(text)
  BY DEF WrittenInv
<1>2. ASSUME regular, NEW i \in DOMAIN text, text[i].kind \in Trivia
      PROVE  i < Len(text) /\ text[i].own \subseteq text[i + 1].own
  <2>1. StandsOver(text, i)
    BY <1>1, <1>2 DEF Editable
  <2> QED
    BY <2>1 DEF StandsOver
<1> QED
  BY <1>1, <1>2 DEF WellWritten, NothingOrphaned, KeptTogether

\* The invariant holds from a text that is written well on.
LEMMA WrittenForever ==
    ASSUME BodiesAreBlocks
    PROVE  SpliceSpec /\ WellWritten => []WrittenInv
<1>1. SpliceInit /\ WellWritten => WrittenInv
  BY SpliceInitInvariant, SpliceInitNumbers DEF WrittenInv, WellWritten
<1>2. WrittenInv /\ [SpliceNext]_spliceVars => WrittenInv'
  BY WrittenStep
<1> QED
  BY <1>1, <1>2, PTL DEF SpliceSpec

\* Starting from a text that is written well, and with bodies that are one
\* definition each: whatever is edited how often, the text is one that the next
\* edit can rely on, with every line of code inside exactly the symbols it was
\* written into, until an edit is not regular (a body at another indentation, or
\* a symbol with trivia that leading_trivia_start takes for something else).
THEOREM TextsStayWritten ==
    ASSUME BodiesAreBlocks
    PROVE  SpliceSpec /\ WellWritten => []WellWritten
<1>1. WrittenInv => WellWritten
  BY WrittenIsKept
<1> QED
  BY <1>1, WrittenForever, PTL

\* From such a text no attribute, doc comment or decorator loses its symbol by
\* regular edits, the rest of an attribute of several lines included.
THEOREM NothingIsOrphaned ==
    ASSUME BodiesAreBlocks
    PROVE  SpliceSpec /\ WellWritten => []NothingOrphaned
<1>1. WrittenInv => NothingOrphaned
  BY WrittenIsKept
<1> QED
  BY <1>1, WrittenForever, PTL

\* From such a text a regular edit after regular ones takes away lines of one
\* symbol only, and the others keep their order, whatever comments and lines
\* that end like one are around.
THEOREM NeighboursAreKept ==
    ASSUME BodiesAreBlocks
    PROVE  SpliceSpec /\ WellWritten => KeepsNeighbours
<1>1. WrittenInv /\ [SpliceNext]_spliceVars => [regular' => Neighbours]_spliceVars
  <2> SUFFICES ASSUME WrittenInv, [SpliceNext]_spliceVars, spliceVars' # spliceVars, regular'
               PROVE  Neighbours
    OBVIOUS
  <2>1. WrittenInv' /\ LinesKept(text, text')
    BY WrittenStep
  <2>2. IsText(text) /\ IsText(text')
    BY <2>1 DEF WrittenInv, SpliceInv, IsText
  <2> QED
    BY <2>1, <2>2, NeighboursOfLines
<1> QED
  BY <1>1, WrittenForever, PTL DEF SpliceSpec, KeepsNeighbours

=============================================================================
