--------------------------- MODULE Apply_proofs ---------------------------
(***************************************************************************)
(* Proofs about Apply, for every set of files and texts and every bound:   *)
(* type correctness, then five safety properties, each from an invariant   *)
(* of its own that says of the phases of a call what the property says of  *)
(* its end.                                                                *)
(***************************************************************************)
EXTENDS Apply, SequenceTheorems, TLAPS

\* The undo counters: what is left and what was reverted never exceed the
\* request, and a batch is being restored only while one is left.
UndoCount ==
    /\ pc \in {"undo", "restore"} => left + reverted <= MaxUndoRequest
    /\ pc = "restore" => left > 0

TInv == TypeOK /\ UndoCount

-----------------------------------------------------------------------------
(* Helpers of the model. *)

LEMMA NothingType ==
    Nothing \in Maps /\ Nothing \in [Files -> Texts \cup {Untouched}]
  BY DEF Nothing, Maps

LEMMA BoundTypes == /\ MaxEdits \in Nat /\ MaxUndoRequest \in Nat
                    /\ MaxUndoBatches \in Nat /\ MaxUndoBatches > 0
  BY ApplyAssumption

LEMMA SnapshotType ==
    ASSUME NEW m \in Maps, NEW f \in Files, NEW v \in Versions
    PROVE  Snapshot(m, f, v) \in Maps
  BY DEF Snapshot, Maps

\* The core a pull on demand leaves.
LEMMA PulledType ==
    ASSUME TypeOK, NEW f \in Files
    PROVE  Pulled(f) \in [Files -> Versions]
  BY DEF Pulled, TypeOK, Versions

\* A bounded push keeps the type and the bound of a sequence.
LEMMA RecordedType ==
    ASSUME NEW S, NEW h \in Seq(S), NEW batch \in S,
           Len(h) <= MaxUndoBatches
    PROVE  /\ Recorded(h, batch) \in Seq(S)
           /\ Len(Recorded(h, batch)) =
                IF Len(h) = MaxUndoBatches THEN Len(h) ELSE Len(h) + 1
           /\ Recorded(h, batch)[Len(Recorded(h, batch))] = batch
<1> DEFINE pushed == Append(h, batch)
<1>1. pushed \in Seq(S) /\ Len(pushed) = Len(h) + 1 /\ Len(h) \in Nat
      /\ pushed[Len(pushed)] = batch
  OBVIOUS
<1>2. MaxUndoBatches \in Nat /\ MaxUndoBatches > 0
  BY ApplyAssumption
<1>3. CASE Len(h) < MaxUndoBatches
  <2>1. Recorded(h, batch) = pushed
    BY <1>1, <1>2, <1>3 DEF Recorded
  <2> QED
    BY <1>1, <1>3, <2>1
<1>4. CASE Len(h) = MaxUndoBatches
  <2>1. Recorded(h, batch) = SubSeq(pushed, 2, Len(pushed))
    BY <1>1, <1>2, <1>4 DEF Recorded
  <2>2. /\ SubSeq(pushed, 2, Len(pushed)) \in Seq(S)
        /\ Len(SubSeq(pushed, 2, Len(pushed))) = Len(h)
        /\ SubSeq(pushed, 2, Len(pushed))[Len(h)] = pushed[Len(pushed)]
    BY <1>1, <1>2, <1>4
  <2> QED
    BY <1>1, <1>4, <2>1, <2>2
<1> QED
  BY <1>1, <1>2, <1>3, <1>4

\* Dropping the newest record.
LEMMA PoppedType ==
    ASSUME NEW S, NEW h \in Seq(S), h # <<>>
    PROVE  /\ SubSeq(h, 1, Len(h) - 1) \in Seq(S)
           /\ Len(SubSeq(h, 1, Len(h) - 1)) = Len(h) - 1
           /\ h[Len(h)] \in S
<1>1. Len(h) \in Nat /\ Len(h) > 0
  BY EmptySeq
<1>2. \A i \in 1..(Len(h) - 1) : h[i] \in S
  BY <1>1
<1>3. h[Len(h)] \in S
  BY <1>1
<1>4. PICK n \in Nat : n = Len(h) - 1
  BY <1>1
<1>5. SubSeq(h, 1, n) \in Seq(S) /\ Len(SubSeq(h, 1, n)) = n
  BY <1>2, <1>4, SubSeqProperties
<1> QED
  BY <1>3, <1>4, <1>5

-----------------------------------------------------------------------------
(* Every step keeps the types. *)

LEMMA StageTypes ==
    ASSUME TypeOK, NEW core \in [Files -> Versions], NEW fs \in SUBSET Files,
           NEW new \in [fs -> Texts], Stage(core, fs, new)
    PROVE  /\ originals' \in Maps /\ db' \in [Files -> Versions]
           /\ writes' \in [Files -> Texts \cup {Untouched}]
           /\ deletes' \in Seq(Files)
<1>1. ASSUME NEW f \in Files
      PROVE  Snapshot(originals, f, core[f])[f] \in Versions \cup {Untouched}
  BY DEF TypeOK, Maps, Snapshot
<1>2. originals' \in Maps
  BY <1>1 DEF Stage, TypeOK, Maps
<1>3. db' \in [Files -> Versions]
  BY DEF Stage, Versions
<1>4. writes' \in [Files -> Texts \cup {Untouched}]
  BY DEF Stage, TypeOK
<1> QED
  BY <1>2, <1>3, <1>4 DEF Stage, TypeOK

LEMMA EditTypes ==
    ASSUME TInv, Edit
    PROVE  TInv'
<1> DEFINE BatchTyped ==
              /\ originals' \in Maps /\ db' \in [Files -> Versions]
              /\ writes' \in [Files -> Texts \cup {Untouched}]
              /\ deletes' \in Seq(Files) /\ drift' \subseteq Files
<1>1. Editing
  BY DEF Edit, Splice, Create, Delete, Move, RewriteAll, Preview
<1>2. BatchTyped
  <2>1. ASSUME NEW f \in Files, NEW t \in Texts, Splice(f, t) PROVE BatchTyped
    BY <2>1, StageTypes, PulledType DEF Splice, PullDrift, TInv, TypeOK
  <2>2. ASSUME NEW f \in Files, NEW t \in Texts, Create(f, t) PROVE BatchTyped
    BY <2>2, StageTypes DEF Create, TInv, TypeOK
  <2>3. ASSUME NEW f \in Files, NEW g \in Files, NEW s \in Texts,
               NEW t \in Texts, Move(f, g, s, t)
        PROVE BatchTyped
    BY <2>3, StageTypes DEF Move, TInv, TypeOK
  <2>4. ASSUME NEW f \in Files, Delete(f) PROVE BatchTyped
    <3> DEFINE v == IF db[f] # Absent THEN db[f]
                    ELSE IF disk[f] \in Texts THEN disk[f] ELSE Absent
    <3>1. v \in Versions /\ originals \in Maps
      BY DEF TInv, TypeOK, Versions
    <3>2. originals' = Snapshot(originals, f, v)
      BY <2>4 DEF Delete
    <3>3. originals' \in Maps
      BY <3>1, <3>2, SnapshotType
    <3>4. db' \in [Files -> Versions] /\ writes' = writes /\ drift' = drift
      BY <2>4 DEF Delete, TInv, TypeOK, Versions
    <3>5. deletes' \in Seq(Files)
      BY <2>4, AppendProperties DEF Delete, TInv, TypeOK
    <3> QED
      BY <3>3, <3>4, <3>5 DEF TInv, TypeOK
  <2>5. ASSUME NEW f \in Files, Preview(f) PROVE BatchTyped
    BY <2>5, PulledType DEF Preview, PullDrift, TInv, TypeOK
  <2>6. ASSUME NEW fs \in SUBSET Files, NEW t \in Texts, RewriteAll(fs, t)
        PROVE BatchTyped
    BY <2>6, StageTypes DEF RewriteAll, TInv, TypeOK
  <2> HIDE DEF BatchTyped
  <2> QED
    BY <2>1, <2>2, <2>3, <2>4, <2>5, <2>6 DEF Edit
<1>3. edits' \in 0..MaxEdits
  <2>1. edits \in 0..MaxEdits /\ MaxEdits \in Nat
    BY ApplyAssumption DEF TInv, TypeOK
  <2>2. edits < MaxEdits /\ edits' = edits + 1
    BY <1>1 DEF Editing
  <2> QED
    BY <2>1, <2>2
<1> QED
  BY <1>1, <1>2, <1>3
     DEF Editing, TInv, TypeOK, UndoCount, diskVars, undoVars, bounds
\* The steps after the loop over the edits.
LEMMA BatchTypes ==
    ASSUME TInv, \/ \E dry \in BOOLEAN : Begin(dry)
                 \/ EditFails \/ SymlinkEscape \/ EditsDone \/ Preflight
                 \/ \E f \in Files : WriteOne(f) \/ WriteFails(f)
                 \/ DeleteOne \/ DeleteFails \/ CommitDone
    PROVE  TInv'
<1> USE DEF TInv, UndoCount, TypeOK, diskVars, batchVars, undoVars, bounds,
            ghosts, Return
<1>1. ASSUME NEW dry \in BOOLEAN, Begin(dry) PROVE TInv'
  <2>1. [db |-> db, disk |-> disk] \in Snapshots
    BY DEF Snapshots
  <2>2. <<>> \in Seq(Files)
    BY EmptySeq
  <2>3. edits' \in 0..MaxEdits
    <3> HIDE DEF TInv, TypeOK
    <3> QED
      BY <1>1, BoundTypes DEF Begin
  <2> QED
    BY <1>1, <2>1, <2>2, <2>3, NothingType DEF Begin
<1>2. ASSUME NEW core \in [Files -> Versions], Abort(core),
             drift' \subseteq Files
      PROVE  TInv'
  <2>1. db' \in [Files -> Versions]
    BY <1>2 DEF Abort, Maps, Versions
  <2> QED
    BY <1>2, <2>1 DEF Abort
<1>3. CASE EditFails
  BY <1>2, <1>3, PulledType DEF EditFails, PullDrift
<1>4. CASE SymlinkEscape
  BY <1>2, <1>4 DEF SymlinkEscape
<1>5. CASE EditsDone
  BY <1>5 DEF EditsDone
<1>6. ASSUME NEW d \in [Files -> OnDisk], Reconcile(d)
      PROVE  db' \in [Files -> Versions] /\ drift' \subseteq Files
  BY <1>6 DEF Reconcile, Versions
<1>7. CASE Preflight
  BY <1>6, <1>7 DEF Preflight
<1>8. ASSUME NEW f \in Files, WriteOne(f) PROVE TInv'
  <2>1. Encoded(f, writes[f]) \in Texts
    BY <1>8, ApplyAssumption DEF WriteOne, Encoded
  <2>2. /\ disk' \in [Files -> OnDisk] /\ drift' \subseteq Files
        /\ writes' \in [Files -> Texts \cup {Untouched}]
    BY <1>8, <2>1 DEF WriteOne, OnDisk, Versions
  <2> QED
    BY <1>8, <2>2 DEF WriteOne
<1>9. ASSUME NEW d \in [Files -> OnDisk], CommitFails(d) PROVE TInv'
  BY <1>6, <1>9 DEF CommitFails
<1>10. ASSUME NEW f \in Files, WriteFails(f) PROVE TInv'
  <2>1. [disk EXCEPT ![f] = Truncated] \in [Files -> OnDisk]
    BY ApplyAssumption DEF OnDisk, Versions
  <2> QED
    BY <1>9, <1>10, <2>1 DEF WriteFails
<1>11. CASE DeleteOne
  <2>1. Head(deletes) \in Files /\ Tail(deletes) \in Seq(Files)
    <3>1. deletes \in Seq(Files) /\ deletes # <<>>
      BY <1>11 DEF DeleteOne, Deleting
    <3> QED
      BY <3>1, HeadTailProperties
  <2>2. disk' \in [Files -> OnDisk]
    BY <1>11, <2>1 DEF DeleteOne, OnDisk, Versions
  <2> QED
    BY <1>11, <2>1, <2>2 DEF DeleteOne
<1>12. CASE DeleteFails
  BY <1>9, <1>12 DEF DeleteFails
<1>13. CASE CommitDone
  <2>1. /\ history' \in Seq(Maps) /\ Len(history') <= MaxUndoBatches
        /\ past' \in Seq(Snapshots) /\ Len(past') = Len(history')
    <3>1. CASE Keys(originals) = {}
      BY <1>13, <3>1 DEF CommitDone
    <3>2. CASE Keys(originals) # {}
      <4>1. /\ history \in Seq(Maps) /\ past \in Seq(Snapshots)
            /\ Len(history) <= MaxUndoBatches /\ Len(past) = Len(history)
            /\ originals \in Maps /\ pre \in Snapshots
        OBVIOUS
      <4>2. history' = Recorded(history, originals)
            /\ past' = Recorded(past, pre)
        BY <1>13, <3>2 DEF CommitDone
      <4>3. /\ history' \in Seq(Maps)
            /\ Len(history') = IF Len(history) = MaxUndoBatches
                               THEN Len(history) ELSE Len(history) + 1
        BY <4>1, <4>2, RecordedType
      <4>4. /\ past' \in Seq(Snapshots)
            /\ Len(past') = IF Len(past) = MaxUndoBatches
                            THEN Len(past) ELSE Len(past) + 1
        BY <4>1, <4>2, RecordedType
      <4> HIDE DEF TInv, TypeOK
      <4> QED
        BY <4>1, <4>3, <4>4, BoundTypes, LenProperties
    <3> QED
      BY <3>1, <3>2
  <2> QED
    BY <1>13, <2>1 DEF CommitDone
<1> QED
  BY <1>1, <1>3, <1>4, <1>5, <1>7, <1>8, <1>10, <1>11, <1>12, <1>13

\* The steps of an undo.
LEMMA UndoTypes ==
    ASSUME TInv, Undo
    PROVE  TInv'
<1> USE DEF TInv, UndoCount, TypeOK, diskVars, batchVars, undoVars, bounds,
            ghosts, Return
<1>1. ASSUME NEW n \in 1..MaxUndoRequest, BeginUndo(n) PROVE TInv'
  <2>1. [db |-> db, disk |-> disk] \in Snapshots
    BY DEF Snapshots
  <2>2. /\ left' \in 0..MaxUndoRequest /\ reverted' \in 0..MaxUndoRequest
        /\ left' + reverted' <= MaxUndoRequest
    <3> HIDE DEF TInv, TypeOK
    <3> QED
      BY <1>1, BoundTypes DEF BeginUndo
  <2> QED
    BY <1>1, <2>1, <2>2, NothingType DEF BeginUndo
<1>2. CASE UndoPop
  <2>1. past # <<>> /\ history # <<>>
    BY <1>2, EmptySeq DEF UndoPop
  <2>2. /\ history' \in Seq(Maps) /\ Len(history') = Len(history) - 1
        /\ restore' \in Maps
    BY <1>2, <2>1, PoppedType DEF UndoPop, Newest
  <2>3. /\ past' \in Seq(Snapshots) /\ Len(past') = Len(past) - 1
        /\ goal' \in Snapshots
    BY <1>2, <2>1, PoppedType DEF UndoPop
  <2>4. Len(history') <= MaxUndoBatches /\ Len(past') = Len(history')
    <3>1. /\ history \in Seq(Maps) /\ Len(history) <= MaxUndoBatches
          /\ Len(past) = Len(history)
      OBVIOUS
    <3> HIDE DEF TInv, TypeOK
    <3> QED
      BY <2>2, <2>3, <3>1, BoundTypes, LenProperties
  <2> QED
    BY <1>2, <2>2, <2>3, <2>4 DEF UndoPop
<1>3. CASE UndoRefused
  BY <1>3 DEF UndoRefused
<1>4. CASE BatchReverted
  <2>1. /\ left \in 0..MaxUndoRequest /\ reverted \in 0..MaxUndoRequest
        /\ left > 0 /\ left + reverted <= MaxUndoRequest
        /\ MaxUndoRequest \in Nat /\ left' = left - 1
        /\ reverted' = reverted + 1
    BY <1>4, BoundTypes DEF BatchReverted
  <2>2. /\ left' \in 0..MaxUndoRequest /\ reverted' \in 0..MaxUndoRequest
        /\ left' + reverted' <= MaxUndoRequest
    <3> HIDE DEF TInv, TypeOK
    <3> QED
      BY <2>1
  <2> QED
    BY <1>4, <2>2 DEF BatchReverted
<1>5. CASE UndoDone
  BY <1>5 DEF UndoDone
<1>6. ASSUME NEW f \in Files, RestoreOne(f) PROVE TInv'
  <2>1. restore[f] \in Versions
    BY <1>6 DEF RestoreOne, Maps
  <2>2. /\ disk' \in [Files -> OnDisk] /\ db' \in [Files -> Versions]
        /\ restore' \in Maps /\ drift' \subseteq Files
    BY <1>6, <2>1 DEF RestoreOne, Maps, OnDisk
  <2> QED
    BY <1>6, <2>2 DEF RestoreOne
<1>7. ASSUME NEW f \in Files, RemoveFails(f) PROVE TInv'
  <2>1. /\ db' \in [Files -> Versions] /\ restore' \in Maps
        /\ drift' \subseteq Files /\ meddled' \subseteq Files
    BY <1>7 DEF RemoveFails, Maps, Versions
  <2> QED
    BY <1>7, <2>1 DEF RemoveFails
<1>8. ASSUME NEW f \in Files, RestoreFails(f) PROVE TInv'
  <2>1. [disk EXCEPT ![f] = Truncated] \in [Files -> OnDisk]
    BY ApplyAssumption DEF OnDisk, Versions
  <2>2. disk' \in [Files -> OnDisk] /\ drift' \subseteq Files
        /\ meddled' \subseteq Files
    BY <1>8, <2>1 DEF RestoreFails, Keys
  <2> QED
    BY <1>8, <2>2 DEF RestoreFails
<1> QED
  BY <1>1, <1>2, <1>3, <1>4, <1>5, <1>6, <1>7, <1>8 DEF Undo

LEMMA EnvironmentTypes ==
    ASSUME TInv, Environment
    PROVE  TInv'
<1> USE DEF TInv, UndoCount, TypeOK, diskVars, batchVars, undoVars, bounds,
            ghosts, Return
<1>1. ASSUME NEW f \in Files, NEW v \in OnDisk, ExternalWrite(f, v)
      PROVE  TInv'
  BY <1>1 DEF ExternalWrite
<1>2. ASSUME NEW f \in Files, Chmod(f) PROVE TInv'
  BY <1>2 DEF Chmod
<1>3. CASE Restart
  <2>1. db' \in [Files -> Versions]
    BY <1>3 DEF Restart, IndexOf, Versions
  <2>2. history' \in Seq(Maps) /\ past' \in Seq(Snapshots)
        /\ deletes' \in Seq(Files)
    BY <1>3, EmptySeq DEF Restart
  <2>3. Len(history') = 0 /\ Len(past') = 0 /\ 0 <= MaxUndoBatches
    <3> HIDE DEF TInv, TypeOK
    <3> QED
      BY <1>3, BoundTypes, EmptySeq DEF Restart
  <2> QED
    BY <1>3, <2>1, <2>2, <2>3, NothingType DEF Restart
<1> QED
  BY <1>1, <1>2, <1>3 DEF Environment

LEMMA InitTypes == Init => TInv
<1> SUFFICES ASSUME NEW d \in [Files -> OnDisk], InitState(d)
             PROVE  TInv
  BY DEF Init
<1>1. IndexOf(d) \in [Files -> Versions]
  BY DEF IndexOf, Versions
<1>2. [db |-> IndexOf(d), disk |-> d] \in Snapshots
  BY <1>1 DEF Snapshots
<1>3. history = <<>> /\ past = <<>> /\ deletes = <<>>
  BY DEF InitState
<1>4. /\ history \in Seq(Maps) /\ past \in Seq(Snapshots)
      /\ deletes \in Seq(Files)
      /\ Len(history) <= MaxUndoBatches /\ Len(past) = Len(history)
  BY <1>3, EmptySeq, ApplyAssumption
<1>5. edits \in 0..MaxEdits /\ left \in 0..MaxUndoRequest
      /\ reverted \in 0..MaxUndoRequest
  BY ApplyAssumption DEF InitState
<1>6. db \in [Files -> Versions] /\ pre \in Snapshots /\ goal \in Snapshots
  BY <1>1, <1>2 DEF InitState
<1> QED
  BY <1>4, <1>5, <1>6, NothingType DEF InitState, TInv, TypeOK, UndoCount

LEMMA StepTypes == TInv /\ [Next]_vars => TInv'
<1> SUFFICES ASSUME TInv, [Next]_vars PROVE TInv'
  OBVIOUS
<1>1. CASE UNCHANGED vars
  BY <1>1 DEF vars, TInv, TypeOK, UndoCount, diskVars, batchVars, undoVars,
              bounds, ghosts
<1> QED
  BY <1>1, EditTypes, BatchTypes, UndoTypes, EnvironmentTypes
     DEF Next, Batch

\* Every variable of the write path keeps its type: the undo history never
\* exceeds its bound, and the counters of an undo never exceed the request.
THEOREM TypeCorrect == Spec => []TypeOK
<1>1. TInv => TypeOK
  BY DEF TInv
<1> QED
  BY <1>1, InitTypes, StepTypes, PTL DEF Spec

-----------------------------------------------------------------------------
(* Nothing reaches the disk before the commit. *)

\* What RefusedTouchesNothing says of the end of a call holds from its start.
DiskKept ==
    pc \in {"edit", "preflight"} \/ Ended("rejected") \/ Ended("refused") =>
        \A f \in Files \ meddled : disk[f] = pre.disk[f]

LEMMA InitDiskKept == Init => DiskKept
  BY DEF Init, InitState, DiskKept, Ended

LEMMA StepDiskKept == DiskKept /\ [Next]_vars => DiskKept'
<1> SUFFICES ASSUME DiskKept, [Next]_vars PROVE DiskKept'
  OBVIOUS
<1> USE DEF DiskKept, Ended, Return, diskVars, batchVars, undoVars, bounds,
            ghosts
<1>1. ASSUME NEW dry \in BOOLEAN, Begin(dry) PROVE DiskKept'
  BY <1>1 DEF Begin
<1>2. CASE Edit
  <2>1. Editing
    BY <1>2 DEF Edit, Splice, Create, Delete, Move, RewriteAll, Preview
  <2> QED
    BY <2>1 DEF Editing
<1>3. ASSUME pc = "edit", NEW core, Abort(core) PROVE DiskKept'
  BY <1>3 DEF Abort
<1>4. CASE EditFails
  BY <1>3, <1>4 DEF EditFails
<1>5. CASE SymlinkEscape
  BY <1>3, <1>5 DEF SymlinkEscape
<1>6. CASE EditsDone
  BY <1>6 DEF EditsDone
<1>7. CASE Preflight
  BY <1>7 DEF Preflight, Reconcile
<1>8. ASSUME NEW f \in Files, WriteOne(f) PROVE DiskKept'
  BY <1>8 DEF WriteOne
<1>9. ASSUME NEW d, CommitFails(d) PROVE DiskKept'
  BY <1>9 DEF CommitFails
<1>10. ASSUME NEW f \in Files, WriteFails(f) PROVE DiskKept'
  BY <1>9, <1>10 DEF WriteFails
<1>11. CASE DeleteOne
  BY <1>11 DEF DeleteOne, Deleting
<1>12. CASE DeleteFails
  BY <1>9, <1>12 DEF DeleteFails
<1>13. CASE CommitDone
  BY <1>13 DEF CommitDone
<1>14. CASE Undo
  <2>1. \/ pc' \in {"undo", "restore"}
        \/ outcome' \in {"undo refused", "undo failed", "nothing to undo",
                         "undone"} /\ pc' = "idle"
    BY <1>14 DEF Undo, BeginUndo, UndoPop, UndoRefused, BatchReverted,
                 UndoDone, RestoreOne, RemoveFails, RestoreFails
  <2> QED
    BY <2>1
<1>15. ASSUME NEW f \in Files, NEW v \in OnDisk, ExternalWrite(f, v)
       PROVE  DiskKept'
  BY <1>15 DEF ExternalWrite
<1>16. ASSUME NEW f \in Files, Chmod(f) PROVE DiskKept'
  BY <1>16 DEF Chmod
<1>17. CASE Restart
  BY <1>17 DEF Restart
<1>18. CASE UNCHANGED vars
  BY <1>18 DEF vars
<1> QED
  BY <1>1, <1>2, <1>4, <1>5, <1>6, <1>7, <1>8, <1>10, <1>11, <1>12, <1>13,
     <1>14, <1>15, <1>16, <1>17, <1>18
     DEF Next, Batch, Environment

\* "no files changed": a batch that is rejected by an edit or refused by the
\* pre-flight has written nothing, whatever other programs do meanwhile.
THEOREM RefusalTouchesNothing == Spec => []RefusedTouchesNothing
<1>1. DiskKept => RefusedTouchesNothing
  BY DEF DiskKept, RefusedTouchesNothing
<1> QED
  BY <1>1, InitDiskKept, StepDiskKept, PTL DEF Spec

-----------------------------------------------------------------------------
(* The rollback. *)

\* The version a rollback would give a file, were it to happen now, ...
RolledBack(f) == IF originals[f] = Untouched THEN db[f] ELSE originals[f]

\* ... is that from before the batch, or one pulled in from disk since.
Kept(f, v) ==
    \/ v = pre.db[f]
    \/ pre.db[f] = Absent /\ v \in Texts /\ (f \in meddled \/ v = disk[f])

RollbackInv ==
    /\ pc = "edit" => \A f \in Files : Kept(f, RolledBack(f))
    /\ RollbackRestores

\* A pull on demand keeps it so.
LEMMA PulledKept ==
    ASSUME NEW f \in Files, TypeOK, Kept(f, db[f])
    PROVE  Kept(f, Pulled(f)[f])
  BY ApplyAssumption DEF Kept, Pulled, TypeOK, Versions

\* So does staging: the snapshot takes what the core had.
LEMMA StageKept ==
    ASSUME TypeOK, NEW core \in [Files -> Versions], NEW fs \in SUBSET Files,
           NEW new \in [fs -> Texts], Stage(core, fs, new),
           UNCHANGED <<pre, disk, meddled>>,
           \A g \in Files : Kept(g, IF originals[g] = Untouched
                                    THEN core[g] ELSE originals[g])
    PROVE  \A g \in Files : Kept(g, RolledBack(g))'
<1> SUFFICES ASSUME NEW g \in Files PROVE Kept(g, RolledBack(g))'
  OBVIOUS
<1>1. core[g] # Untouched
  BY ApplyAssumption DEF Versions
<1>2. RolledBack(g)' = IF originals[g] = Untouched
                       THEN core[g] ELSE originals[g]
  BY <1>1 DEF RolledBack, Stage, Snapshot, TypeOK, Maps
<1> QED
  BY <1>2 DEF Kept

LEMMA EditKept ==
    ASSUME TypeOK, RollbackInv, Edit
    PROVE  RollbackInv'
<1>1. /\ pc = "edit" /\ pc' = "edit"
      /\ UNCHANGED <<disk, pre, meddled>>
  <2>1. Editing
    BY DEF Edit, Splice, Create, Delete, Move, RewriteAll, Preview
  <2> QED
    BY <2>1 DEF Editing, diskVars
<1>2. \A g \in Files : Kept(g, RolledBack(g))
  BY <1>1 DEF RollbackInv
<1> DEFINE StillKept == \A g \in Files : Kept(g, RolledBack(g))'
<1>3. ASSUME NEW f \in Files
      PROVE  /\ Pulled(f) \in [Files -> Versions]
             /\ \A g \in Files : Kept(g, IF originals[g] = Untouched
                                         THEN Pulled(f)[g] ELSE originals[g])
  <2>1. \A g \in Files : g # f => Pulled(f)[g] = db[g]
    BY DEF Pulled, TypeOK
  <2> QED
    BY <1>2, <2>1, PulledType, PulledKept DEF RolledBack
<1>4. StillKept
  <2>1. ASSUME NEW f \in Files, NEW t \in Texts, Splice(f, t) PROVE StillKept
    BY <1>1, <1>3, <2>1, StageKept DEF Splice
  <2>2. ASSUME NEW f \in Files, NEW t \in Texts, Create(f, t) PROVE StillKept
    BY <1>1, <1>2, <2>2, StageKept DEF Create, RolledBack, TypeOK
  <2>3. ASSUME NEW f \in Files, NEW g \in Files, NEW s \in Texts,
               NEW t \in Texts, Move(f, g, s, t)
        PROVE  StillKept
    BY <1>1, <1>2, <2>3, StageKept DEF Move, RolledBack, TypeOK
  <2>4. ASSUME NEW f \in Files, Delete(f) PROVE StillKept
    <3> SUFFICES ASSUME NEW g \in Files PROVE Kept(g, RolledBack(g))'
      OBVIOUS
    <3>1. CASE originals[f] # Untouched \/ g # f
      <4>1. originals'[g] = originals[g] /\ (g # f => db'[g] = db[g])
        BY <2>4, <3>1 DEF Delete, Snapshot, TypeOK, Maps
      <4> QED
        BY <1>1, <1>2, <3>1, <4>1 DEF RolledBack, Kept
    <3>2. CASE originals[f] = Untouched /\ g = f
      <4>1. RolledBack(f)' = Pulled(f)[f]
        BY <2>4, <3>2, ApplyAssumption
           DEF Delete, Snapshot, RolledBack, Pulled, TypeOK, Maps, Versions
      <4> QED
        BY <1>1, <1>3, <3>2, <4>1 DEF Kept
    <3> QED
      BY <3>1, <3>2
  <2>5. ASSUME NEW f \in Files, Preview(f) PROVE StillKept
    BY <1>1, <1>2, <1>3, <2>5 DEF Preview, RolledBack, Kept
  <2>6. ASSUME NEW fs \in SUBSET Files, NEW t \in Texts, RewriteAll(fs, t)
        PROVE  StillKept
    BY <1>1, <1>2, <2>6, StageKept DEF RewriteAll, RolledBack, TypeOK
  <2> HIDE DEF StillKept
  <2> QED
    BY <2>1, <2>2, <2>3, <2>4, <2>5, <2>6 DEF Edit
<1> QED
  BY <1>1, <1>4 DEF RollbackInv, RollbackRestores, Ended

LEMMA AbortKept ==
    ASSUME TypeOK, NEW core, Abort(core),
           \A g \in Files : Kept(g, IF originals[g] = Untouched
                                    THEN core[g] ELSE originals[g])
    PROVE  RollbackInv'
<1>1. \A g \in Files : Kept(g, db[g])'
  BY DEF Abort, Kept, diskVars
<1> QED
  BY <1>1 DEF Abort, Return, RollbackInv, RollbackRestores, Ended, Kept

LEMMA StepRollback == TypeOK /\ RollbackInv /\ [Next]_vars => RollbackInv'
<1> SUFFICES ASSUME TypeOK, RollbackInv, [Next]_vars PROVE RollbackInv'
  OBVIOUS
<1>1. ASSUME NEW dry \in BOOLEAN, Begin(dry) PROVE RollbackInv'
  BY <1>1 DEF Begin, RollbackInv, RollbackRestores, Ended, Kept, RolledBack,
              Nothing
<1>2. CASE Edit
  BY <1>2, EditKept
<1>3. CASE EditFails
  <2>1. \A g \in Files : Kept(g, RolledBack(g))
    BY <1>3 DEF EditFails, RollbackInv
  <2>2. CASE Abort(db)
    BY <2>1, <2>2, AbortKept DEF RolledBack
  <2>3. ASSUME NEW f \in Files, Abort(Pulled(f)) PROVE RollbackInv'
    <3>1. \A g \in Files : g # f => Pulled(f)[g] = db[g]
      BY DEF Pulled, TypeOK
    <3>2. \A g \in Files : Kept(g, IF originals[g] = Untouched
                                   THEN Pulled(f)[g] ELSE originals[g])
      BY <2>1, <3>1, PulledKept DEF RolledBack
    <3> QED
      BY <2>3, <3>2, AbortKept
  <2> QED
    BY <1>3, <2>2, <2>3 DEF EditFails
<1>4. CASE SymlinkEscape
  <2>1. \A g \in Files : Kept(g, RolledBack(g))
    BY <1>4 DEF SymlinkEscape, RollbackInv
  <2> QED
    BY <1>4, <2>1, AbortKept DEF SymlinkEscape, RolledBack
<1>5. ASSUME pc' # "edit", ~Ended("rejected")' PROVE RollbackInv'
  BY <1>5 DEF RollbackInv, RollbackRestores
<1>6. CASE \/ EditsDone \/ Preflight \/ DeleteOne \/ DeleteFails
           \/ CommitDone \/ Restart
           \/ \E f \in Files : WriteOne(f) \/ WriteFails(f)
  <2>1. pc' # "edit" /\ ~Ended("rejected")'
    BY <1>6 DEF EditsDone, Preflight, DeleteOne, DeleteFails, CommitDone,
                Restart, WriteOne, WriteFails, CommitFails, Deleting, Return,
                Ended
  <2> QED
    BY <1>5, <2>1
<1>7. CASE Undo
  <2>1. pc' # "edit" /\ ~Ended("rejected")'
    BY <1>7 DEF Undo, BeginUndo, UndoPop, UndoRefused, BatchReverted,
                UndoDone, RestoreOne, RemoveFails, RestoreFails, Return, Ended
  <2> QED
    BY <1>5, <2>1
<1>8. ASSUME NEW f \in Files, NEW v \in OnDisk, ExternalWrite(f, v)
      PROVE  RollbackInv'
  BY <1>8 DEF ExternalWrite, RollbackInv, RollbackRestores, Ended, Kept,
              RolledBack, batchVars, TypeOK
<1>9. CASE (\E f \in Files : Chmod(f)) \/ UNCHANGED vars
  BY <1>9 DEF Chmod, vars, diskVars, batchVars, ghosts, RollbackInv,
              RollbackRestores, Ended, Kept, RolledBack
<1> QED
  BY <1>1, <1>2, <1>3, <1>4, <1>6, <1>7, <1>8, <1>9
     DEF Next, Batch, Environment

\* A batch whose edits fail leaves the core as it was before the first of
\* them, except that files pulled in from disk stay.
THEOREM RollbackIsComplete == Spec => []RollbackRestores
<1>1. Init => RollbackInv
  BY DEF Init, InitState, RollbackInv, RollbackRestores, Ended
<1>2. TInv => TypeOK
  BY DEF TInv
<1>3. RollbackInv => RollbackRestores
  BY DEF RollbackInv
<1> QED
  BY <1>1, <1>2, <1>3, InitTypes, StepTypes, StepRollback, PTL DEF Spec

-----------------------------------------------------------------------------
(* The core and the disk between calls.                                     *)
(*                                                                         *)
(* While a batch runs they disagree, so the inductive invariant says for   *)
(* each phase what makes them agree again: before the commit a rollback    *)
(* would, during the commit the pending operation of the file will.        *)

\* Agrees with version v in place of the core's.
Matches(f, v) ==
    \/ SameText(v, disk[f])
    \/ v = Absent /\ (disk[f] \notin Texts \/ f \in Ignored)

\* A file with a pending operation has a snapshot, ...
Snapshotted ==
    \A f \in Files : writes[f] # Untouched \/ f \in Deleted =>
                        originals[f] # Untouched

\* ... and the core shows what the operation will bring about.
Pending ==
    \A f \in Files :
        /\ f \in Deleted => db[f] = Absent
        /\ f \notin Deleted /\ writes[f] # Untouched => db[f] = writes[f]

\* Before the commit every snapshot has its operation; a dry run has neither.
Staged ==
    /\ \A f \in Files : originals[f] # Untouched =>
                            writes[f] # Untouched \/ f \in Deleted
    /\ dry_run => \A f \in Files : originals[f] = Untouched

FreshInv ==
    /\ pc \in {"idle", "undo", "restore"} =>
          \A f \in Files \ drift : Agrees(f)
    /\ pc \in {"edit", "preflight"} =>
          /\ \A f \in Files \ drift : Matches(f, RolledBack(f))
          /\ Staged
    /\ pc = "commit" =>
          \A f \in Files \ drift :
              f \notin Deleted /\ writes[f] = Untouched => Agrees(f)
    /\ pc \in {"edit", "preflight", "commit"} => Snapshotted /\ Pending

LEMMA DeletedAppend ==
    ASSUME deletes \in Seq(Files), NEW f \in Files,
           deletes' = Append(deletes, f)
    PROVE  Deleted' = Deleted \cup {f}
<1>1. /\ Len(deletes) \in Nat /\ Len(deletes') = Len(deletes) + 1
      /\ \A i \in 1..Len(deletes) : deletes'[i] = deletes[i]
      /\ deletes'[Len(deletes) + 1] = f
  OBVIOUS
<1>2. 1..Len(deletes') = 1..Len(deletes) \cup {Len(deletes) + 1}
  BY <1>1
<1> QED
  BY <1>1, <1>2 DEF Deleted

LEMMA DeletedTail ==
    ASSUME deletes \in Seq(Files), deletes # <<>>, deletes' = Tail(deletes)
    PROVE  /\ Head(deletes) \in Deleted
           /\ Deleted = Deleted' \cup {Head(deletes)}
<1>1. /\ Len(deletes) \in Nat /\ Len(deletes) > 0
      /\ Head(deletes) = deletes[1] /\ Len(deletes') = Len(deletes) - 1
      /\ \A i \in 1..(Len(deletes) - 1) : deletes'[i] = deletes[i + 1]
  BY EmptySeq
<1>2. ASSUME NEW n \in Nat, NEW i \in 1..n, i # 1
      PROVE  \E j \in 1..(n - 1) : j + 1 = i
  <2>1. i - 1 \in 1..(n - 1) /\ (i - 1) + 1 = i
    BY <1>2
  <2> QED
    BY <2>1
<1>3. ASSUME NEW i \in 1..Len(deletes')
      PROVE  i + 1 \in 1..Len(deletes) /\ deletes'[i] = deletes[i + 1]
  BY <1>1
<1>4. ASSUME NEW i \in 1..Len(deletes), i # 1
      PROVE  \E j \in 1..Len(deletes') : deletes'[j] = deletes[i]
  <2>1. PICK j \in 1..(Len(deletes) - 1) : j + 1 = i
    BY <1>1, <1>2, <1>4
  <2> QED
    BY <1>1, <2>1
<1>5. 1 \in 1..Len(deletes)
  BY <1>1
<1>6. Head(deletes) \in Deleted
  BY <1>1, <1>5 DEF Deleted
<1>7. ASSUME NEW f \in Deleted' PROVE f \in Deleted
  <2>1. PICK i \in 1..Len(deletes') : f = deletes'[i]
    BY <1>7 DEF Deleted
  <2> QED
    BY <1>3, <2>1 DEF Deleted
<1>8. ASSUME NEW f \in Deleted PROVE f \in Deleted' \cup {Head(deletes)}
  <2>1. PICK i \in 1..Len(deletes) : f = deletes[i]
    BY <1>8 DEF Deleted
  <2>2. CASE i = 1
    BY <1>1, <2>1, <2>2
  <2>3. CASE i # 1
    <3>1. PICK j \in 1..Len(deletes') : deletes'[j] = deletes[i]
      BY <1>4, <2>3
    <3> QED
      BY <2>1, <3>1 DEF Deleted
  <2> QED
    BY <2>2, <2>3
<1> QED
  BY <1>6, <1>7, <1>8

LEMMA NoneDeleted == deletes = <<>> => Deleted = {}
  BY EmptySeq DEF Deleted

\* The core after a reconciliation agrees with the disk for every file of the
\* batch.
LEMMA ReconcileAgrees ==
    ASSUME TypeOK, NEW d \in [Files -> OnDisk], Reconcile(d), disk' = d,
           \A f \in Files \ drift : originals[f] = Untouched => Agrees(f)',
           NEW f \in Files \ drift'
    PROVE  Agrees(f)'
<1>1. CASE originals[f] = Untouched
  <2>1. f \notin drift
    BY <1>1 DEF Reconcile, Keys
  <2> QED
    BY <1>1, <2>1
<1>2. CASE originals[f] # Untouched
  <2>1. db'[f] = IF d[f] \in Texts THEN d[f] ELSE Absent
    BY <1>2 DEF Reconcile
  <2> QED
    BY <2>1 DEF Agrees, SameText
<1> QED
  BY <1>1, <1>2

\* What a write puts on disk is the core's text up to line endings.
LEMMA EncodedSame ==
    ASSUME NEW f \in Files, NEW t \in Texts
    PROVE  SameText(t, Encoded(f, t))
  BY ApplyAssumption, EolAssumption DEF SameText, Encoded

\* A pull leaves a file that agrees, or has a snapshot.
LEMMA PulledMatches ==
    ASSUME TypeOK, NEW f \in Files, drift' = PullDrift(f), disk' = disk,
           \A g \in Files \ drift : Matches(g, RolledBack(g)),
           NEW g \in Files \ drift'
    PROVE  Matches(g, IF originals[g] = Untouched
                      THEN Pulled(f)[g] ELSE originals[g])
<1>1. \A h \in Files : h # f => Pulled(f)[h] = db[h]
  BY DEF Pulled, TypeOK
<1>2. CASE Pulled(f) = db \/ originals[f] # Untouched
  <2>1. g \notin drift
    BY <1>2 DEF PullDrift
  <2> QED
    BY <1>1, <1>2, <2>1 DEF RolledBack
<1>3. CASE Pulled(f) # db /\ originals[f] = Untouched
  <2>1. drift' = drift \ {f}
    BY <1>3 DEF PullDrift
  <2>2. CASE g # f
    BY <1>1, <2>1, <2>2 DEF RolledBack
  <2>3. CASE g = f
    <3>1. Pulled(f)[f] # db[f]
      BY <1>1, <1>3 DEF Pulled, TypeOK
    <3>2. disk[f] \in Texts /\ Pulled(f)[f] = disk[f]
      BY <3>1 DEF Pulled, TypeOK
    <3> QED
      BY <1>3, <2>3, <3>2 DEF Matches, SameText
  <2> QED
    BY <2>2, <2>3
<1> QED
  BY <1>2, <1>3

LEMMA StageFresh ==
    ASSUME ~Recreates, TypeOK, NEW core \in [Files -> Versions],
           NEW fs \in SUBSET Files, NEW new \in [fs -> Texts],
           Stage(core, fs, new), ~dry_run, UNCHANGED <<disk, dry_run>>,
           Snapshotted, Pending, Staged,
           \A g \in Files \ fs : core[g] = db[g],
           \A g \in Files \ drift' :
               Matches(g, IF originals[g] = Untouched
                          THEN core[g] ELSE originals[g])
    PROVE  /\ \A g \in Files \ drift' : Matches(g, RolledBack(g))'
           /\ Snapshotted' /\ Pending' /\ Staged'
<1>1. Deleted' = Deleted /\ fs \cap Deleted = {}
  BY DEF Stage, Deleted
<1>2. ASSUME NEW g \in Files
      PROVE  /\ g \in fs => /\ originals'[g] # Untouched
                            /\ writes'[g] # Untouched
                            /\ db'[g] = writes'[g]
             /\ g \notin fs => /\ originals'[g] = originals[g]
                               /\ writes'[g] = writes[g]
                               /\ db'[g] = db[g]
             /\ RolledBack(g)' = IF originals[g] = Untouched
                                 THEN core[g] ELSE originals[g]
  <2>1. core[g] # Untouched
    BY ApplyAssumption DEF Versions
  <2>2. g \in fs => new[g] # Untouched
    BY ApplyAssumption
  <2> QED
    BY <2>1, <2>2 DEF Stage, Snapshot, RolledBack, TypeOK, Maps
<1>3. \A g \in Files \ drift' : Matches(g, RolledBack(g))'
  BY <1>2 DEF Matches
<1>4. Snapshotted'
  BY <1>1, <1>2 DEF Snapshotted
<1>5. Pending'
  BY <1>1, <1>2 DEF Pending
<1>6. Staged'
  BY <1>1, <1>2 DEF Staged
<1> QED
  BY <1>3, <1>4, <1>5, <1>6

LEMMA EditFresh ==
    ASSUME ~Recreates, TypeOK, FreshInv, Edit
    PROVE  FreshInv'
<1>1. /\ pc = "edit" /\ pc' = "edit"
      /\ UNCHANGED <<disk, dry_run>>
  <2>1. Editing
    BY DEF Edit, Splice, Create, Delete, Move, RewriteAll, Preview
  <2> QED
    BY <2>1 DEF Editing, diskVars
<1>2. /\ \A g \in Files \ drift : Matches(g, RolledBack(g))
      /\ Snapshotted /\ Pending /\ Staged
  BY <1>1 DEF FreshInv
<1> DEFINE EditInv == /\ \A g \in Files \ drift' : Matches(g, RolledBack(g))'
                      /\ Snapshotted' /\ Pending' /\ Staged'
<1>3. EditInv
  <2>1. ASSUME NEW f \in Files, NEW t \in Texts, Splice(f, t) PROVE EditInv
    <3>1. \A g \in Files \ {f} : Pulled(f)[g] = db[g]
      BY DEF Pulled, TypeOK
    <3>2. \A g \in Files \ drift' :
              Matches(g, IF originals[g] = Untouched
                         THEN Pulled(f)[g] ELSE originals[g])
      BY <1>1, <1>2, <2>1, PulledMatches DEF Splice
    <3> QED
      BY <1>1, <1>2, <2>1, <3>1, <3>2, PulledType, StageFresh DEF Splice
  <2>2. ASSUME NEW core, core = db
        PROVE  \A g \in Files \ drift :
                   Matches(g, IF originals[g] = Untouched
                              THEN core[g] ELSE originals[g])
    BY <1>2, <2>2 DEF RolledBack
  <2>3. ASSUME NEW f \in Files, NEW t \in Texts, Create(f, t) PROVE EditInv
    BY <1>1, <1>2, <2>2, <2>3, StageFresh DEF Create, TypeOK
  <2>4. ASSUME NEW f \in Files, NEW g \in Files, NEW s \in Texts,
               NEW t \in Texts, Move(f, g, s, t)
        PROVE  EditInv
    BY <1>1, <1>2, <2>2, <2>4, StageFresh DEF Move, TypeOK
  <2>5. ASSUME NEW fs \in SUBSET Files, NEW t \in Texts, RewriteAll(fs, t)
        PROVE  EditInv
    BY <1>1, <1>2, <2>2, <2>5, StageFresh DEF RewriteAll, TypeOK
  <2>6. ASSUME NEW f \in Files, Delete(f) PROVE EditInv
    <3>1. Deleted' = Deleted \cup {f}
      BY <2>6, DeletedAppend DEF Delete, TypeOK
    <3>2. /\ db'[f] = Absent /\ originals'[f] # Untouched
          /\ \A g \in Files \ {f} : db'[g] = db[g]
                                   /\ originals'[g] = originals[g]
          /\ writes' = writes /\ drift' = drift /\ ~dry_run
      BY <2>6, ApplyAssumption DEF Delete, Snapshot, TypeOK, Maps, Versions
    <3>3. Snapshotted' /\ Pending'
      BY <1>2, <3>1, <3>2 DEF Snapshotted, Pending
    <3>4. Staged'
      BY <1>1, <1>2, <3>1, <3>2 DEF Staged
    <3>5. ASSUME NEW g \in Files \ drift PROVE Matches(g, RolledBack(g))'
      <4>1. CASE g # f \/ originals[f] # Untouched
        <5>1. RolledBack(g)' = RolledBack(g)
          BY <2>6, <3>2, <4>1 DEF RolledBack, Delete, Snapshot, TypeOK, Maps
        <5> QED
          BY <1>1, <1>2, <3>5, <5>1 DEF Matches
      <4>2. CASE g = f /\ originals[f] = Untouched
        <5>1. RolledBack(f)' =
                 IF db[f] # Absent THEN db[f]
                 ELSE IF disk[f] \in Texts THEN disk[f] ELSE Absent
          BY <2>6, <3>2, <4>2 DEF RolledBack, Delete, Snapshot, TypeOK, Maps
        <5>2. Matches(f, db[f])
          BY <1>2, <3>5, <4>2 DEF RolledBack
        <5> QED
          BY <1>1, <4>2, <5>1, <5>2 DEF Matches, SameText
      <4> QED
        BY <4>1, <4>2
    <3> QED
      BY <3>2, <3>3, <3>4, <3>5
  <2>7. ASSUME NEW f \in Files, Preview(f) PROVE EditInv
    <3>1. /\ \A g \in Files : originals[g] = Untouched
          /\ \A g \in Files : writes[g] = Untouched /\ g \notin Deleted
      BY <1>2, <2>7 DEF Preview, Staged, Snapshotted
    <3>2. UNCHANGED <<originals, writes, Deleted, dry_run>>
      BY <1>1, <2>7 DEF Preview, Deleted
    <3>3. Snapshotted' /\ Pending' /\ Staged'
      BY <3>1, <3>2 DEF Snapshotted, Pending, Staged
    <3>4. CASE db' = db
      BY <1>1, <1>2, <2>7, <3>2, <3>3, <3>4 DEF Preview, Matches, RolledBack
    <3>5. CASE db' # db
      <4>1. db' = Pulled(f) /\ drift' = PullDrift(f)
        BY <2>7, <3>5 DEF Preview
      <4>2. \A g \in Files \ drift' :
                Matches(g, IF originals[g] = Untouched
                           THEN Pulled(f)[g] ELSE originals[g])
        BY <1>1, <1>2, <4>1, PulledMatches
      <4>3. \A g \in Files : RolledBack(g)' =
                IF originals[g] = Untouched THEN Pulled(f)[g] ELSE originals[g]
        BY <3>2, <4>1 DEF RolledBack
      <4> QED
        BY <1>1, <3>3, <4>2, <4>3 DEF Matches
    <3> QED
      BY <3>4, <3>5
  <2> HIDE DEF EditInv
  <2> QED
    BY <2>1, <2>3, <2>4, <2>5, <2>6, <2>7 DEF Edit
<1> QED
  BY <1>1, <1>3 DEF FreshInv

\* A rolled back core agrees with the disk.
LEMMA AbortFresh ==
    ASSUME TypeOK, NEW core, Abort(core),
           \A g \in Files \ drift' :
               Matches(g, IF originals[g] = Untouched
                          THEN core[g] ELSE originals[g])
    PROVE  FreshInv'
<1>1. /\ pc' = "idle" /\ disk' = disk
      /\ \A g \in Files : db'[g] = IF originals[g] = Untouched
                                  THEN core[g] ELSE originals[g]
  BY DEF Abort, Return, diskVars
<1>2. \A g \in Files \ drift' : Agrees(g)'
  BY <1>1 DEF Matches, Agrees
<1> QED
  BY <1>1, <1>2 DEF FreshInv

LEMMA CommitFailsFresh ==
    ASSUME TypeOK, FreshInv, pc = "commit", NEW d \in [Files -> OnDisk],
           CommitFails(d),
           \A g \in Files : d[g] # disk[g] => writes[g] # Untouched
    PROVE  FreshInv'
<1>1. Reconcile(d) /\ disk' = d /\ pc' = "idle"
  BY DEF CommitFails, Return
<1>2. ASSUME NEW g \in Files \ drift, originals[g] = Untouched
      PROVE  Agrees(g)'
  <2>1. g \notin Deleted /\ writes[g] = Untouched
    BY <1>2 DEF FreshInv, Snapshotted
  <2>2. Agrees(g) /\ d[g] = disk[g]
    BY <2>1 DEF FreshInv
  <2>3. db'[g] = db[g]
    BY <1>1, <1>2 DEF Reconcile
  <2> QED
    BY <1>1, <2>2, <2>3 DEF Agrees
<1>3. \A g \in Files \ drift' : Agrees(g)'
  BY <1>1, <1>2, ReconcileAgrees
<1> QED
  BY <1>1, <1>3 DEF FreshInv

LEMMA CommitFresh ==
    ASSUME TypeOK, FreshInv,
           \/ EditFails \/ SymlinkEscape \/ EditsDone \/ Preflight
           \/ \E f \in Files : WriteOne(f) \/ WriteFails(f)
           \/ DeleteOne \/ DeleteFails \/ CommitDone
    PROVE  FreshInv'
<1>1. CASE EditFails
  <2>1. \A g \in Files \ drift : Matches(g, RolledBack(g))
    BY <1>1 DEF EditFails, FreshInv
  <2>2. CASE Abort(db) /\ drift' = drift
    BY <2>1, <2>2, AbortFresh DEF RolledBack
  <2>3. ASSUME NEW f \in Files, Abort(Pulled(f)), drift' = PullDrift(f)
        PROVE  FreshInv'
    <3>1. disk' = disk
      BY <2>3 DEF Abort, diskVars
    <3> QED
      BY <2>1, <2>3, <3>1, PulledMatches, AbortFresh
  <2> QED
    BY <1>1, <2>2, <2>3 DEF EditFails
<1>2. CASE SymlinkEscape
  <2>1. \A g \in Files \ drift : Matches(g, RolledBack(g))
    BY <1>2 DEF SymlinkEscape, FreshInv
  <2> QED
    BY <1>2, <2>1, AbortFresh DEF SymlinkEscape, RolledBack
<1>3. CASE EditsDone
  BY <1>3 DEF EditsDone, FreshInv, diskVars, batchVars, ghosts, Matches,
              RolledBack, Staged, Snapshotted, Pending, Deleted
<1>4. CASE Preflight
  <2>1. \A g \in Files \ drift :
            originals[g] = Untouched => Agrees(g)
    BY <1>4 DEF Preflight, FreshInv, RolledBack, Matches, Agrees
  <2>2. UNCHANGED <<disk, originals, writes, deletes, dry_run>>
    BY <1>4 DEF Preflight, diskVars, batchVars
  <2>3. CASE Keys(writes) \cap readonly # {}
    <3>1. Reconcile(disk) /\ pc' = "idle"
      BY <1>4, <2>3 DEF Preflight, Return
    <3>2. \A g \in Files \ drift : originals[g] = Untouched => Agrees(g)'
      BY <2>1, <2>2, <3>1 DEF Reconcile, Agrees
    <3>3. \A g \in Files \ drift' : Agrees(g)'
      BY <2>2, <3>1, <3>2, ReconcileAgrees DEF TypeOK
    <3> QED
      BY <3>1, <3>3 DEF FreshInv
  <2>4. CASE Keys(writes) \cap readonly = {}
    <3>1. UNCHANGED <<db, drift>> /\ pc' = "commit"
      BY <1>4, <2>4 DEF Preflight
    <3>2. \A g \in Files \ drift :
              g \notin Deleted /\ writes[g] = Untouched => Agrees(g)
      BY <1>4, <2>1 DEF Preflight, FreshInv, Staged
    <3>3. Snapshotted /\ Pending
      BY <1>4 DEF Preflight, FreshInv
    <3> QED
      BY <2>2, <3>1, <3>2, <3>3 DEF FreshInv, Agrees, Snapshotted, Pending,
                                   Deleted
  <2> QED
    BY <2>3, <2>4
<1>5. ASSUME NEW f \in Files, WriteOne(f) PROVE FreshInv'
  <2>1. /\ pc = "commit" /\ pc' = "commit"
        /\ UNCHANGED <<db, originals, Deleted>>
        /\ writes[f] \in Texts /\ writes'[f] = Untouched
        /\ disk'[f] = Encoded(f, writes[f])
        /\ \A g \in Files \ {f} : /\ writes'[g] = writes[g]
                                 /\ disk'[g] = disk[g]
        /\ drift' = drift \ {f}
    BY <1>5 DEF WriteOne, TypeOK, Deleted
  <2>2. Snapshotted' /\ Pending'
    BY <2>1 DEF FreshInv, Snapshotted, Pending
  <2>3. ASSUME NEW g \in Files \ drift', g \notin Deleted',
               writes'[g] = Untouched
        PROVE  Agrees(g)'
    <3>1. CASE g = f
      <4>1. db[f] = writes[f]
        BY <2>1, <2>3, <3>1, ApplyAssumption DEF FreshInv, Pending
      <4> QED
        BY <2>1, <3>1, <4>1, EncodedSame DEF Agrees
    <3>2. CASE g # f
      BY <2>1, <2>3, <3>2 DEF FreshInv, Agrees
    <3> QED
      BY <3>1, <3>2
  <2> QED
    BY <2>1, <2>2, <2>3 DEF FreshInv
<1>6. ASSUME NEW f \in Files, WriteFails(f) PROVE FreshInv'
  <2>1. /\ pc = "commit" /\ writes[f] # Untouched
        /\ CommitFails(disk) \/ CommitFails([disk EXCEPT ![f] = Truncated])
    BY <1>6 DEF WriteFails
  <2>2. disk \in [Files -> OnDisk]
        /\ [disk EXCEPT ![f] = Truncated] \in [Files -> OnDisk]
    BY ApplyAssumption DEF TypeOK, OnDisk, Versions
  <2>3. \A g \in Files : [disk EXCEPT ![f] = Truncated][g] # disk[g] => g = f
    BY DEF TypeOK
  <2> QED
    BY <2>1, <2>2, <2>3, CommitFailsFresh
<1>7. CASE DeleteOne
  <2>1. /\ Head(deletes) \in Deleted
        /\ Deleted = Deleted' \cup {Head(deletes)}
    BY <1>7, DeletedTail DEF DeleteOne, Deleting, TypeOK
  <2>2. Head(deletes) \in Files
    BY <1>7, HeadTailProperties DEF DeleteOne, Deleting, TypeOK
  <2>3. /\ pc = "commit" /\ pc' = "commit"
        /\ UNCHANGED <<db, originals, writes>>
        /\ disk'[Head(deletes)] = Absent
        /\ \A g \in Files \ {Head(deletes)} : disk'[g] = disk[g]
        /\ drift' = drift \ {Head(deletes)}
        /\ \A g \in Files : writes[g] = Untouched
    BY <1>7, <2>2 DEF DeleteOne, Deleting, Keys, TypeOK
  <2>4. Snapshotted' /\ Pending'
    BY <2>1, <2>3 DEF FreshInv, Snapshotted, Pending
  <2>5. ASSUME NEW g \in Files \ drift', g \notin Deleted' PROVE Agrees(g)'
    <3>1. CASE g = Head(deletes)
      <4>1. db[g] = Absent
        BY <2>1, <2>3, <3>1 DEF FreshInv, Pending
      <4> QED
        BY <2>3, <3>1, <4>1, ApplyAssumption DEF Agrees
    <3>2. CASE g # Head(deletes)
      BY <2>1, <2>3, <2>5, <3>2 DEF FreshInv, Agrees
    <3> QED
      BY <3>1, <3>2
  <2> QED
    BY <2>3, <2>4, <2>5 DEF FreshInv
<1>8. CASE DeleteFails
  <2>1. pc = "commit" /\ CommitFails(disk) /\ disk \in [Files -> OnDisk]
    BY <1>8 DEF DeleteFails, Deleting, TypeOK
  <2> QED
    BY <2>1, CommitFailsFresh
<1>9. CASE CommitDone
  <2>1. /\ pc = "commit" /\ pc' = "idle" /\ deletes = <<>>
        /\ \A g \in Files : writes[g] = Untouched
        /\ UNCHANGED <<disk, db, drift>>
    BY <1>9 DEF CommitDone, Return, Keys, diskVars
  <2>2. Deleted = {}
    BY <2>1, NoneDeleted
  <2> QED
    BY <2>1, <2>2 DEF FreshInv, Agrees
<1> QED
  BY <1>1, <1>2, <1>3, <1>4, <1>5, <1>6, <1>7, <1>8, <1>9

LEMMA UndoFresh ==
    ASSUME TypeOK, FreshInv, Undo
    PROVE  FreshInv'
<1>1. /\ pc \in {"idle", "undo", "restore"}
      /\ pc' \in {"idle", "undo", "restore"}
  BY DEF Undo, BeginUndo, UndoPop, UndoRefused, BatchReverted, UndoDone,
         RestoreOne, RemoveFails, RestoreFails, Return
<1>2. \A g \in Files \ drift : Agrees(g)
  BY <1>1 DEF FreshInv
<1>3. \A g \in Files \ drift' : Agrees(g)'
  <2>1. CASE UNCHANGED <<disk, db, drift>>
    BY <1>2, <2>1 DEF Agrees
  <2>2. ASSUME NEW f \in Files, RestoreOne(f)
        PROVE  \A g \in Files \ drift' : Agrees(g)'
    <3>1. restore[f] \in Versions
      BY <2>2 DEF RestoreOne, TypeOK, Maps
    <3>2. /\ disk'[f] = restore[f] /\ db'[f] = restore[f]
          /\ drift' = drift \ {f}
          /\ \A g \in Files \ {f} : disk'[g] = disk[g] /\ db'[g] = db[g]
      BY <2>2 DEF RestoreOne, TypeOK
    <3>3. Agrees(f)'
      BY <3>1, <3>2, ApplyAssumption DEF Agrees, SameText, Versions
    <3> QED
      BY <1>2, <3>2, <3>3 DEF Agrees
  <2>3. ASSUME NEW f \in Files, RemoveFails(f)
        PROVE  \A g \in Files \ drift' : Agrees(g)'
    BY <1>2, <2>3 DEF RemoveFails, Agrees, TypeOK, diskVars
  <2>4. ASSUME NEW f \in Files, RestoreFails(f)
        PROVE  \A g \in Files \ drift' : Agrees(g)'
    BY <1>2, <2>4 DEF RestoreFails, Agrees, TypeOK
  <2>5. \/ UNCHANGED <<disk, db, drift>>
        \/ \E f \in Files : RestoreOne(f) \/ RemoveFails(f) \/ RestoreFails(f)
    BY DEF Undo, BeginUndo, UndoPop, UndoRefused, BatchReverted, UndoDone,
           diskVars, ghosts
  <2> QED
    BY <2>1, <2>2, <2>3, <2>4, <2>5
<1> QED
  BY <1>1, <1>3 DEF FreshInv

LEMMA StepFresh ==
    ASSUME ~Recreates, TypeOK, FreshInv, [Next]_vars
    PROVE  FreshInv'
<1>1. ASSUME NEW dry \in BOOLEAN, Begin(dry) PROVE FreshInv'
  <2>1. /\ pc = "idle" /\ pc' = "edit" /\ UNCHANGED <<disk, db, drift>>
        /\ originals' = Nothing /\ writes' = Nothing /\ deletes' = <<>>
    BY <1>1 DEF Begin, diskVars
  <2>2. Deleted' = {}
    BY <2>1, EmptySeq DEF Deleted
  <2>3. Snapshotted' /\ Pending' /\ Staged'
    BY <2>1, <2>2 DEF Nothing, Snapshotted, Pending, Staged
  <2>4. \A g \in Files \ drift' : Matches(g, RolledBack(g))'
    BY <2>1 DEF FreshInv, Nothing, Matches, RolledBack, Agrees
  <2> QED
    BY <2>1, <2>3, <2>4 DEF FreshInv
<1>2. ASSUME NEW f \in Files, NEW v \in OnDisk, ExternalWrite(f, v)
      PROVE  FreshInv'
  <2>1. /\ UNCHANGED <<db, pc, dry_run, originals, writes, deletes>>
        /\ drift' = drift \cup {f}
        /\ \A g \in Files \ {f} : disk'[g] = disk[g]
    BY <1>2 DEF ExternalWrite, batchVars, TypeOK
  <2> QED
    BY <2>1 DEF FreshInv, Agrees, Matches, RolledBack, Staged, Snapshotted,
                Pending, Deleted
<1>3. CASE (\E f \in Files : Chmod(f)) \/ UNCHANGED vars
  <2>1. UNCHANGED <<disk, db, pc, dry_run, originals, writes, deletes, drift>>
    BY <1>3 DEF Chmod, vars, diskVars, batchVars, ghosts
  <2> QED
    BY <2>1 DEF FreshInv, Agrees, Matches, RolledBack, Staged, Snapshotted,
                Pending, Deleted
<1>4. CASE Restart
  BY <1>4, ApplyAssumption
     DEF Restart, Return, FreshInv, Agrees, SameText, IndexOf, diskVars
<1> QED
  BY <1>1, <1>2, <1>3, <1>4, EditFresh, CommitFresh, UndoFresh
     DEF Next, Batch, Environment

LEMMA InitFresh == Init => FreshInv
  BY ApplyAssumption
     DEF Init, InitState, FreshInv, Agrees, SameText, IndexOf

\* Between calls the core shows what is on disk, whichever way the last call
\* ended, for every file no other program has changed since; provided that no
\* batch writes a path it deleted before.
THEOREM CoreAgreesWithDisk ==
    ASSUME ~Recreates
    PROVE  Spec => []ReadAfterWrite
<1>1. TInv => TypeOK
  BY DEF TInv
<1>2. FreshInv => ReadAfterWrite
  BY DEF FreshInv, ReadAfterWrite
<1>3. TypeOK /\ FreshInv /\ [Next]_vars => FreshInv'
  BY StepFresh
<1> QED
  BY <1>1, <1>2, <1>3, InitTypes, StepTypes, InitFresh, PTL DEF Spec

-----------------------------------------------------------------------------
(* What a commit changes can be undone. *)

CommitInv ==
    /\ pc \in {"edit", "preflight", "commit"} => Snapshotted
    /\ pc \in {"edit", "preflight", "commit"} =>
          \A f \in Files \ meddled :
              disk[f] # pre.disk[f] =>
                  pc = "commit" /\ originals[f] # Untouched
    /\ CommitIsUndoable

LEMMA StageSnapshotted ==
    ASSUME TypeOK, Snapshotted, NEW core \in [Files -> Versions],
           NEW fs \in SUBSET Files, NEW new, Stage(core, fs, new)
    PROVE  Snapshotted'
<1>1. Deleted' = Deleted
  BY DEF Stage, Deleted
<1>2. ASSUME NEW g \in Files
      PROVE  /\ g \in fs => originals'[g] # Untouched
             /\ g \notin fs => originals'[g] = originals[g]
                               /\ writes'[g] = writes[g]
  <2>1. core[g] # Untouched
    BY ApplyAssumption DEF Versions
  <2> QED
    BY <2>1 DEF Stage, Snapshot, TypeOK, Maps
<1> QED
  BY <1>1, <1>2 DEF Snapshotted

LEMMA EditSnapshotted ==
    ASSUME TypeOK, Snapshotted, Edit
    PROVE  Snapshotted'
<1>1. ASSUME NEW f \in Files, NEW t \in Texts, Splice(f, t)
      PROVE  Snapshotted'
  BY <1>1, PulledType, StageSnapshotted DEF Splice
<1>2. ASSUME NEW f \in Files, NEW t \in Texts, Create(f, t)
      PROVE  Snapshotted'
  BY <1>2, StageSnapshotted DEF Create, TypeOK
<1>3. ASSUME NEW f \in Files, NEW g \in Files, NEW s \in Texts,
             NEW t \in Texts, Move(f, g, s, t)
      PROVE  Snapshotted'
  BY <1>3, StageSnapshotted DEF Move, TypeOK
<1>4. ASSUME NEW fs \in SUBSET Files, NEW t \in Texts, RewriteAll(fs, t)
      PROVE  Snapshotted'
  BY <1>4, StageSnapshotted DEF RewriteAll, TypeOK
<1>5. ASSUME NEW f \in Files, Delete(f) PROVE Snapshotted'
  <2>1. Deleted' = Deleted \cup {f}
    BY <1>5, DeletedAppend DEF Delete, TypeOK
  <2>2. /\ originals'[f] # Untouched /\ writes' = writes
        /\ \A g \in Files \ {f} : originals'[g] = originals[g]
    BY <1>5, ApplyAssumption DEF Delete, Snapshot, TypeOK, Maps, Versions
  <2> QED
    BY <2>1, <2>2 DEF Snapshotted
<1>6. ASSUME NEW f \in Files, Preview(f) PROVE Snapshotted'
  BY <1>6 DEF Preview, Snapshotted, Deleted
<1> QED
  BY <1>1, <1>2, <1>3, <1>4, <1>5, <1>6 DEF Edit

LEMMA StepCommit ==
    ASSUME TypeOK, CommitInv, [Next]_vars
    PROVE  CommitInv'
<1>1. ASSUME \/ pc' \in {"undo", "restore"}
             \/ pc' = "idle" /\ outcome' # "ok"
      PROVE  CommitInv'
  BY <1>1 DEF CommitInv, CommitIsUndoable, Ended
<1>2. ASSUME NEW dry \in BOOLEAN, Begin(dry) PROVE CommitInv'
  <2>1. /\ pc' = "edit" /\ disk' = disk /\ pre'.disk = disk
        /\ writes' = Nothing /\ deletes' = <<>>
    BY <1>2 DEF Begin, diskVars
  <2>2. Deleted' = {}
    BY <2>1, EmptySeq DEF Deleted
  <2> QED
    BY <2>1, <2>2 DEF CommitInv, CommitIsUndoable, Ended, Snapshotted, Nothing
<1>3. CASE Edit
  <2>1. Editing
    BY <1>3 DEF Edit, Splice, Create, Delete, Move, RewriteAll, Preview
  <2>2. Snapshotted'
    BY <1>3, <2>1, EditSnapshotted DEF CommitInv, Editing
  <2> QED
    BY <2>1, <2>2 DEF Editing, CommitInv, CommitIsUndoable, Ended, diskVars
<1>4. CASE EditFails \/ SymlinkEscape
  BY <1>1, <1>4 DEF EditFails, SymlinkEscape, Abort, Return
<1>5. CASE EditsDone
  BY <1>5 DEF EditsDone, CommitInv, CommitIsUndoable, Ended, Snapshotted,
              Deleted, diskVars, batchVars, ghosts
<1>6. CASE Preflight
  <2>1. CASE pc' = "idle" /\ outcome' = "refused"
    BY <1>1, <2>1
  <2>2. CASE pc' = "commit"
    BY <1>6, <2>2 DEF Preflight, CommitInv, CommitIsUndoable, Ended,
                      Snapshotted, Deleted, diskVars, batchVars
  <2> QED
    BY <1>6, <2>1, <2>2 DEF Preflight, Return
<1>7. ASSUME NEW f \in Files, WriteOne(f) PROVE CommitInv'
  <2>1. /\ pc = "commit" /\ pc' = "commit" /\ writes[f] # Untouched
        /\ writes'[f] = Untouched
        /\ \A g \in Files \ {f} : writes'[g] = writes[g] /\ disk'[g] = disk[g]
        /\ UNCHANGED <<originals, Deleted, pre, meddled>>
    BY <1>7 DEF WriteOne, Deleted, TypeOK
  <2>2. Snapshotted' /\ originals[f] # Untouched
    BY <2>1 DEF CommitInv, Snapshotted
  <2> QED
    BY <2>1, <2>2 DEF CommitInv, CommitIsUndoable, Ended
<1>8. CASE DeleteOne
  <2>1. /\ Head(deletes) \in Deleted
        /\ Deleted = Deleted' \cup {Head(deletes)}
    BY <1>8, DeletedTail DEF DeleteOne, Deleting, TypeOK
  <2>2. Head(deletes) \in Files
    BY <1>8, HeadTailProperties DEF DeleteOne, Deleting, TypeOK
  <2>3. /\ pc = "commit" /\ pc' = "commit"
        /\ UNCHANGED <<writes, originals, pre, meddled>>
        /\ \A g \in Files \ {Head(deletes)} : disk'[g] = disk[g]
    BY <1>8 DEF DeleteOne, Deleting, TypeOK
  <2>4. Snapshotted' /\ originals[Head(deletes)] # Untouched
    BY <2>1, <2>2, <2>3 DEF CommitInv, Snapshotted
  <2> QED
    BY <2>3, <2>4 DEF CommitInv, CommitIsUndoable, Ended
<1>9. CASE DeleteFails \/ \E f \in Files : WriteFails(f)
  BY <1>1, <1>9 DEF DeleteFails, WriteFails, CommitFails, Return
<1>10. CASE CommitDone
  <2>1. /\ pc = "commit" /\ UNCHANGED <<disk, pre, meddled>>
        /\ pc' = "idle"
    BY <1>10 DEF CommitDone, Return, diskVars
  <2>2. CASE Keys(originals) = {}
    <3>1. \A f \in Files : originals[f] = Untouched
      BY <2>2 DEF Keys
    <3> QED
      BY <2>1, <3>1 DEF CommitInv, CommitIsUndoable
  <2>3. CASE Keys(originals) # {}
    <3>1. history' = Recorded(history, originals)
      BY <1>10, <2>3 DEF CommitDone
    <3>2. /\ history \in Seq(Maps) /\ originals \in Maps
          /\ Len(history) <= MaxUndoBatches
      BY DEF TypeOK
    <3>3. /\ history' \in Seq(Maps) /\ history'[Len(history')] = originals
          /\ Len(history') = IF Len(history) = MaxUndoBatches
                             THEN Len(history) ELSE Len(history) + 1
      BY <3>1, <3>2, RecordedType
    <3>4. Len(history') > 0
      BY <3>2, <3>3, BoundTypes, LenProperties
    <3>5. history' # <<>>
      BY <3>4, EmptySeq
    <3> QED
      BY <2>1, <3>3, <3>5 DEF CommitInv, CommitIsUndoable, Newest
  <2> QED
    BY <2>2, <2>3
<1>11. CASE Undo
  <2>1. UndoPop \/ BatchReverted => pc' \in {"undo", "restore"}
    BY DEF UndoPop, BatchReverted
  <2>2. UndoRefused \/ UndoDone => pc' = "idle" /\ outcome' # "ok"
    BY DEF UndoRefused, UndoDone, Return
  <2>3. ASSUME NEW n, BeginUndo(n) PROVE pc' = "undo"
    BY <2>3 DEF BeginUndo
  <2>4. ASSUME NEW f, RestoreOne(f) \/ RemoveFails(f) PROVE pc' = "restore"
    BY <2>4 DEF RestoreOne, RemoveFails
  <2>5. ASSUME NEW f, RestoreFails(f) PROVE pc' = "idle" /\ outcome' # "ok"
    BY <2>5 DEF RestoreFails, Return
  <2>6. \/ pc' \in {"undo", "restore"}
        \/ pc' = "idle" /\ outcome' # "ok"
    BY <1>11, <2>1, <2>2, <2>3, <2>4, <2>5 DEF Undo
  <2> QED
    BY <1>1, <2>6
<1>12. ASSUME NEW f \in Files, NEW v \in OnDisk, ExternalWrite(f, v)
       PROVE  CommitInv'
  <2>1. /\ UNCHANGED <<pc, outcome, history, originals, writes, deletes, pre>>
        /\ meddled' = meddled \cup {f}
        /\ \A g \in Files \ {f} : disk'[g] = disk[g]
    BY <1>12 DEF ExternalWrite, batchVars, TypeOK
  <2> QED
    BY <2>1 DEF CommitInv, CommitIsUndoable, Ended, Newest, Snapshotted,
                Deleted
<1>13. CASE (\E f \in Files : Chmod(f)) \/ UNCHANGED vars
  <2>1. UNCHANGED <<disk, pc, outcome, history, originals, writes, deletes,
                    pre, meddled>>
    BY <1>13 DEF Chmod, vars, diskVars, batchVars, ghosts
  <2> QED
    BY <2>1 DEF CommitInv, CommitIsUndoable, Ended, Newest, Snapshotted,
                Deleted
<1>14. CASE Restart
  BY <1>1, <1>14 DEF Restart, Return
<1> QED
  BY <1>2, <1>3, <1>4, <1>5, <1>6, <1>7, <1>8, <1>9, <1>10, <1>11, <1>12,
     <1>13, <1>14
     DEF Next, Batch, Environment

\* Every file a committed batch changed is in the newest record of the undo
\* history, also when the history is full or edits of the batch shared files.
THEOREM CommitsAreUndoable == Spec => []CommitIsUndoable
<1>1. TInv => TypeOK
  BY DEF TInv
<1>2. Init => CommitInv
  BY DEF Init, InitState, CommitInv, CommitIsUndoable, Ended
<1>3. TypeOK /\ CommitInv /\ [Next]_vars => CommitInv'
  BY StepCommit
<1>4. CommitInv => CommitIsUndoable
  BY DEF CommitInv
<1> QED
  BY <1>1, <1>2, <1>3, <1>4, InitTypes, StepTypes, PTL DEF Spec

-----------------------------------------------------------------------------
(* What undo restores.                                                      *)
(*                                                                         *)
(* A file another program or a failed call never touched has, in a state s *)
(* of core and disk, the versions Sees(s, f).  Each state a record of the  *)
(* history stands for saw whatever is seen in the next, unless the record  *)
(* has the file, and then it saw the version in the record.  Undo walks    *)
(* back along that chain, however it came to be.                           *)

Sees(s, f) == {s.db[f], s.disk[f]}

Now == [db |-> db, disk |-> disk]

\* In step, or not in the core.
Fits(s, f) == s.db[f] = Absent \/ SameText(s.db[f], s.disk[f])

\* The records h were made in the states p; s is the state after the last.
Chain(h, p, s, m) ==
    \A i \in 1..Len(h) : \A f \in Files \ m :
        IF h[i][f] = Untouched
        THEN Sees(IF i = Len(h) THEN s ELSE p[i + 1], f) \subseteq Sees(p[i], f)
        ELSE h[i][f] \in Sees(p[i], f)

InBatch == pc \in {"edit", "preflight", "commit"}

\* The state the running call started from, or is on its way to.
Before == IF InBatch THEN pre ELSE IF pc = "restore" THEN goal ELSE Now

Undone == (pc = "undo" /\ reverted > 0) \/ Ended("undone")

Fitting ==
    \A f \in Files \ meddled :
        /\ \A i \in 1..Len(past) : Fits(past[i], f)
        /\ InBatch => Fits(pre, f)
        /\ pc = "restore" \/ Undone => Fits(goal, f)

\* What a rollback, or the rest of a restoration, would bring back.
Returning ==
    \A f \in Files \ meddled :
        /\ pc \in {"preflight", "commit"} => RolledBack(f) \in Sees(pre, f)
        /\ pc = "restore" => IF restore[f] = Untouched
                             THEN Sees(Now, f) \subseteq Sees(goal, f)
                             ELSE restore[f] \in Sees(goal, f)
        /\ Undone => Sees(Now, f) \subseteq Sees(goal, f)

UndoInv ==
    /\ drift \subseteq meddled
    /\ Chain(history, past, Before, meddled)
    /\ Fitting
    /\ Returning

\* A step that shows no new version of a file leaves the chain whole.
LEMMA ChainKept ==
    ASSUME NEW h, NEW p, NEW s, NEW m, NEW t, NEW n,
           Chain(h, p, s, m), m \subseteq n,
           \A f \in Files \ n : Sees(t, f) \subseteq Sees(s, f)
    PROVE  Chain(h, p, t, n)
<1> SUFFICES ASSUME NEW i \in 1..Len(h), NEW f \in Files \ n
             PROVE  IF h[i][f] = Untouched
                    THEN Sees(IF i = Len(h) THEN t ELSE p[i + 1], f) \subseteq Sees(p[i], f)
                    ELSE h[i][f] \in Sees(p[i], f)
  BY DEF Chain
<1>1. IF h[i][f] = Untouched
      THEN Sees(IF i = Len(h) THEN s ELSE p[i + 1], f) \subseteq Sees(p[i], f)
      ELSE h[i][f] \in Sees(p[i], f)
  BY DEF Chain
<1>2. Sees(t, f) \subseteq Sees(s, f)
  OBVIOUS
<1>3. CASE i = Len(h)
  BY <1>1, <1>2, <1>3
<1>4. CASE i # Len(h)
  BY <1>1, <1>4
<1> QED
  BY <1>3, <1>4

\* A record longer by one, if it saw what it replaced.
LEMMA ChainAppended ==
    ASSUME NEW S, NEW P, NEW h \in Seq(S), NEW p \in Seq(P), Len(p) = Len(h),
           NEW batch \in S, NEW s \in P, NEW t, NEW m,
           Chain(h, p, s, m),
           \A f \in Files \ m : IF batch[f] = Untouched
                                THEN Sees(t, f) \subseteq Sees(s, f)
                                ELSE batch[f] \in Sees(s, f)
    PROVE  Chain(Append(h, batch), Append(p, s), t, m)
<1> DEFINE hh == Append(h, batch)
           pp == Append(p, s)
<1> SUFFICES ASSUME NEW i \in 1..Len(hh), NEW f \in Files \ m
             PROVE  IF hh[i][f] = Untouched
                    THEN Sees(IF i = Len(hh) THEN t ELSE pp[i + 1], f) \subseteq Sees(pp[i], f)
                    ELSE hh[i][f] \in Sees(pp[i], f)
  BY DEF Chain
<1>1. Len(h) \in Nat /\ Len(hh) = Len(h) + 1
  OBVIOUS
<1>2. CASE i = Len(hh)
  <2>1. hh[i] = batch /\ pp[i] = s
    BY <1>1, <1>2
  <2> QED
    BY <1>2, <2>1
<1>3. CASE i # Len(hh)
  <2>1. i \in 1..Len(h) /\ hh[i] = h[i] /\ pp[i] = p[i]
    BY <1>1, <1>3
  <2>2. pp[i + 1] = IF i = Len(h) THEN s ELSE p[i + 1]
    BY <1>1, <1>3, <2>1
  <2>3. IF h[i][f] = Untouched
        THEN Sees(IF i = Len(h) THEN s ELSE p[i + 1], f) \subseteq Sees(p[i], f)
        ELSE h[i][f] \in Sees(p[i], f)
    BY <2>1 DEF Chain
  <2> HIDE DEF hh, pp
  <2> QED
    BY <1>3, <2>1, <2>2, <2>3
<1> QED
  BY <1>2, <1>3

\* Dropping the oldest record leaves the rest of the chain.
LEMMA ChainShortened ==
    ASSUME NEW S, NEW P, NEW h \in Seq(S), NEW p \in Seq(P), Len(p) = Len(h),
           Len(h) > 0, NEW s, NEW m, Chain(h, p, s, m)
    PROVE  Chain(SubSeq(h, 2, Len(h)), SubSeq(p, 2, Len(p)), s, m)
<1> DEFINE hh == SubSeq(h, 2, Len(h))
           pp == SubSeq(p, 2, Len(p))
<1>1. /\ Len(h) \in Nat /\ Len(hh) = Len(h) - 1
      /\ \A i \in 1..Len(hh) : hh[i] = h[i + 1] /\ pp[i] = p[i + 1] /\ i + 1 \in 1..Len(h)
  OBVIOUS
<1> SUFFICES ASSUME NEW i \in 1..Len(hh), NEW f \in Files \ m
             PROVE  IF hh[i][f] = Untouched
                    THEN Sees(IF i = Len(hh) THEN s ELSE pp[i + 1], f) \subseteq Sees(pp[i], f)
                    ELSE hh[i][f] \in Sees(pp[i], f)
  BY DEF Chain
<1>2. IF h[i + 1][f] = Untouched
      THEN Sees(IF i + 1 = Len(h) THEN s ELSE p[(i + 1) + 1], f) \subseteq Sees(p[i + 1], f)
      ELSE h[i + 1][f] \in Sees(p[i + 1], f)
  BY <1>1 DEF Chain
<1>3. i = Len(hh) <=> i + 1 = Len(h)
  BY <1>1
<1>4. i # Len(hh) => pp[i + 1] = p[(i + 1) + 1]
  BY <1>1
<1>5. hh[i] = h[i + 1] /\ pp[i] = p[i + 1]
  BY <1>1
<1> HIDE DEF hh, pp
<1> QED
  BY <1>2, <1>3, <1>4, <1>5

LEMMA ChainRecorded ==
    ASSUME NEW S, NEW P, NEW h \in Seq(S), NEW p \in Seq(P), Len(p) = Len(h),
           Len(h) <= MaxUndoBatches,
           NEW batch \in S, NEW s \in P, NEW t, NEW m,
           Chain(h, p, s, m),
           \A f \in Files \ m : IF batch[f] = Untouched
                                THEN Sees(t, f) \subseteq Sees(s, f)
                                ELSE batch[f] \in Sees(s, f)
    PROVE  Chain(Recorded(h, batch), Recorded(p, s), t, m)
<1> DEFINE hh == Append(h, batch)
           pp == Append(p, s)
<1>1. /\ hh \in Seq(S) /\ pp \in Seq(P) /\ Len(h) \in Nat
      /\ Len(hh) = Len(h) + 1 /\ Len(pp) = Len(hh)
  OBVIOUS
<1>2. Chain(hh, pp, t, m)
  BY ChainAppended
<1>3. MaxUndoBatches \in Nat /\ MaxUndoBatches > 0
  BY BoundTypes
<1>4. CASE Len(h) < MaxUndoBatches
  <2>1. Recorded(h, batch) = hh /\ Recorded(p, s) = pp
    BY <1>1, <1>3, <1>4 DEF Recorded
  <2> QED
    BY <1>2, <2>1
<1>5. CASE Len(h) = MaxUndoBatches
  <2>1. /\ Recorded(h, batch) = SubSeq(hh, 2, Len(hh))
        /\ Recorded(p, s) = SubSeq(pp, 2, Len(pp))
    BY <1>1, <1>3, <1>5 DEF Recorded
  <2> HIDE DEF hh, pp
  <2> QED
    BY <1>1, <1>2, <2>1, ChainShortened
<1> QED
  BY <1>1, <1>3, <1>4, <1>5

\* Without its newest record the chain ends in the state of that record.
LEMMA ChainPopped ==
    ASSUME NEW S, NEW P, NEW h \in Seq(S), NEW p \in Seq(P), Len(p) = Len(h),
           h # <<>>, NEW s, NEW m, Chain(h, p, s, m)
    PROVE  Chain(SubSeq(h, 1, Len(h) - 1), SubSeq(p, 1, Len(p) - 1), p[Len(p)], m)
<1>1. Len(h) \in Nat /\ Len(h) > 0
  BY EmptySeq
<1>2. PICK n \in Nat : n = Len(h) - 1
  BY <1>1
<1> DEFINE hh == SubSeq(h, 1, n)
           pp == SubSeq(p, 1, n)
<1>3. /\ Len(hh) = n
      /\ \A i \in 1..n : hh[i] = h[i] /\ pp[i] = p[i] /\ i \in 1..Len(h) /\ i # Len(h)
  BY <1>1, <1>2
<1> SUFFICES ASSUME NEW i \in 1..n, NEW f \in Files \ m
             PROVE  IF hh[i][f] = Untouched
                    THEN Sees(IF i = n THEN p[Len(p)] ELSE pp[i + 1], f) \subseteq Sees(pp[i], f)
                    ELSE hh[i][f] \in Sees(pp[i], f)
  BY <1>2, <1>3 DEF Chain
<1>4. IF h[i][f] = Untouched
      THEN Sees(p[i + 1], f) \subseteq Sees(p[i], f)
      ELSE h[i][f] \in Sees(p[i], f)
  BY <1>3 DEF Chain
<1>5. p[i + 1] = IF i = n THEN p[Len(p)] ELSE pp[i + 1]
  BY <1>1, <1>2, <1>3
<1>6. hh[i] = h[i] /\ pp[i] = p[i]
  BY <1>3
<1> HIDE DEF hh, pp
<1> QED
  BY <1>4, <1>5, <1>6

\* What is in a record: the newest, or one that was there before.
LEMMA RecordedElement ==
    ASSUME NEW S, NEW h \in Seq(S), NEW batch \in S,
           Len(h) <= MaxUndoBatches, NEW i \in 1..Len(Recorded(h, batch))
    PROVE  \/ Recorded(h, batch)[i] = batch
           \/ \E j \in 1..Len(h) : Recorded(h, batch)[i] = h[j]
<1> DEFINE hh == Append(h, batch)
<1>1. hh \in Seq(S) /\ Len(h) \in Nat /\ Len(hh) = Len(h) + 1
  OBVIOUS
<1>2. MaxUndoBatches \in Nat /\ MaxUndoBatches > 0
  BY BoundTypes
<1>3. \A k \in 1..Len(hh) : hh[k] = IF k = Len(hh) THEN batch ELSE h[k]
  BY <1>1
<1>4. CASE Len(h) < MaxUndoBatches
  <2>1. Recorded(h, batch) = hh
    BY <1>1, <1>2, <1>4 DEF Recorded
  <2> HIDE DEF hh
  <2> QED
    BY <1>1, <1>3, <2>1
<1>5. CASE Len(h) = MaxUndoBatches
  <2>1. Recorded(h, batch) = SubSeq(hh, 2, Len(hh))
    BY <1>1, <1>2, <1>5 DEF Recorded
  <2>2. /\ Len(SubSeq(hh, 2, Len(hh))) = Len(hh) - 1
        /\ \A k \in 1..(Len(hh) - 1) : /\ SubSeq(hh, 2, Len(hh))[k] = hh[k + 1]
                                      /\ k + 1 \in 1..Len(hh)
    BY <1>1
  <2> HIDE DEF hh
  <2>3. i + 1 \in 1..Len(hh) /\ Recorded(h, batch)[i] = hh[i + 1]
    BY <1>1, <2>1, <2>2
  <2>4. i + 1 # Len(hh) => i + 1 \in 1..Len(h)
    BY <1>1, <2>3
  <2> QED
    BY <1>1, <1>3, <2>3, <2>4
<1> QED
  BY <1>1, <1>2, <1>4, <1>5

LEMMA ShorterElement ==
    ASSUME NEW S, NEW h \in Seq(S), Len(h) > 0,
           NEW i \in 1..Len(SubSeq(h, 1, Len(h) - 1))
    PROVE  i \in 1..Len(h) /\ SubSeq(h, 1, Len(h) - 1)[i] = h[i]
<1>1. PICK n \in Nat : n = Len(h) - 1 /\ Len(h) = n + 1
  OBVIOUS
<1> QED
  BY <1>1

\* Between calls, and during an undo, a file nobody meddled with is in step.
LEMMA FitsNow ==
    ASSUME FreshInv, drift \subseteq meddled,
           pc \in {"idle", "undo", "restore"}, NEW f \in Files \ meddled
    PROVE  Fits(Now, f)
<1>1. Agrees(f)
  BY DEF FreshInv
<1> QED
  BY <1>1 DEF Agrees, Fits, Now

\* A call that returns, in any way but after an undo, with no version of a
\* file that was not seen before it.
LEMMA Returned ==
    ASSUME UndoInv, pc' = "idle", outcome' # "undone",
           UNCHANGED <<history, past>>,
           drift' \subseteq meddled', meddled \subseteq meddled',
           \A f \in Files \ meddled' : Sees(Now, f)' \subseteq Sees(Before, f)
    PROVE  UndoInv'
<1>1. /\ Chain(history, past, Before, meddled)
      /\ \A f \in Files \ meddled : \A i \in 1..Len(past) : Fits(past[i], f)
  BY DEF UndoInv, Fitting
<1>2. Chain(history', past', Now', meddled')
  BY <1>1, ChainKept DEF Sees
<1>3. Before' = Now' /\ ~InBatch' /\ pc' # "restore" /\ ~Undone'
  BY DEF Before, InBatch, Undone, Ended
<1>4. Chain(history, past, Before, meddled)'
  BY <1>2, <1>3
<1>5. Fitting'
  BY <1>1, <1>3 DEF Fitting, Fits
<1>6. Returning'
  BY <1>3 DEF Returning, InBatch
<1> QED
  BY <1>4, <1>5, <1>6 DEF UndoInv

\* A step inside a call that leaves alone what the chain is about.
LEMMA ChainUnmoved ==
    ASSUME UndoInv, UNCHANGED <<history, past, meddled, Before>>,
           drift' \subseteq meddled', Fitting', Returning'
    PROVE  UndoInv'
  BY DEF UndoInv, Chain, Sees

LEMMA BeginUndoInv ==
    ASSUME TypeOK, FreshInv, UndoInv, NEW dry \in BOOLEAN, Begin(dry)
    PROVE  UndoInv'
<1>1. /\ pc = "idle" /\ pc' = "edit" /\ pre' = Now
      /\ UNCHANGED <<db, disk, history, past, goal, drift, meddled>>
  BY DEF Begin, Now, diskVars
<1>2. Before' = Before
  BY <1>1 DEF Before, InBatch, Now
<1>3. Fitting'
  <2>1. \A f \in Files \ meddled : Fits(pre', f)
    BY <1>1, FitsNow DEF UndoInv
  <2> QED
    BY <1>1, <2>1 DEF UndoInv, Fitting, Fits, InBatch, Undone, Ended
<1>4. Returning'
  BY <1>1 DEF Returning, Undone, Ended
<1> QED
  BY <1>1, <1>2, <1>3, <1>4, ChainUnmoved DEF UndoInv

LEMMA EditUndoInv ==
    ASSUME TypeOK, UndoInv, RollbackInv, DiskKept, Edit \/ EditsDone
    PROVE  UndoInv'
<1>1. /\ pc = "edit" /\ pc' \in {"edit", "preflight"}
      /\ UNCHANGED <<disk, history, past, pre, goal, meddled>>
      /\ drift' \subseteq drift
      /\ pc' = "preflight" => UNCHANGED <<db, originals>>
  <2>1. CASE EditsDone
    BY <2>1 DEF EditsDone, diskVars, batchVars, ghosts
  <2>2. CASE Edit
    <3>1. Editing
      BY <2>2 DEF Edit, Splice, Create, Delete, Move, RewriteAll, Preview
    <3>2. drift' \subseteq drift
      BY <2>2 DEF Edit, Splice, Create, Delete, Move, RewriteAll, Preview,
                  PullDrift
    <3> QED
      BY <3>1, <3>2 DEF Editing, diskVars
  <2> QED
    BY <2>1, <2>2
<1>2. Before' = Before
  BY <1>1 DEF Before, InBatch
<1>3. Fitting'
  BY <1>1 DEF UndoInv, Fitting, InBatch, Fits, Undone, Ended
<1>4. Returning'
  <2>1. CASE pc' = "edit"
    BY <2>1 DEF Returning, Undone, Ended
  <2>2. CASE pc' = "preflight"
    <3>1. ASSUME NEW f \in Files \ meddled
          PROVE  RolledBack(f) \in Sees(pre, f)
      <4>1. Kept(f, RolledBack(f)) /\ disk[f] = pre.disk[f]
        BY <1>1 DEF RollbackInv, DiskKept
      <4> QED
        BY <4>1 DEF Kept, Sees
    <3> QED
      BY <1>1, <2>2, <3>1 DEF Returning, RolledBack, Sees, Undone, Ended
  <2> QED
    BY <1>1, <2>1, <2>2
<1> QED
  BY <1>1, <1>2, <1>3, <1>4, ChainUnmoved DEF UndoInv

LEMMA AbortUndoInv ==
    ASSUME TypeOK, UndoInv, RollbackInv', DiskKept', EditFails \/ SymlinkEscape
    PROVE  UndoInv'
<1>1. /\ pc = "edit" /\ pc' = "idle" /\ outcome' = "rejected"
      /\ UNCHANGED <<disk, history, past, pre, meddled>>
      /\ drift' \subseteq drift
  BY DEF EditFails, SymlinkEscape, Abort, Return, PullDrift, diskVars
<1>2. ASSUME NEW f \in Files \ meddled
      PROVE  Sees(Now, f)' \subseteq Sees(Before, f)
  <2>1. disk'[f] = pre.disk[f]
    BY <1>1 DEF DiskKept, Ended
  <2>2. db'[f] = pre.db[f] \/ db'[f] = disk'[f]
    BY <1>1 DEF RollbackInv, RollbackRestores, Ended
  <2> QED
    BY <1>1, <2>1, <2>2 DEF Sees, Now, Before, InBatch
<1> QED
  BY <1>1, <1>2, Returned DEF UndoInv

\* A reconciliation shows of an untouched file what the batch found.
LEMMA ReconciledUndoInv ==
    ASSUME TypeOK, UndoInv, pc \in {"preflight", "commit"},
           NEW d \in [Files -> OnDisk], Reconcile(d), disk' = d,
           pc' = "idle", outcome' # "undone", UNCHANGED <<history, past>>,
           meddled \subseteq meddled',
           \A f \in Files \ meddled' : d[f] = pre.disk[f]
    PROVE  UndoInv'
<1>1. ASSUME NEW f \in Files \ meddled'
      PROVE  Sees(Now, f)' \subseteq Sees(Before, f)
  <2>1. f \notin meddled
    BY <1>1
  <2>2. disk'[f] = pre.disk[f] /\ Before = pre
    BY DEF Before, InBatch
  <2>3. db'[f] \in Sees(pre, f)
    <3>1. CASE originals[f] = Untouched
      BY <2>1, <3>1 DEF Reconcile, UndoInv, Returning, RolledBack
    <3>2. CASE originals[f] # Untouched /\ d[f] \in Texts
      BY <2>2, <3>2 DEF Reconcile, Sees
    <3>3. CASE originals[f] # Untouched /\ d[f] \notin Texts
      <4>1. db'[f] = Absent
        BY <3>3 DEF Reconcile
      <4>2. Fits(pre, f)
        BY <2>1 DEF UndoInv, Fitting, InBatch
      <4>3. pre.db[f] = Absent
        BY <2>2, <3>3, <4>2 DEF Fits, SameText
      <4> QED
        BY <4>1, <4>3 DEF Sees
    <3> QED
      BY <3>1, <3>2, <3>3
  <2> QED
    BY <2>2, <2>3 DEF Sees, Now
<1>2. drift' \subseteq meddled'
  BY DEF Reconcile, UndoInv
<1> QED
  BY <1>1, <1>2, Returned

LEMMA CommitStepUndoInv ==
    ASSUME TypeOK, UndoInv, DiskKept,
           \/ Preflight \/ DeleteOne \/ DeleteFails
           \/ \E f \in Files : WriteOne(f) \/ WriteFails(f)
    PROVE  UndoInv'
<1>1. ASSUME pc \in {"preflight", "commit"}, pc' = "commit",
             UNCHANGED <<db, history, originals, pre, past, goal, meddled>>,
             drift' \subseteq drift
      PROVE  UndoInv'
  <2>1. Before' = Before
    BY <1>1 DEF Before, InBatch
  <2>2. Fitting'
    BY <1>1 DEF UndoInv, Fitting, InBatch, Fits, Undone, Ended
  <2>3. Returning'
    BY <1>1 DEF UndoInv, Returning, RolledBack, Sees, Undone, Ended
  <2> QED
    BY <1>1, <2>1, <2>2, <2>3, ChainUnmoved DEF UndoInv
<1>2. CASE Preflight
  <2>1. CASE Keys(writes) \cap readonly # {}
    <3>1. /\ pc = "preflight" /\ Reconcile(disk) /\ disk' = disk
          /\ pc' = "idle" /\ outcome' = "refused"
          /\ UNCHANGED <<history, past, meddled>>
      BY <1>2, <2>1 DEF Preflight, Return, diskVars
    <3>2. disk \in [Files -> OnDisk]
      BY DEF TypeOK
    <3>3. \A f \in Files \ meddled' : disk[f] = pre.disk[f]
      BY <3>1 DEF DiskKept
    <3> QED
      BY <3>1, <3>2, <3>3, ReconciledUndoInv
  <2>2. CASE Keys(writes) \cap readonly = {}
    BY <1>1, <1>2, <2>2 DEF Preflight, diskVars, batchVars
  <2> QED
    BY <2>1, <2>2
<1>3. ASSUME NEW d \in [Files -> OnDisk], pc = "commit", CommitFails(d)
      PROVE  UndoInv'
  <2>1. /\ Reconcile(d) /\ disk' = d /\ pc' = "idle" /\ outcome' = "failed"
        /\ UNCHANGED <<history, past>>
        /\ meddled' = meddled \cup {f \in Files : d[f] # pre.disk[f]}
    BY <1>3 DEF CommitFails, Return
  <2> QED
    BY <1>3, <2>1, ReconciledUndoInv
<1>4. ASSUME NEW f \in Files, WriteOne(f) PROVE UndoInv'
  BY <1>1, <1>4 DEF WriteOne
<1>5. ASSUME NEW f \in Files, WriteFails(f) PROVE UndoInv'
  <2>1. /\ pc = "commit" /\ disk \in [Files -> OnDisk]
        /\ [disk EXCEPT ![f] = Truncated] \in [Files -> OnDisk]
    BY <1>5, ApplyAssumption DEF WriteFails, TypeOK, OnDisk, Versions
  <2> QED
    BY <1>3, <1>5, <2>1 DEF WriteFails
<1>6. CASE DeleteOne
  BY <1>1, <1>6 DEF DeleteOne, Deleting
<1>7. CASE DeleteFails
  BY <1>3, <1>7 DEF DeleteFails, Deleting, TypeOK
<1> QED
  BY <1>2, <1>4, <1>5, <1>6, <1>7

\* A committed batch adds the state it started from to the chain.
LEMMA CommitDoneUndoInv ==
    ASSUME TypeOK, UndoInv, CommitInv, CommitDone
    PROVE  UndoInv'
<1>1. /\ pc = "commit" /\ pc' = "idle" /\ outcome' = "ok"
      /\ UNCHANGED <<disk, db, pre, drift, meddled>>
  BY DEF CommitDone, Return, diskVars
<1>2. /\ Before = pre /\ Before' = Now' /\ Now' = Now
      /\ ~InBatch' /\ pc' # "restore" /\ ~Undone'
  BY <1>1 DEF Before, InBatch, Undone, Ended, Now
<1>3. ASSUME NEW f \in Files \ meddled
      PROVE  IF originals[f] = Untouched
             THEN Sees(Now, f) \subseteq Sees(pre, f)
             ELSE originals[f] \in Sees(pre, f)
  <2>1. RolledBack(f) \in Sees(pre, f)
    BY <1>1 DEF UndoInv, Returning
  <2>2. originals[f] = Untouched => disk[f] = pre.disk[f]
    BY <1>1 DEF CommitInv
  <2> QED
    BY <2>1, <2>2 DEF RolledBack, Sees, Now
<1>4. Returning'
  BY <1>1, <1>2 DEF Returning
<1>5. CASE Keys(originals) = {}
  <2>1. UNCHANGED <<history, past>>
    BY <1>5 DEF CommitDone
  <2>2. ASSUME NEW f \in Files \ meddled'
        PROVE  Sees(Now, f)' \subseteq Sees(Before, f)
    BY <1>1, <1>2, <1>3, <1>5, <2>2 DEF Keys, Sees
  <2> QED
    BY <1>1, <2>1, <2>2, Returned DEF UndoInv
<1>6. CASE Keys(originals) # {}
  <2>1. history' = Recorded(history, originals)
        /\ past' = Recorded(past, pre)
    BY <1>6 DEF CommitDone
  <2>2. /\ history \in Seq(Maps) /\ past \in Seq(Snapshots)
        /\ Len(history) <= MaxUndoBatches /\ Len(past) = Len(history)
        /\ originals \in Maps /\ pre \in Snapshots
    BY DEF TypeOK
  <2>3. Chain(history, past, pre, meddled)
    BY <1>2 DEF UndoInv
  <2>4. Chain(history', past', Now, meddled)
    BY <1>3, <2>1, <2>2, <2>3, ChainRecorded
  <2>5. Chain(history, past, Before, meddled)'
    BY <1>1, <1>2, <2>4
  <2>6. ASSUME NEW f \in Files \ meddled, NEW i \in 1..Len(past')
        PROVE  Fits(past'[i], f)
    <3>1. \/ past'[i] = pre
          \/ \E j \in 1..Len(past) : past'[i] = past[j]
      BY <2>1, <2>2, RecordedElement
    <3>2. Fits(pre, f)
      BY <1>1 DEF UndoInv, Fitting, InBatch
    <3>3. \A j \in 1..Len(past) : Fits(past[j], f)
      BY DEF UndoInv, Fitting
    <3> QED
      BY <3>1, <3>2, <3>3
  <2>7. Fitting'
    BY <1>1, <1>2, <2>6 DEF Fitting, Fits
  <2> QED
    BY <1>1, <1>4, <2>5, <2>7 DEF UndoInv
<1> QED
  BY <1>5, <1>6

LEMMA PopUndoInv ==
    ASSUME TypeOK, UndoInv, UndoPop
    PROVE  UndoInv'
<1>1. /\ pc = "undo" /\ pc' = "restore" /\ history # <<>>
      /\ UNCHANGED <<db, disk, drift, meddled>>
      /\ restore' = history[Len(history)]
      /\ goal' = past[Len(past)]
      /\ history' = SubSeq(history, 1, Len(history) - 1)
      /\ past' = SubSeq(past, 1, Len(past) - 1)
  BY DEF UndoPop, Newest, diskVars
<1>2. /\ history \in Seq(Maps) /\ past \in Seq(Snapshots)
      /\ Len(past) = Len(history)
  BY DEF TypeOK
<1>3. Len(history) \in Nat /\ Len(history) > 0
  BY <1>1, <1>2, EmptySeq
<1>4. Before = Now /\ Before' = goal' /\ ~InBatch'
  BY <1>1 DEF Before, InBatch
<1>5. Chain(history, past, Now, meddled)
  BY <1>4 DEF UndoInv
<1>6. Chain(history', past', goal', meddled)
  BY <1>1, <1>2, <1>5, ChainPopped
<1>7. ASSUME NEW f \in Files \ meddled
      PROVE  /\ Fits(goal', f)
             /\ \A i \in 1..Len(past') : Fits(past'[i], f)
             /\ IF restore'[f] = Untouched
                THEN Sees(Now, f) \subseteq Sees(goal', f)
                ELSE restore'[f] \in Sees(goal', f)
  <2>1. \A i \in 1..Len(past) : Fits(past[i], f)
    BY DEF UndoInv, Fitting
  <2>2. Len(past) \in 1..Len(past) /\ Len(history) = Len(past)
    BY <1>2, <1>3
  <2>3. \A i \in 1..Len(past') : i \in 1..Len(past) /\ past'[i] = past[i]
    BY <1>1, <1>2, <1>3, ShorterElement
  <2>4. LET i == Len(history) IN
        IF history[i][f] = Untouched
        THEN Sees(IF i = Len(history) THEN Now ELSE past[i + 1], f)
                 \subseteq Sees(past[i], f)
        ELSE history[i][f] \in Sees(past[i], f)
    BY <1>5, <2>2 DEF Chain
  <2>5. Fits(goal', f)
    BY <1>1, <2>1, <2>2
  <2>6. \A i \in 1..Len(past') : Fits(past'[i], f)
    BY <2>1, <2>3
  <2>7. IF restore'[f] = Untouched
        THEN Sees(Now, f) \subseteq Sees(goal', f)
        ELSE restore'[f] \in Sees(goal', f)
    BY <1>1, <1>2, <2>4
  <2> QED
    BY <2>5, <2>6, <2>7
<1>8. Chain(history, past, Before, meddled)'
  BY <1>1, <1>4, <1>6
<1>9. Fitting'
  BY <1>1, <1>4, <1>7 DEF Fitting, Fits, Undone, Ended
<1>10. Returning'
  BY <1>1, <1>7 DEF Returning, Sees, Now, Undone, Ended
<1> QED
  BY <1>1, <1>8, <1>9, <1>10 DEF UndoInv

LEMMA RestoreUndoInv ==
    ASSUME TypeOK, UndoInv, NEW f \in Files,
           RestoreOne(f) \/ RemoveFails(f) \/ RestoreFails(f)
    PROVE  UndoInv'
<1>1. Before = goal
  BY DEF Before, InBatch, RestoreOne, RemoveFails, RestoreFails
<1>2. ASSUME pc = "restore", pc' = "restore",
             UNCHANGED <<history, past, goal>>,
             drift' \subseteq meddled', meddled \subseteq meddled',
             restore'[f] = Untouched,
             f \in meddled' \/ Sees(Now, f)' \subseteq Sees(goal, f),
             \A g \in Files \ {f} : /\ restore'[g] = restore[g]
                                   /\ disk'[g] = disk[g] /\ db'[g] = db[g]
      PROVE  UndoInv'
  <2>1. Before' = Before /\ ~InBatch' /\ ~Undone'
    BY <1>2 DEF Before, InBatch, Undone, Ended
  <2>2. Chain(history, past, Before, meddled)'
    <3>1. Chain(history, past, goal, meddled')
      BY <1>1, <1>2, ChainKept DEF UndoInv
    <3> QED
      BY <1>1, <1>2, <2>1, <3>1
  <2>3. Fitting'
    BY <1>2, <2>1 DEF UndoInv, Fitting, Fits
  <2>4. Returning'
    <3>1. ASSUME NEW g \in Files \ meddled'
          PROVE  IF restore'[g] = Untouched
                 THEN Sees(Now, g)' \subseteq Sees(goal, g)
                 ELSE restore'[g] \in Sees(goal, g)
      <4>1. CASE g = f
        BY <1>2, <3>1, <4>1
      <4>2. CASE g # f
        <5>1. IF restore[g] = Untouched
              THEN Sees(Now, g) \subseteq Sees(goal, g)
              ELSE restore[g] \in Sees(goal, g)
          BY <1>2, <3>1 DEF UndoInv, Returning
        <5> QED
          BY <1>2, <4>2, <5>1 DEF Sees, Now
      <4> QED
        BY <4>1, <4>2
    <3> QED
      BY <1>2, <2>1, <3>1 DEF Returning, Sees
  <2> QED
    BY <1>2, <2>2, <2>3, <2>4 DEF UndoInv
<1>3. CASE RestoreOne(f)
  <2>1. /\ pc = "restore" /\ pc' = "restore" /\ restore[f] # Untouched
        /\ disk'[f] = restore[f] /\ db'[f] = restore[f]
        /\ restore'[f] = Untouched /\ drift' = drift \ {f}
        /\ UNCHANGED <<history, past, goal, meddled>>
        /\ \A g \in Files \ {f} : /\ restore'[g] = restore[g]
                                 /\ disk'[g] = disk[g] /\ db'[g] = db[g]
    BY <1>3 DEF RestoreOne, TypeOK, Maps
  <2>2. f \in meddled' \/ restore[f] \in Sees(goal, f)
    BY <2>1 DEF UndoInv, Returning
  <2>3. f \in meddled' \/ Sees(Now, f)' \subseteq Sees(goal, f)
    BY <2>1, <2>2 DEF Sees, Now
  <2> QED
    BY <1>2, <2>1, <2>3 DEF UndoInv
<1>4. CASE RemoveFails(f)
  <2>1. /\ pc = "restore" /\ pc' = "restore" /\ restore'[f] = Untouched
        /\ UNCHANGED <<disk, history, past, goal>>
        /\ drift' = drift \cup {f} /\ meddled' = meddled \cup {f}
        /\ \A g \in Files \ {f} : restore'[g] = restore[g] /\ db'[g] = db[g]
    BY <1>4 DEF RemoveFails, TypeOK, Maps, diskVars
  <2> QED
    BY <1>2, <2>1 DEF UndoInv
<1>5. CASE RestoreFails(f)
  <2>1. /\ pc = "restore" /\ pc' = "idle" /\ outcome' # "undone"
        /\ UNCHANGED <<db, history, past>>
        /\ drift' \subseteq drift \cup {f}
        /\ meddled' = meddled \cup Keys(restore) /\ f \in Keys(restore)
        /\ \A g \in Files \ {f} : disk'[g] = disk[g]
    BY <1>5, ApplyAssumption DEF RestoreFails, Return, Keys, TypeOK
  <2>2. ASSUME NEW g \in Files \ meddled'
        PROVE  Sees(Now, g)' \subseteq Sees(Before, g)
    <3>1. g \notin meddled /\ restore[g] = Untouched /\ g # f
      BY <2>1, <2>2 DEF Keys
    <3>2. Sees(Now, g) \subseteq Sees(goal, g)
      BY <2>1, <3>1 DEF UndoInv, Returning
    <3> QED
      BY <1>1, <2>1, <3>1, <3>2 DEF Sees, Now
  <2> QED
    BY <2>1, <2>2, Returned DEF UndoInv
<1> QED
  BY <1>3, <1>4, <1>5

LEMMA UndoUndoInv ==
    ASSUME TypeOK, UndoInv, Undo
    PROVE  UndoInv'
<1>1. ASSUME pc \in {"idle", "undo", "restore"}, pc' \in {"idle", "undo"},
             UNCHANGED <<db, disk, history, past, goal, drift, meddled>>,
             pc = "restore" => Keys(restore) = {},
             Undone' => Undone \/ pc = "restore"
      PROVE  UndoInv'
  <2>1. Before' = Now' /\ Now' = Now /\ ~InBatch'
    BY <1>1 DEF Before, InBatch, Now
  <2>2. ASSUME NEW f \in Files \ meddled
        PROVE  /\ Sees(Now, f) \subseteq Sees(Before, f)
               /\ Undone' => Sees(Now, f) \subseteq Sees(goal, f)
    <3>1. CASE pc = "restore"
      <4>1. Before = goal
        BY <3>1 DEF Before, InBatch
      <4>2. restore[f] = Untouched
        BY <1>1, <3>1 DEF Keys
      <4>3. Sees(Now, f) \subseteq Sees(goal, f)
        BY <3>1, <4>2 DEF UndoInv, Returning
      <4> QED
        BY <4>1, <4>3
    <3>2. CASE pc # "restore"
      <4>1. Before = Now
        BY <1>1, <3>2 DEF Before, InBatch
      <4>2. Undone => Sees(Now, f) \subseteq Sees(goal, f)
        BY DEF UndoInv, Returning
      <4> QED
        BY <1>1, <3>2, <4>1, <4>2
    <3> QED
      BY <3>1, <3>2
  <2>3. Chain(history, past, Now, meddled)
    BY <2>2, ChainKept DEF UndoInv
  <2>4. Chain(history, past, Before, meddled)'
    BY <1>1, <2>1, <2>3
  <2>5. Fitting'
    BY <1>1, <2>1 DEF UndoInv, Fitting, Fits
  <2>6. Returning'
    BY <1>1, <2>1, <2>2 DEF Returning, Sees
  <2> QED
    BY <1>1, <2>4, <2>5, <2>6 DEF UndoInv
<1>2. ASSUME NEW n \in 1..MaxUndoRequest, BeginUndo(n) PROVE UndoInv'
  <2>1. ~Undone'
    BY <1>2 DEF BeginUndo, Undone, Ended
  <2> QED
    BY <1>1, <1>2, <2>1 DEF BeginUndo, diskVars
<1>3. CASE UndoRefused
  <2>1. ~Undone'
    BY <1>3 DEF UndoRefused, Return, Undone, Ended
  <2> QED
    BY <1>1, <1>3, <2>1 DEF UndoRefused, Return, diskVars, ghosts
<1>4. CASE UndoDone
  <2>1. pc = "undo" /\ (outcome' = "undone" => reverted # 0)
    BY <1>4 DEF UndoDone, Return
  <2>2. reverted # 0 => reverted > 0
    <3>1. reverted \in 0..MaxUndoRequest /\ MaxUndoRequest \in Nat
      BY BoundTypes DEF TypeOK
    <3> QED
      BY <3>1
  <2>3. pc' = "idle"
    BY <1>4 DEF UndoDone, Return
  <2>4. Undone' => Undone
    BY <2>1, <2>2, <2>3 DEF Undone, Ended
  <2> QED
    BY <1>1, <1>4, <2>4 DEF UndoDone, Return, diskVars, ghosts
<1>5. CASE BatchReverted
  BY <1>1, <1>5 DEF BatchReverted, diskVars, ghosts
<1> QED
  BY <1>2, <1>3, <1>4, <1>5, PopUndoInv, RestoreUndoInv DEF Undo

\* What another program changes is no longer spoken of.
LEMMA EnvironmentUndoInv ==
    ASSUME TypeOK, UndoInv, Environment \/ UNCHANGED vars
    PROVE  UndoInv'
<1>1. CASE Restart
  <2>1. /\ pc' = "idle" /\ outcome' = "restarted" /\ drift' = {}
        /\ history' = <<>> /\ past' = <<>>
    BY <1>1 DEF Restart, Return
  <2>2. Len(history') = 0 /\ Len(past') = 0 /\ 1..0 = {}
    BY <2>1, EmptySeq
  <2>3. ~InBatch' /\ pc' # "restore" /\ ~Undone'
    BY <2>1 DEF InBatch, Undone, Ended
  <2>4. Chain(history, past, Before, meddled)'
    BY <2>2 DEF Chain
  <2>5. Fitting' /\ Returning'
    BY <2>1, <2>2, <2>3 DEF Fitting, Returning
  <2> QED
    BY <2>1, <2>4, <2>5 DEF UndoInv
<1>2. ASSUME UNCHANGED <<db, history, pc, originals, reverted, restore,
                         outcome, pre, past, goal>>,
             drift' \subseteq meddled', meddled \subseteq meddled',
             \A g \in Files \ meddled' : disk'[g] = disk[g]
      PROVE  UndoInv'
  <2>1. (InBatch' <=> InBatch) /\ (Undone' <=> Undone)
    BY <1>2 DEF InBatch, Undone, Ended
  <2>2. ASSUME NEW f \in Files \ meddled'
        PROVE  /\ Sees(Now, f)' = Sees(Now, f)
               /\ Sees(Before, f)' \subseteq Sees(Before, f)
    BY <1>2, <2>1 DEF Sees, Now, Before
  <2>3. Chain(history, past, Before, meddled)
    BY DEF UndoInv
  <2>4. Chain(history, past, Before', meddled')
    BY <1>2, <2>2, <2>3, ChainKept DEF Sees
  <2>5. Chain(history, past, Before, meddled)'
    BY <1>2, <2>4
  <2>6. Fitting'
    BY <1>2, <2>1 DEF UndoInv, Fitting, Fits
  <2>7. Returning'
    BY <1>2, <2>1, <2>2 DEF UndoInv, Returning, RolledBack, Sees
  <2> QED
    BY <1>2, <2>5, <2>6, <2>7 DEF UndoInv
<1>3. ASSUME NEW f \in Files, NEW v \in OnDisk, ExternalWrite(f, v)
      PROVE  UndoInv'
  BY <1>2, <1>3 DEF ExternalWrite, TypeOK, UndoInv, batchVars, undoVars
<1>4. CASE (\E f \in Files : Chmod(f)) \/ UNCHANGED vars
  BY <1>2, <1>4 DEF Chmod, vars, UndoInv, diskVars, batchVars, undoVars, ghosts
<1> QED
  BY <1>1, <1>3, <1>4 DEF Environment

LEMMA StepUndo ==
    ASSUME TypeOK, FreshInv, UndoInv, DiskKept, DiskKept',
           RollbackInv, RollbackInv', CommitInv, [Next]_vars
    PROVE  UndoInv'
  BY BeginUndoInv, EditUndoInv, AbortUndoInv, CommitStepUndoInv,
     CommitDoneUndoInv, UndoUndoInv, EnvironmentUndoInv DEF Next, Batch

LEMMA InitUndo == Init => UndoInv
<1> SUFFICES ASSUME Init PROVE UndoInv
  OBVIOUS
<1>1. /\ pc = "idle" /\ outcome = "none" /\ drift = {}
      /\ history = <<>> /\ past = <<>>
  BY DEF Init, InitState
<1>2. Len(history) = 0 /\ Len(past) = 0 /\ 1..0 = {}
  BY <1>1, EmptySeq
<1>3. Chain(history, past, Before, meddled)
  BY <1>2 DEF Chain
<1>4. Fitting /\ Returning
  BY <1>1, <1>2 DEF Fitting, Returning, InBatch, Undone, Ended
<1> QED
  BY <1>1, <1>3, <1>4 DEF UndoInv

\* An undo of n batches gives every file that was in step with the core what
\* it had before the n-th newest of them, whatever calls failed in between and
\* however many records the history dropped; provided that no batch writes a
\* path it deleted before.
THEOREM UndosRestore ==
    ASSUME ~Recreates
    PROVE  Spec => []UndoRestores
<1>1. TInv => TypeOK
  BY DEF TInv
<1>2. Init => CommitInv /\ RollbackInv
  BY DEF Init, InitState, CommitInv, CommitIsUndoable, RollbackInv,
         RollbackRestores, Ended
<1>3. TypeOK /\ FreshInv /\ [Next]_vars => FreshInv'
  BY StepFresh
<1>4. TypeOK /\ CommitInv /\ [Next]_vars => CommitInv'
  BY StepCommit
<1>5. TypeOK /\ FreshInv /\ UndoInv /\ DiskKept /\ DiskKept' /\ RollbackInv
        /\ RollbackInv' /\ CommitInv /\ [Next]_vars => UndoInv'
  BY StepUndo
<1>6. UndoInv => UndoRestores
  <2> SUFFICES ASSUME UndoInv, Ended("undone"), NEW f \in Files \ meddled
               PROVE  /\ goal.db[f] = goal.disk[f] => disk[f] = goal.disk[f]
                      /\ \/ db[f] = goal.db[f] \/ SameText(db[f], goal.db[f])
                         \/ goal.db[f] = Absent /\ db[f] = goal.disk[f]
    BY DEF UndoRestores
  <2>1. Fits(goal, f) /\ Sees(Now, f) \subseteq Sees(goal, f)
    BY DEF UndoInv, Fitting, Returning, Undone
  <2>2. /\ disk[f] \in {goal.db[f], goal.disk[f]}
        /\ db[f] \in {goal.db[f], goal.disk[f]}
    BY <2>1 DEF Sees, Now
  <2> QED
    BY <2>1, <2>2 DEF Fits, SameText
<1> QED
  BY <1>1, <1>2, <1>3, <1>4, <1>5, <1>6, InitTypes, StepTypes, InitFresh,
     InitDiskKept, StepDiskKept, StepRollback, InitUndo, PTL DEF Spec

=============================================================================
