---------------------------- MODULE Watcher_proofs ----------------------------
(***************************************************************************)
(* Proofs about Watcher: types, and that the core is fresh at rest, for    *)
(* any files, texts, batches, external steps and lost events.              *)
(*                                                                         *)
(* While a notification, a read, a signal or a settling worker is pending, *)
(* a walk is still to come and nothing need hold.  Otherwise every file is *)
(* in one of two states: in step with the disk, or changed by the running  *)
(* batch, which has a snapshot of what is on disk and an operation to do.  *)
(***************************************************************************)
EXTENDS Watcher, Apply_proofs

WatchTyped ==
    /\ TInv
    /\ watching \in BOOLEAN /\ signalled \in BOOLEAN
    /\ events \subseteq Files /\ unvisited \subseteq Files
    /\ unseen \subseteq Files
    /\ held = NoRead \/ held \in [path : Files, text : Texts]
    /\ rescan \in {"wait", "settle", "walk", "purge"}

\* What the core should have for f.
OnIndex(f) == IF disk[f] \in Texts THEN disk[f] ELSE Absent

\* A walk is still to come.
InFlight == events # {} \/ held # NoRead \/ signalled \/ rescan = "settle"

Locked ==
    /\ ~watching => ~InFlight /\ rescan = "wait"
    /\ rescan \in {"walk", "purge"} => pc = "idle"
    /\ rescan = "purge" => unvisited = {}

\* A file nothing is pending for.
Settled(f) ==
    IF pc \in {"edit", "preflight", "commit"}
    THEN IF originals[f] = Untouched
         THEN Reconciled(f) /\ writes[f] = Untouched /\ f \notin Deleted
         ELSE originals[f] = OnIndex(f) /\ (writes[f] # Untouched \/ f \in Deleted)
    ELSE Reconciled(f)

SettledAtRest ==
    ~InFlight =>
        \A f \in Files \ Ignored :
            disk[f] # Binary =>
                /\ rescan = "wait" /\ f \notin unseen => Settled(f)
                /\ rescan \in {"walk", "purge"} /\ f \notin unvisited /\ disk[f] \in Texts
                       => Reconciled(f)

-----------------------------------------------------------------------------
(* Types. *)

LEMMA StoredTypes ==
    ASSUME TInv, NEW f \in Files, NEW v \in Versions, Stored(f, v), UNCHANGED coreOnly
    PROVE  TInv'
<1>1. db' \in [Files -> Versions] /\ drift' \subseteq Files
  BY DEF Stored, TInv, TypeOK
<1> QED
  BY <1>1 DEF TInv, TypeOK, UndoCount, coreOnly, diskVars, batchVars, undoVars, bounds

LEMMA WatchInitTypes == WatchInit => WatchTyped
BY InitTypes DEF WatchInit, WatchTyped

LEMMA WatchStepTypes == WatchTyped /\ [WatchNext]_allVars => WatchTyped'
<1> SUFFICES ASSUME WatchTyped, [WatchNext]_allVars
             PROVE  WatchTyped'
  OBVIOUS
<1>1. TInv /\ disk \in [Files -> OnDisk] /\ db \in [Files -> Versions] /\ drift \subseteq Files
  BY DEF WatchTyped, TInv, TypeOK
<1>2. UNCHANGED vars => TInv'
  BY <1>1, StepTypes
<1>3. CASE StartWatch
  BY <1>2, <1>3 DEF StartWatch, WatchTyped
<1>4. ASSUME NEW f \in Files, ReadPath(f) \/ SkipPath(f) \/ LoseEvent(f)
      PROVE  WatchTyped'
  <2>1. TInv'
    BY <1>2, <1>4 DEF ReadPath, SkipPath, LoseEvent
  <2>2. held' = NoRead \/ held' \in [path : Files, text : Texts]
    BY <1>4 DEF ReadPath, SkipPath, LoseEvent, WatchTyped
  <2>3. /\ UNCHANGED <<watching, rescan, unvisited, unseen>>
        /\ events' \subseteq events
        /\ signalled' \in {signalled, TRUE}
    BY <1>4 DEF ReadPath, SkipPath, LoseEvent
  <2> QED
    BY <2>1, <2>2, <2>3 DEF WatchTyped
<1>5. CASE StoreRead
  <2>1. held.path \in Files /\ held.text \in Versions
    BY <1>5 DEF StoreRead, WatchTyped, Versions
  <2>2. TInv'
    BY <1>1, <1>5, <2>1, StoredTypes DEF StoreRead
  <2> QED
    BY <1>5, <2>2 DEF StoreRead, WatchTyped
<1>6. CASE Wake \/ Drain \/ BeginWalk \/ WalkDone
  BY <1>2, <1>6 DEF Wake, Drain, BeginWalk, WalkDone, WatchTyped
<1>7. CASE Purge
  <2>1. db' \in [Files -> Versions] /\ drift' \subseteq Files
    BY <1>1, <1>7 DEF Purge, Versions
  <2>2. TInv'
    BY <1>1, <1>7, <2>1
       DEF Purge, TInv, TypeOK, UndoCount, coreOnly, diskVars, batchVars, undoVars, bounds
  <2> QED
    BY <1>7, <2>2 DEF Purge, WatchTyped
<1>8. ASSUME NEW f \in Files, VisitFile(f)
      PROVE  WatchTyped'
  <2>1. CASE disk[f] \in Texts /\ f \notin Ignored
    <3>1. TInv'
      BY <1>1, <1>8, <2>1, StoredTypes DEF VisitFile, Versions
    <3> QED
      BY <1>8, <3>1 DEF VisitFile, WatchTyped
  <2>2. CASE ~(disk[f] \in Texts /\ f \notin Ignored)
    <3>1. UNCHANGED vars
      BY <1>8, <2>2 DEF VisitFile, coreOnly, vars, ghosts
    <3> QED
      BY <1>2, <1>8, <3>1 DEF VisitFile, WatchTyped
  <2> QED
    BY <2>1, <2>2
<1>9. CASE ApplyStep \/ ExternalStep
  <2>1. TInv'
    BY <1>1, <1>9, StepTypes DEF ApplyStep, ExternalStep, Next, Environment
  <2>2. Notify
    BY <1>9 DEF ApplyStep, ExternalStep
  <2> QED
    BY <2>1, <2>2 DEF Notify, Touched, WatchTyped
<1>10. CASE UNCHANGED allVars
  BY <1>2, <1>10 DEF allVars, watchVars, WatchTyped
<1> QED
  BY <1>3, <1>4, <1>5, <1>6, <1>7, <1>8, <1>9, <1>10 DEF WatchNext, CallbackStep, WorkerStep

\* The watcher and the write path together keep every variable within its
\* type: what a thread stores is a text of a path.
THEOREM WatcherTyped == WatchSpec => []WatchTypeOK
<1>1. WatchTyped => WatchTypeOK
  BY DEF WatchTyped, TInv, WatchTypeOK
<1> QED
  BY <1>1, WatchInitTypes, WatchStepTypes, PTL DEF WatchSpec

-----------------------------------------------------------------------------
(* The write path on a file it leaves alone on disk. *)

LEMMA PulledSettled ==
    ASSUME TypeOK, NEW f \in Files, NEW g \in Files, Reconciled(f)
    PROVE  Pulled(g)[f] = db[f]
BY ApplyAssumption DEF Pulled, TypeOK, Reconciled

LEMMA StageSettled ==
    ASSUME TypeOK, NEW core \in [Files -> Versions], NEW fs \in SUBSET Files,
           NEW new \in [fs -> Texts], Stage(core, fs, new),
           NEW f \in Files, UNCHANGED disk,
           pc = "edit", pc' = "edit", Settled(f),
           Reconciled(f) => core[f] = db[f]
    PROVE  Settled(f)'
<1>1. Reconciled(f) => db[f] = OnIndex(f) /\ db[f] # Untouched
  BY ApplyAssumption DEF Reconciled, OnIndex, TypeOK, Versions
<1>2. OnIndex(f)' = OnIndex(f) /\ deletes' = deletes
  BY DEF OnIndex, Stage
<1>3. CASE f \in fs
  <2>1. writes'[f] = new[f] /\ new[f] # Untouched
    BY <1>3, ApplyAssumption DEF Stage
  <2>2. originals'[f] = IF originals[f] = Untouched THEN core[f] ELSE originals[f]
    BY <1>3 DEF Stage, Snapshot, TypeOK, Maps
  <2>3. originals'[f] = OnIndex(f) /\ originals'[f] # Untouched
    BY <1>1, <2>2 DEF Settled
  <2> QED
    BY <1>2, <2>1, <2>3 DEF Settled
<1>4. CASE f \notin fs
  <2>1. originals'[f] = originals[f] /\ writes'[f] = writes[f] /\ db'[f] = core[f]
    BY <1>4 DEF Stage
  <2>2. Deleted' = Deleted
    BY <1>2 DEF Deleted
  <2> QED
    BY <1>2, <2>1, <2>2 DEF Settled, Reconciled, OnIndex
<1> QED
  BY <1>3, <1>4

LEMMA EditSettled ==
    ASSUME TypeOK, Edit, NEW f \in Files, Settled(f)
    PROVE  Settled(f)'
<1>1. pc = "edit" /\ pc' = "edit" /\ UNCHANGED disk
  BY DEF Edit, Splice, Create, Delete, Move, RewriteAll, Preview, Editing, diskVars
<1>2. db \in [Files -> Versions] /\ originals \in Maps
  BY DEF TypeOK
<1>3. ASSUME NEW g \in Files, NEW t \in Texts, Splice(g, t) PROVE Settled(f)'
  BY <1>1, <1>3, PulledSettled, PulledType, StageSettled DEF Splice
<1>4. ASSUME NEW g \in Files, NEW t \in Texts, Create(g, t) PROVE Settled(f)'
  BY <1>1, <1>2, <1>4, StageSettled DEF Create
<1>5. ASSUME NEW g \in Files, NEW h \in Files, NEW s \in Texts, NEW t \in Texts,
             Move(g, h, s, t)
      PROVE  Settled(f)'
  BY <1>1, <1>2, <1>5, StageSettled DEF Move
<1>6. ASSUME NEW fs \in SUBSET Files, NEW t \in Texts, RewriteAll(fs, t)
      PROVE  Settled(f)'
  BY <1>1, <1>2, <1>6, StageSettled DEF RewriteAll
<1>7. ASSUME NEW g \in Files, Delete(g) PROVE Settled(f)'
  <2>1. /\ writes' = writes
        /\ Deleted' = Deleted \cup {g}
    BY <1>7, DeletedAppend DEF Delete, TypeOK
  <2>2. CASE g = f
    <3>1. originals'[f] # Untouched /\ originals'[f] = OnIndex(f)
      BY <1>2, <1>1, <1>7, <2>2, ApplyAssumption
         DEF Delete, Snapshot, Settled, Reconciled, OnIndex, Maps, Versions
    <3> QED
      BY <1>1, <2>1, <2>2, <3>1 DEF Settled, OnIndex
  <2>3. CASE g # f
    <3>1. originals'[f] = originals[f] /\ db'[f] = db[f]
      BY <1>2, <1>7, <2>3 DEF Delete, Snapshot, Maps
    <3> QED
      BY <1>1, <2>1, <2>3, <3>1 DEF Settled, OnIndex, Reconciled
  <2> QED
    BY <2>2, <2>3
<1>8. ASSUME NEW g \in Files, Preview(g) PROVE Settled(f)'
  <2>1. UNCHANGED <<originals, writes, deletes>> /\ db' \in {db, Pulled(g)}
    BY <1>8 DEF Preview
  <2>2. Reconciled(f) => db'[f] = db[f]
    BY <2>1, PulledSettled
  <2> QED
    BY <1>1, <2>1, <2>2 DEF Settled, OnIndex, Reconciled, Deleted
<1> QED
  BY <1>3, <1>4, <1>5, <1>6, <1>7, <1>8 DEF Edit

\* The rollback gives every file what is on disk.
LEMMA AbortSettled ==
    ASSUME TypeOK, NEW core, Abort(core), UNCHANGED disk, NEW f \in Files,
           pc = "edit", Settled(f), Reconciled(f) => core[f] = db[f]
    PROVE  Settled(f)'
<1>1. pc' = "idle" /\ db'[f] = IF originals[f] = Untouched THEN core[f] ELSE originals[f]
  BY DEF Abort, Return
<1> QED
  BY <1>1 DEF Settled, Reconciled, OnIndex

LEMMA ReconcileSettled ==
    ASSUME TypeOK, Reconcile(disk'), NEW f \in Files, disk'[f] = disk[f], pc' = "idle",
           pc \in {"edit", "preflight", "commit"}, Settled(f)
    PROVE  Settled(f)'
<1>1. db'[f] = IF originals[f] = Untouched THEN db[f]
               ELSE IF disk'[f] \in Texts THEN disk'[f] ELSE Absent
  BY DEF Reconcile
<1> QED
  BY <1>1 DEF Settled, Reconciled, OnIndex

\* A step of a call leaves a file settled that it does not touch on disk.
LEMMA CallSettled ==
    ASSUME TInv, MaxFaults = 0, faults = 0, Batch \/ Undo,
           NEW f \in Files, f \notin Touched, disk[f] # Binary, Settled(f)
    PROVE  Settled(f)'
<1>1. TypeOK /\ disk'[f] = disk[f] /\ (pc = "commit" => writes'[f] = writes[f])
  BY DEF TInv, Touched
<1>2. ASSUME NEW dry \in BOOLEAN, Begin(dry) PROVE Settled(f)'
  <2>1. pc = "idle" /\ pc' = "edit" /\ db' = db /\ originals'[f] = Untouched
        /\ writes'[f] = Untouched /\ deletes' = <<>>
    BY <1>2 DEF Begin, Nothing
  <2>2. f \notin Deleted'
    BY <2>1 DEF Deleted
  <2> QED
    BY <1>1, <2>1, <2>2 DEF Settled, Reconciled
<1>3. CASE Edit
  BY <1>1, <1>3, EditSettled
<1>4. CASE EditFails
  <2>1. UNCHANGED disk /\ pc = "edit"
    BY <1>4 DEF EditFails, Abort, diskVars
  <2>2. CASE Abort(db)
    BY <1>1, <2>1, <2>2, AbortSettled
  <2>3. ASSUME NEW g \in Files, Abort(Pulled(g)) PROVE Settled(f)'
    BY <1>1, <2>1, <2>3, PulledSettled, AbortSettled
  <2> QED
    BY <1>4, <2>2, <2>3 DEF EditFails
<1>5. CASE SymlinkEscape
  BY <1>1, <1>5, AbortSettled DEF SymlinkEscape, Abort, diskVars
<1>6. CASE EditsDone
  BY <1>1, <1>6 DEF EditsDone, Settled, Reconciled, OnIndex, Deleted, batchVars, diskVars
<1>7. CASE Preflight
  <2>1. pc = "preflight" /\ UNCHANGED <<disk, batchVars>>
    BY <1>7 DEF Preflight, diskVars
  <2>2. CASE Keys(writes) \cap readonly # {}
    BY <1>1, <1>7, <2>1, <2>2, ReconcileSettled DEF Preflight, Return
  <2>3. CASE Keys(writes) \cap readonly = {}
    BY <1>1, <1>7, <2>1, <2>3
       DEF Preflight, Settled, Reconciled, OnIndex, Deleted, batchVars
  <2> QED
    BY <2>2, <2>3
<1>8. ASSUME NEW g \in Files, WriteOne(g) PROVE Settled(f)'
  <2>1. g # f
    BY <1>1, <1>8 DEF WriteOne, TypeOK
  <2>2. pc = "commit" /\ pc' = "commit" /\ UNCHANGED <<db, originals, deletes>>
        /\ writes'[f] = writes[f]
    BY <1>1, <1>8 DEF WriteOne
  <2> QED
    BY <1>1, <2>2 DEF Settled, Reconciled, OnIndex, Deleted
<1>9. ASSUME NEW d, CommitFails(d), pc = "commit" PROVE Settled(f)'
  <2>1. Reconcile(disk') /\ pc' = "idle"
    BY <1>9 DEF CommitFails, Return, Reconcile
  <2> QED
    BY <1>1, <1>9, <2>1, ReconcileSettled
<1>10. ASSUME NEW g \in Files, WriteFails(g) PROVE Settled(f)'
  BY <1>9, <1>10 DEF WriteFails
<1>11. CASE DeleteOne
  <2>1. /\ pc = "commit" /\ pc' = "commit" /\ UNCHANGED <<db, originals>>
        /\ deletes \in Seq(Files) /\ deletes # <<>> /\ deletes' = Tail(deletes)
        /\ disk[Head(deletes)] # Absent
        /\ disk' = [disk EXCEPT ![Head(deletes)] = Absent]
        /\ writes' = writes
    BY <1>1, <1>11 DEF DeleteOne, Deleting, TypeOK
  <2>2. f # Head(deletes)
    BY <1>1, <2>1 DEF TypeOK
  <2>3. Deleted \ {Head(deletes)} \subseteq Deleted' /\ Deleted' \subseteq Deleted
    BY <2>1, DeletedTail
  <2> QED
    BY <1>1, <2>1, <2>2, <2>3 DEF Settled, Reconciled, OnIndex
<1>12. CASE DeleteFails
  BY <1>9, <1>12 DEF DeleteFails, Deleting
<1>13. CASE CommitDone
  <2>1. writes[f] = Untouched /\ Deleted = {}
    BY <1>13, NoneDeleted DEF CommitDone, Keys
  <2>2. pc = "commit" /\ pc' = "idle" /\ db' = db
    BY <1>13 DEF CommitDone, Return
  <2> QED
    BY <1>1, <2>1, <2>2 DEF Settled, Reconciled
<1>14. ASSUME NEW n \in 1..MaxUndoRequest, BeginUndo(n) PROVE Settled(f)'
  BY <1>1, <1>14 DEF BeginUndo, Settled, Reconciled
<1>15. CASE UndoPop \/ UndoRefused \/ BatchReverted \/ UndoDone
  BY <1>1, <1>15 DEF UndoPop, UndoRefused, BatchReverted, UndoDone, Return, Settled, Reconciled
<1>16. ASSUME NEW g \in Files, RestoreOne(g) PROVE Settled(f)'
  <2>1. pc = "restore" /\ pc' = "restore" /\ restore[g] \in Versions
    BY <1>1, <1>16 DEF RestoreOne, TypeOK, Maps
  <2>2. disk' = [disk EXCEPT ![g] = restore[g]] /\ db' = [db EXCEPT ![g] = restore[g]]
    BY <1>16 DEF RestoreOne
  <2>3. CASE g = f
    <3>1. disk'[f] = restore[f] /\ db'[f] = restore[f]
      BY <1>1, <2>2, <2>3 DEF TypeOK
    <3> QED
      BY <2>1, <2>3, <3>1 DEF Settled, Reconciled, Versions
  <2>4. CASE g # f
    BY <1>1, <2>1, <2>2, <2>4 DEF Settled, Reconciled
  <2> QED
    BY <2>3, <2>4
<1>17. ASSUME NEW g \in Files, RemoveFails(g) PROVE Settled(f)'
  <2>1. faults < MaxFaults
    BY <1>17 DEF RemoveFails, Fails
  <2> QED
    BY <2>1
<1>18. ASSUME NEW g \in Files, RestoreFails(g) PROVE Settled(f)'
  BY <1>1, <1>18 DEF RestoreFails, Return, Settled, Reconciled
<1> QED
  BY <1>2, <1>3, <1>4, <1>5, <1>6, <1>7, <1>8, <1>10, <1>11, <1>12, <1>13, <1>14, <1>15,
     <1>16, <1>17, <1>18 DEF Batch, Undo

-----------------------------------------------------------------------------
(* The invariant of the composition. *)

\* Nothing but a removal that fails for no visible reason makes the core
\* differ from the disk for good.
NoFaults == MaxFaults = 0 => faults = 0

LEMMA WatchStepFaults ==
    ASSUME WatchTyped, NoFaults, [WatchNext]_allVars
    PROVE  NoFaults'
<1> SUFFICES ASSUME MaxFaults = 0
             PROVE  faults' = 0
  BY DEF NoFaults
<1>1. faults = 0
  BY DEF NoFaults
<1>2. CASE Batch \/ Undo
  <2>1. ASSUME NEW denied, Fails(denied) PROVE faults' = 0
    BY <1>1, <2>1 DEF Fails
  <2> QED
    BY <1>1, <1>2, <2>1
       DEF Batch, Undo, Begin, Edit, Splice, Create, Delete, Move, RewriteAll, Preview, Editing,
           EditFails, SymlinkEscape, Abort, EditsDone, Preflight, WriteOne, WriteFails, DeleteOne,
           DeleteFails, CommitDone, BeginUndo, UndoPop, UndoRefused, BatchReverted, UndoDone,
           RestoreOne, RemoveFails, RestoreFails, bounds
<1>3. CASE ExternalStep
  BY <1>1, <1>3 DEF ExternalStep, ExternalWrite, Chmod
<1>4. CASE UNCHANGED faults
  BY <1>1, <1>4
<1>5. CASE CallbackStep \/ WorkerStep
  BY <1>1, <1>5
     DEF CallbackStep, WorkerStep, ReadPath, SkipPath, StoreRead, Wake, Drain, BeginWalk, WalkDone,
         Purge, VisitFile, coreOnly, bounds, vars
<1>6. CASE StartWatch \/ (\E f \in Files : LoseEvent(f)) \/ UNCHANGED allVars
  BY <1>1, <1>6 DEF StartWatch, LoseEvent, allVars, vars, bounds
<1> QED
  BY <1>2, <1>3, <1>5, <1>6 DEF WatchNext, ApplyStep

WatchInv == WatchTyped /\ Locked /\ SettledAtRest /\ NoFaults

LEMMA WatchInitInvariant == WatchInit => WatchInv
<1> SUFFICES ASSUME WatchInit
             PROVE  WatchInv
  OBVIOUS
<1>1. PICK d \in [Files -> OnDisk] : InitState(d)
  BY DEF WatchInit, Init
<1>2. \A f \in Files \ Ignored : Reconciled(f)
  BY <1>1 DEF InitState, IndexOf, Reconciled
<1>3. pc = "idle" /\ faults = 0
  BY <1>1 DEF InitState
<1>4. ~InFlight /\ rescan = "wait"
  BY DEF WatchInit, InFlight
<1> QED
  BY <1>2, <1>3, <1>4, WatchInitTypes
     DEF WatchInv, Locked, SettledAtRest, Settled, NoFaults

\* The threads of the watcher.
LEMMA ThreadKeeps ==
    ASSUME WatchInv, StartWatch \/ CallbackStep \/ WorkerStep \/ \E f \in Files : LoseEvent(f)
    PROVE  Locked' /\ SettledAtRest'
<1> USE DEF WatchInv, Locked, SettledAtRest, InFlight
<1>1. CASE StartWatch
  BY <1>1 DEF StartWatch, Settled, Reconciled, OnIndex, Deleted, vars, diskVars, batchVars
<1>2. ASSUME NEW f \in Files, ReadPath(f) PROVE Locked' /\ SettledAtRest'
  <2>1. held' # NoRead
    BY <1>2, ApplyAssumption DEF ReadPath, NoRead
  <2> QED
    BY <1>2, <2>1 DEF ReadPath, vars
<1>3. ASSUME NEW f \in Files, SkipPath(f) \/ LoseEvent(f) PROVE Locked' /\ SettledAtRest'
  BY <1>3 DEF SkipPath, LoseEvent, vars
<1>4. CASE StoreRead
  BY <1>4 DEF StoreRead, coreOnly
<1>5. CASE Wake \/ Drain
  BY <1>5 DEF Wake, Drain, vars
<1>6. CASE BeginWalk
  BY <1>6 DEF BeginWalk, LockFree, vars
<1>7. ASSUME NEW g \in Files, VisitFile(g) PROVE Locked' /\ SettledAtRest'
  <2>1. /\ rescan = "walk" /\ rescan' = "walk" /\ unvisited' = unvisited \ {g}
        /\ UNCHANGED <<disk, pc, watching, events, held, signalled>>
    BY <1>7 DEF VisitFile, coreOnly, diskVars
  <2>2. ASSUME NEW f \in Files \ Ignored, ~InFlight, f \notin unvisited', disk[f] \in Texts
        PROVE  Reconciled(f)'
    <3>1. CASE f = g
      <4>1. db' = [db EXCEPT ![f] = disk[f]]
        BY <1>7, <2>2, <3>1 DEF VisitFile, Stored
      <4> QED
        BY <2>1, <2>2, <4>1 DEF Reconciled, WatchTyped, TInv, TypeOK
    <3>2. CASE f # g
      <4>1. db'[f] = db[f]
        BY <1>7, <3>2 DEF VisitFile, Stored, WatchTyped, TInv, TypeOK
      <4>2. Reconciled(f)
        BY <2>1, <2>2, <3>2, ApplyAssumption
      <4> QED
        BY <2>1, <4>1, <4>2 DEF Reconciled
    <3> QED
      BY <3>1, <3>2
  <2> QED
    BY <2>1, <2>2
<1>8. CASE WalkDone
  BY <1>8 DEF WalkDone, Reconciled, vars, diskVars
<1>9. CASE Purge
  <2>1. /\ rescan = "purge" /\ rescan' = "wait" /\ unvisited = {} /\ pc = "idle"
        /\ UNCHANGED <<disk, pc, watching, events, held, signalled>>
        /\ \A f \in Files :
              db'[f] = IF db[f] # Absent /\ disk[f] = Absent THEN Absent ELSE db[f]
    BY <1>9 DEF Purge, coreOnly, diskVars
  <2>2. ASSUME NEW f \in Files \ Ignored, ~InFlight, disk[f] # Binary
        PROVE  Settled(f)'
    <3>1. disk[f] \in Texts \/ disk[f] = Absent
      BY <2>2 DEF WatchTyped, TInv, TypeOK, OnDisk, Versions
    <3>2. Reconciled(f)'
      BY <2>1, <2>2, <3>1, ApplyAssumption DEF Reconciled
    <3> QED
      BY <2>1, <3>2 DEF Settled
  <2> QED
    BY <2>1, <2>2
<1> QED
  BY <1>1, <1>2, <1>3, <1>4, <1>5, <1>6, <1>7, <1>8, <1>9 DEF CallbackStep, WorkerStep

\* Calls and other programs: what they touch on disk is notified, or not
\* seen before the watch is in place.
LEMMA ChangeKeeps ==
    ASSUME WatchInv, MaxFaults = 0, ApplyStep \/ ExternalStep
    PROVE  Locked' /\ SettledAtRest'
<1>1. Notify
  BY DEF ApplyStep, ExternalStep
<1>2. UNCHANGED <<watching, held, signalled, rescan, unvisited>>
  BY <1>1 DEF Notify
<1>3. rescan \in {"walk", "purge"} => ExternalStep /\ pc' = pc
  BY DEF ApplyStep, LockFree, ExternalStep, ExternalWrite, Chmod, WatchInv, Locked
<1>4. Locked'
  BY <1>1, <1>2, <1>3 DEF Notify, WatchInv, Locked, InFlight
<1>5. InFlight => InFlight'
  BY <1>1, <1>2 DEF Notify, InFlight
<1>6. SettledAtRest'
  <2> SUFFICES ASSUME ~InFlight', NEW f \in Files \ Ignored, disk'[f] # Binary
               PROVE  /\ rescan' = "wait" /\ f \notin unseen' => Settled(f)'
                      /\ rescan' \in {"walk", "purge"} /\ f \notin unvisited' /\ disk'[f] \in Texts
                             => Reconciled(f)'
    BY DEF SettledAtRest
  <2>1. ~InFlight
    BY <1>5
  <2>2. watching => Touched = {}
    BY <1>1 DEF Notify, InFlight
  <2>3. ASSUME f \notin Touched
        PROVE  disk'[f] = disk[f] /\ (pc = "commit" => writes'[f] = writes[f])
    BY <2>3 DEF Touched
  <2>4. ASSUME rescan = "wait", f \notin unseen'
        PROVE  Settled(f)'
    <3>1. f \notin Touched /\ f \notin unseen
      BY <1>1, <2>2, <2>4 DEF Notify
    <3>2. Settled(f) /\ disk[f] # Binary
      BY <2>1, <2>3, <2>4, <3>1 DEF WatchInv, SettledAtRest
    <3>3. CASE ApplyStep
      BY <3>1, <3>2, <3>3, CallSettled DEF ApplyStep, WatchInv, WatchTyped, NoFaults
    <3>4. CASE ExternalStep
      <4>1. UNCHANGED <<db, pc, originals, writes, deletes>>
        BY <3>4 DEF ExternalStep, ExternalWrite, Chmod, batchVars
      <4> QED
        BY <2>3, <3>1, <3>2, <4>1 DEF Settled, Reconciled, OnIndex, Deleted
    <3> QED
      BY <3>3, <3>4
  <2>5. ASSUME rescan \in {"walk", "purge"}, f \notin unvisited, disk'[f] \in Texts
        PROVE  Reconciled(f)'
    <3>1. watching /\ f \notin Touched
      BY <2>2, <2>5 DEF WatchInv, Locked
    <3>2. disk'[f] = disk[f] /\ db' = db
      BY <1>3, <2>3, <2>5, <3>1 DEF ExternalStep, ExternalWrite, Chmod
    <3> QED
      BY <2>1, <2>5, <3>2 DEF WatchInv, SettledAtRest, Reconciled
  <2> QED
    BY <1>2, <2>4, <2>5
<1> QED
  BY <1>4, <1>6

LEMMA WatchNextInvariant ==
    ASSUME WatchInv, MaxFaults = 0, [WatchNext]_allVars
    PROVE  WatchInv'
<1>1. WatchTyped' /\ NoFaults'
  BY WatchStepTypes, WatchStepFaults DEF WatchInv
<1>2. CASE UNCHANGED allVars
  <2>1. UNCHANGED <<disk, db, pc, originals, writes, deletes, watching, events, held,
                    signalled, rescan, unvisited, unseen>>
    BY <1>2 DEF allVars, watchVars, vars, diskVars, batchVars
  <2>2. InFlight' = InFlight /\ Deleted' = Deleted
    BY <2>1 DEF InFlight, Deleted
  <2>3. Locked'
    BY <2>1, <2>2 DEF WatchInv, Locked
  <2>4. SettledAtRest'
    BY <2>1, <2>2 DEF WatchInv, SettledAtRest, Settled, Reconciled, OnIndex
  <2> QED
    BY <1>1, <2>3, <2>4 DEF WatchInv
<1>3. CASE StartWatch \/ CallbackStep \/ WorkerStep \/ \E f \in Files : LoseEvent(f)
  BY <1>1, <1>3, ThreadKeeps DEF WatchInv
<1>4. CASE ApplyStep \/ ExternalStep
  BY <1>1, <1>4, ChangeKeeps DEF WatchInv
<1> QED
  BY <1>2, <1>3, <1>4 DEF WatchNext

\* Once nothing is in flight the core has what is on disk, in every order of
\* stale reads, lost events, walks, batches and changes by other programs.
\* Only where file operations do not fail for no visible reason: an undo
\* drops a file it could not remove from the core, and nobody notices.
THEOREM QuiescenceIsFresh ==
    ASSUME MaxFaults = 0
    PROVE  WatchSpec => []QuiescentIsFresh
<1>1. WatchInv => QuiescentIsFresh
  BY DEF WatchInv, SettledAtRest, InFlight, Settled, QuiescentIsFresh, Quiescent
<1>2. WatchInv /\ [WatchNext]_allVars => WatchInv'
  BY WatchNextInvariant
<1> QED
  BY <1>1, <1>2, WatchInitInvariant, PTL DEF WatchSpec

=============================================================================
