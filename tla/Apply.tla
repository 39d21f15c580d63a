------------------------------ MODULE Apply ------------------------------
(***************************************************************************)
(* The write path of the server: code_apply in                             *)
(* crates/vyer-server/src/engine.rs, from the first edit of a batch to the *)
(* commit on disk, the undo history and the reconciliation of the warm     *)
(* core after a failure.                                                   *)
(*                                                                         *)
(* A call holds the database lock from its first to its last step, so one  *)
(* call runs at a time.  The disk has no lock: other programs write files  *)
(* and change permissions between any two steps, and each file operation   *)
(* of a commit or of an undo is a step of its own.                         *)
(*                                                                         *)
(* The warm core is the map db from paths to texts; how it answers queries *)
(* is the subject of WarmCore.  The edits of a request are revealed one at *)
(* a time as the loop over req.edits reaches them.                         *)
(***************************************************************************)
EXTENDS Integers, Sequences, FiniteSets

CONSTANTS
    Files,         \* repository-relative paths
    Texts,         \* UTF-8 file contents, line endings included
    Broken,        \* texts the parse gate rejects
    CrlfDominant,  \* texts with more CRLF than lone LF line endings
    ToCrlf,        \* text -> the same text with every line ending CRLF
    Truncated,     \* what a write that fails midway leaves in a file
    Absent,        \* no such file; not indexed
    Binary,        \* content that is not UTF-8
    Untouched,     \* not in the map (originals, writes, restore)
    Ignored,       \* paths the ignore rules hide from the index walk
    Recreates,     \* whether a batch may write a path it deleted before
    MaxEdits,      \* edits in a batch
    MaxUndoBatches,\* MAX_UNDO_BATCHES
    MaxUndoRequest,\* largest n in {"undo": n}
    MaxCalls,      \* bound: calls of code_apply
    MaxExternal,   \* bound: steps of other programs
    MaxFaults      \* bound: file operations that fail for no visible reason

Versions == Texts \cup {Absent}
OnDisk   == Versions \cup {Binary}

ASSUME ApplyAssumption ==
    /\ Absent \notin Texts /\ Binary \notin Texts /\ Untouched \notin Texts
    /\ Absent # Binary /\ Absent # Untouched /\ Binary # Untouched
    /\ Broken \subseteq Texts /\ CrlfDominant \subseteq Texts
    /\ ToCrlf \in [Texts -> Texts]
    /\ Truncated \in Texts
    /\ Ignored \subseteq Files
    /\ Recreates \in BOOLEAN
    /\ MaxEdits \in Nat /\ MaxUndoRequest \in Nat
    /\ MaxUndoBatches \in Nat \ {0}
    /\ MaxCalls \in Nat /\ MaxExternal \in Nat /\ MaxFaults \in Nat

\* to_crlf "normalize[s] all line endings to CRLF.  Idempotent".
ASSUME EolAssumption == \A t \in Texts : ToCrlf[ToCrlf[t]] = ToCrlf[t]

VARIABLES
    disk,       \* path -> what is on disk
    readonly,   \* paths is_writable_target refuses: the file is read-only,
                \* or there is none and its directory is
    db,         \* path -> text in the warm core, Absent when not indexed
    history,    \* undo batches: sequence of maps path -> pre-edit version
    pc,         \* where the running call is
    dry_run,    \* of the running batch
    edits,      \* edits processed so far
    originals,  \* path -> pre-batch version, Untouched when not snapshotted
    writes,     \* pending writes, the last text for each path
    deletes,    \* pending deletes in request order
    left,       \* undo: batches still to revert
    reverted,   \* undo: batches reverted
    restore,    \* undo: what is still to restore of the popped batch
    outcome     \* how the last call ended

(* Bounds and history variables; no action of the code reads them. *)
VARIABLES
    calls, external, faults,
    pre,        \* [db, disk] when the running call began
    past,       \* [db, disk] before each batch of history
    goal,       \* [db, disk] before the last batch undone
    drift,      \* paths changed on disk since the core last saw them
    meddled     \* paths ever changed by another program or by a failed call

diskVars  == <<disk, readonly>>
batchVars == <<dry_run, edits, originals, writes, deletes>>
undoVars  == <<left, reverted, restore>>
bounds    == <<calls, external, faults>>
ghosts    == <<pre, past, goal, drift, meddled>>

vars == <<diskVars, db, history, pc, batchVars, undoVars, outcome,
          bounds, ghosts>>

-----------------------------------------------------------------------------
Nothing == [f \in Files |-> Untouched]

Keys(m) == {f \in Files : m[f] # Untouched}

\* What index_repo takes from a disk: every text the ignore rules permit.
IndexOf(d) ==
    [f \in Files |-> IF d[f] \in Texts /\ f \notin Ignored
                     THEN d[f] ELSE Absent]

InitState(d) ==
    /\ disk = d
    /\ readonly = {}
    /\ db = IndexOf(d)
    /\ history = <<>>
    /\ pc = "idle"
    /\ dry_run = FALSE
    /\ edits = 0
    /\ originals = Nothing /\ writes = Nothing /\ deletes = <<>>
    /\ left = 0 /\ reverted = 0 /\ restore = Nothing
    /\ outcome = "none"
    /\ calls = 0 /\ external = 0 /\ faults = 0
    /\ pre = [db |-> IndexOf(d), disk |-> d]
    /\ past = <<>>
    /\ goal = [db |-> IndexOf(d), disk |-> d]
    /\ drift = {} /\ meddled = {}

Init == \E d \in [Files -> OnDisk] : InitState(d)

-----------------------------------------------------------------------------
(* The edits of a batch. *)

\* A request that the guards before the loop refuse (no edits, no locator, a
\* delete of a referenced symbol, a rename onto a name in use, a generated
\* file) returns before any state changes and is not a step.
Begin(dry) ==
    /\ pc = "idle"
    /\ calls < MaxCalls
    /\ calls' = calls + 1
    /\ pc' = "edit"
    /\ dry_run' = dry
    /\ edits' = 0
    /\ originals' = Nothing /\ writes' = Nothing /\ deletes' = <<>>
    /\ outcome' = "running"
    /\ pre' = [db |-> db, disk |-> disk]
    /\ UNCHANGED <<diskVars, db, history, undoVars, external, faults,
                   past, goal, drift, meddled>>

Editing ==
    /\ pc = "edit"
    /\ edits < MaxEdits
    /\ edits' = edits + 1
    /\ UNCHANGED <<diskVars, history, pc, dry_run, undoVars, outcome, bounds,
                   pre, past, goal, meddled>>

\* Faults used to test the properties stand before the definition they
\* distort: here, the last version seen wins.
SnapshotLast(m, f, v) == [m EXCEPT ![f] = v]

\* snapshot: the first version seen of a path wins.
Snapshot(m, f, v) == IF m[f] = Untouched THEN [m EXCEPT ![f] = v] ELSE m

Deleted == {deletes[i] : i \in 1..Len(deletes)}

StageIndexedOnly(core, fs, new) ==
    /\ Recreates \/ fs \cap Deleted = {}
    /\ originals' = [f \in Files |-> IF f \in fs /\ core[f] # Absent
                                     THEN Snapshot(originals, f, core[f])[f]
                                     ELSE originals[f]]
    /\ db' = [f \in Files |-> IF f \in fs THEN new[f] ELSE core[f]]
    /\ writes' = [f \in Files |-> IF f \in fs THEN new[f] ELSE writes[f]]
    /\ UNCHANGED deletes

\* Snapshot, warm core and pending write for every path of fs.
Stage(core, fs, new) ==
    /\ Recreates \/ fs \cap Deleted = {}
    /\ originals' = [f \in Files |-> IF f \in fs
                                     THEN Snapshot(originals, f, core[f])[f]
                                     ELSE originals[f]]
    /\ db' = [f \in Files |-> IF f \in fs THEN new[f] ELSE core[f]]
    /\ writes' = [f \in Files |-> IF f \in fs THEN new[f] ELSE writes[f]]
    /\ UNCHANGED deletes

\* A file missing from the core but present as text on disk is pulled in.
Pulled(f) == [db EXCEPT ![f] = IF @ = Absent /\ disk[f] \in Texts
                               THEN disk[f] ELSE @]

\* A pull makes the core agree with the disk again, unless a rollback would
\* go further back.
PullDrift(f) == IF Pulled(f) = db \/ originals[f] # Untouched
                THEN drift ELSE drift \ {f}

\* new_body, anchor, @after:, @before:, @into:, @end and @delete:SYMBOL: the
\* new text t of the whole file, past the parse gate.
Splice(f, t) ==
    /\ Editing
    /\ ~dry_run
    /\ Pulled(f)[f] # Absent
    /\ t \notin Broken
    /\ Stage(Pulled(f), {f}, [g \in {f} |-> t])
    /\ drift' = PullDrift(f)

\* PATH#@new
Create(f, t) ==
    /\ Editing
    /\ ~dry_run
    /\ db[f] = Absent
    /\ t \notin Broken
    /\ Stage(db, {f}, [g \in {f} |-> t])
    /\ UNCHANGED drift

\* PATH#@delete: a file that is on disk only is snapshotted from disk, as
\* Absent when it cannot be read as text.
Delete(f) ==
    /\ Editing
    /\ ~dry_run
    /\ db[f] # Absent \/ disk[f] # Absent
    /\ originals' = Snapshot(originals, f,
                        IF db[f] # Absent THEN db[f]
                        ELSE IF disk[f] \in Texts THEN disk[f] ELSE Absent)
    /\ db' = [db EXCEPT ![f] = Absent]
    /\ deletes' = Append(deletes, f)
    /\ UNCHANGED <<writes, drift>>

\* move_to: cut from f, append to g, which need not exist.
Move(f, g, s, t) ==
    /\ Editing
    /\ ~dry_run
    /\ f # g
    /\ db[f] # Absent
    /\ s \notin Broken /\ t \notin Broken
    /\ Stage(db, {f, g}, [h \in {f, g} |-> IF h = f THEN s ELSE t])
    /\ UNCHANGED drift

\* A symbol rename and a bulk replace: every file that has an occurrence.
RewriteAll(fs, t) ==
    /\ Editing
    /\ ~dry_run
    /\ fs # {} /\ \A f \in fs : db[f] # Absent
    /\ t \notin Broken
    /\ Stage(db, fs, [g \in fs |-> t])
    /\ UNCHANGED drift

\* Under dry_run an edit only reports; the pull on demand still happens.
Preview(f) ==
    /\ Editing
    /\ dry_run
    /\ db' \in {db, Pulled(f)}
    /\ drift' = IF db' = db THEN drift ELSE PullDrift(f)
    /\ UNCHANGED <<originals, writes, deletes>>

Edit ==
    \/ \E f \in Files :
          \/ \E t \in Texts : Splice(f, t) \/ Create(f, t)
          \/ \E g \in Files, s, t \in Texts : Move(f, g, s, t)
          \/ Delete(f)
          \/ Preview(f)
    \/ \E fs \in SUBSET Files, t \in Texts : RewriteAll(fs, t)

-----------------------------------------------------------------------------
(* The end of a batch. *)

Return(o) ==
    /\ pc' = "idle"
    /\ outcome' = o

\* An edit fails (malformed or stale locator, no such symbol, denied path,
\* parse gate), or the symlink check does: the core is rolled back.
Abort(core) ==
    /\ db' = [f \in Files |-> IF originals[f] = Untouched
                              THEN core[f] ELSE originals[f]]
    /\ Return("rejected")
    /\ UNCHANGED <<diskVars, history, batchVars, undoVars, bounds, pre, past,
                   goal, meddled>>

EditFails ==
    /\ pc = "edit"
    /\ edits < MaxEdits
    /\ \/ Abort(db) /\ UNCHANGED drift
       \/ \E f \in Files : Abort(Pulled(f)) /\ drift' = PullDrift(f)

\* A symlinked directory leads one of the targets out of the root.  Where the
\* links are is not modelled: any target may turn out to be behind one.
SymlinkEscape ==
    /\ pc = "edit"
    /\ edits > 0
    /\ Keys(writes) \cup Deleted # {}
    /\ Abort(db)
    /\ UNCHANGED drift

\* All edits validated; commit_pending begins.
EditsDone ==
    /\ pc = "edit"
    /\ edits > 0
    /\ pc' = "preflight"
    /\ UNCHANGED <<diskVars, db, history, batchVars, undoVars, outcome,
                   bounds, ghosts>>

ReconcileBytes(d) ==
    /\ db' = [f \in Files |-> IF originals[f] = Untouched THEN db[f] ELSE d[f]]
    /\ drift' = drift \ Keys(originals)

ReconcileNothing(d) == UNCHANGED <<db, drift>>

\* The core takes over what disk d holds for every path of the batch.
Reconcile(d) ==
    /\ db' = [f \in Files |-> IF originals[f] = Untouched THEN db[f]
                              ELSE IF d[f] \in Texts THEN d[f] ELSE Absent]
    /\ drift' = drift \ Keys(originals)

Preflight ==
    /\ pc = "preflight"
    /\ IF Keys(writes) \cap readonly # {}
       THEN Reconcile(disk) /\ Return("refused")
       ELSE pc' = "commit" /\ UNCHANGED <<db, drift, outcome>>
    /\ UNCHANGED <<diskVars, history, batchVars, undoVars, bounds, pre, past,
                   goal, meddled>>

\* The text a write puts on disk keeps the line endings of a CRLF file.
Encoded(f, t) == IF disk[f] \in CrlfDominant THEN ToCrlf[t] ELSE t

WriteOne(f) ==
    /\ pc = "commit"
    /\ writes[f] # Untouched
    /\ f \notin readonly
    /\ disk' = [disk EXCEPT ![f] = Encoded(f, writes[f])]
    /\ writes' = [writes EXCEPT ![f] = Untouched]
    /\ drift' = drift \ {f}
    /\ UNCHANGED <<readonly, db, history, pc, dry_run, edits, originals,
                   deletes, undoVars, outcome, bounds, pre, past, goal,
                   meddled>>

\* The ways a file operation on f fails: a missing permission (denied), or a
\* fault that leaves the disk in one of the states left.
Fails(denied) ==
    \/ denied /\ UNCHANGED faults
    \/ ~denied /\ faults < MaxFaults /\ faults' = faults + 1

CommitFailsAsRefused(d) ==
    /\ disk' = d
    /\ Reconcile(d)
    /\ Return("refused")
    /\ UNCHANGED <<readonly, history, batchVars, undoVars, calls, external,
                   pre, past, goal, meddled>>

\* A commit that stops half way has already changed the disk for good.
CommitFails(d) ==
    /\ disk' = d
    /\ Reconcile(d)
    /\ Return("failed")
    /\ meddled' = meddled \cup {f \in Files : d[f] # pre.disk[f]}
    /\ UNCHANGED <<readonly, history, batchVars, undoVars, calls, external,
                   pre, past, goal>>

WriteFails(f) ==
    /\ pc = "commit"
    /\ writes[f] # Untouched
    /\ Fails(f \in readonly)
    /\ \/ CommitFails(disk)
       \/ f \notin readonly /\ CommitFails([disk EXCEPT ![f] = Truncated])

Deleting ==
    /\ pc = "commit"
    /\ Keys(writes) = {}
    /\ deletes # <<>>

DeleteOne ==
    /\ Deleting
    /\ disk[Head(deletes)] # Absent
    /\ disk' = [disk EXCEPT ![Head(deletes)] = Absent]
    /\ deletes' = Tail(deletes)
    /\ drift' = drift \ {Head(deletes)}
    /\ UNCHANGED <<readonly, db, history, pc, dry_run, edits, originals,
                   writes, undoVars, outcome, bounds, pre, past, goal,
                   meddled>>

DeleteFails ==
    /\ Deleting
    /\ Fails(disk[Head(deletes)] = Absent)
    /\ CommitFails(disk)

\* record_history: push, then drop the oldest beyond the bound.
Recorded(h, batch) ==
    LET pushed == Append(h, batch) IN
    IF Len(pushed) > MaxUndoBatches
    THEN SubSeq(pushed, Len(pushed) - MaxUndoBatches + 1, Len(pushed))
    ELSE pushed

CommitDone ==
    /\ pc = "commit"
    /\ Keys(writes) = {}
    /\ deletes = <<>>
    /\ IF Keys(originals) = {} THEN UNCHANGED <<history, past>>
       ELSE /\ history' = Recorded(history, originals)
            /\ past' = Recorded(past, pre)
    /\ Return("ok")
    /\ UNCHANGED <<diskVars, db, batchVars, undoVars, bounds, pre, goal,
                   drift, meddled>>

-----------------------------------------------------------------------------
(* {"undo": n} *)

BeginUndo(n) ==
    /\ pc = "idle"
    /\ calls < MaxCalls
    /\ calls' = calls + 1
    /\ pc' = "undo"
    /\ left' = n
    /\ reverted' = 0
    /\ restore' = Nothing
    /\ outcome' = "running"
    /\ pre' = [db |-> db, disk |-> disk]
    /\ UNCHANGED <<diskVars, db, history, batchVars, external, faults,
                   past, goal, drift, meddled>>

Newest == history[Len(history)]

\* The pre-flight of one batch looks only at the files it will write.
Unwritable(batch) ==
    {f \in Keys(batch) : batch[f] # Absent /\ f \in readonly}

UndoPop ==
    /\ pc = "undo"
    /\ left > 0 /\ history # <<>>
    /\ Unwritable(Newest) = {}
    /\ restore' = Newest
    /\ history' = SubSeq(history, 1, Len(history) - 1)
    /\ goal' = past[Len(past)]
    /\ past' = SubSeq(past, 1, Len(past) - 1)
    /\ pc' = "restore"
    /\ UNCHANGED <<diskVars, db, batchVars, left, reverted, outcome, bounds,
                   pre, drift, meddled>>

UndoRefused ==
    /\ pc = "undo"
    /\ left > 0 /\ history # <<>>
    /\ Unwritable(Newest) # {}
    /\ Return("undo refused")
    /\ UNCHANGED <<diskVars, db, history, batchVars, undoVars, bounds, ghosts>>

RestoreKeepingNew(f) ==
    /\ pc = "restore"
    /\ restore[f] # Untouched
    /\ restore[f] # Absent => f \notin readonly
    /\ disk' = IF restore[f] = Absent THEN disk
               ELSE [disk EXCEPT ![f] = restore[f]]
    /\ db' = [db EXCEPT ![f] = restore[f]]
    /\ restore' = [restore EXCEPT ![f] = Untouched]
    /\ drift' = drift \ {f}
    /\ UNCHANGED <<readonly, history, pc, batchVars, left, reverted, outcome,
                   bounds, pre, past, goal, meddled>>

RestoreOne(f) ==
    /\ pc = "restore"
    /\ restore[f] # Untouched
    /\ restore[f] # Absent => f \notin readonly
    /\ disk' = [disk EXCEPT ![f] = restore[f]]
    /\ db' = [db EXCEPT ![f] = restore[f]]
    /\ restore' = [restore EXCEPT ![f] = Untouched]
    /\ drift' = drift \ {f}
    /\ UNCHANGED <<readonly, history, pc, batchVars, left, reverted, outcome,
                   bounds, pre, past, goal, meddled>>

\* A failed removal is ignored and the file leaves the core all the same.
RemoveFails(f) ==
    /\ pc = "restore"
    /\ restore[f] = Absent
    /\ disk[f] # Absent
    /\ Fails(FALSE)
    /\ db' = [db EXCEPT ![f] = Absent]
    /\ restore' = [restore EXCEPT ![f] = Untouched]
    /\ drift' = drift \cup {f}
    /\ meddled' = meddled \cup {f}
    /\ UNCHANGED <<diskVars, history, pc, batchVars, left, reverted, outcome,
                   calls, external, pre, past, goal>>

\* A failed write ends the call with the batch popped and part restored.
RestoreFails(f) ==
    /\ pc = "restore"
    /\ restore[f] \in Texts
    /\ Fails(f \in readonly)
    /\ \/ UNCHANGED <<disk, drift>>
       \/ /\ f \notin readonly
          /\ disk' = [disk EXCEPT ![f] = Truncated]
          /\ drift' = drift \cup {f}
    /\ Return("undo failed")
    /\ meddled' = meddled \cup Keys(restore)
    /\ UNCHANGED <<readonly, db, history, batchVars, undoVars, calls, external,
                   pre, past, goal>>

BatchReverted ==
    /\ pc = "restore"
    /\ Keys(restore) = {}
    /\ left' = left - 1
    /\ reverted' = reverted + 1
    /\ pc' = "undo"
    /\ UNCHANGED <<diskVars, db, history, batchVars, restore, outcome, bounds,
                   ghosts>>

UndoDoneWhenAllReverted ==
    /\ pc = "undo"
    /\ left = 0
    /\ Return(IF reverted = 0 THEN "nothing to undo" ELSE "undone")
    /\ UNCHANGED <<diskVars, db, history, batchVars, undoVars, bounds, ghosts>>

UndoDone ==
    /\ pc = "undo"
    /\ left = 0 \/ history = <<>>
    /\ Return(IF reverted = 0 THEN "nothing to undo" ELSE "undone")
    /\ UNCHANGED <<diskVars, db, history, batchVars, undoVars, bounds, ghosts>>

-----------------------------------------------------------------------------
(* Other programs, and the process itself. *)

\* An editor, a formatter, git, or the verify command the operator set.
ExternalWrite(f, v) ==
    /\ external < MaxExternal
    /\ disk[f] # v
    /\ external' = external + 1
    /\ disk' = [disk EXCEPT ![f] = v]
    /\ drift' = drift \cup {f}
    /\ meddled' = meddled \cup {f}
    /\ UNCHANGED <<readonly, db, history, pc, batchVars, undoVars, outcome,
                   calls, faults, pre, past, goal>>

Chmod(f) ==
    /\ external < MaxExternal
    /\ external' = external + 1
    /\ readonly' = IF f \in readonly THEN readonly \ {f}
                   ELSE readonly \cup {f}
    /\ UNCHANGED <<disk, db, history, pc, batchVars, undoVars, outcome,
                   calls, faults, ghosts>>

\* The server dies and starts again: the core is indexed anew and nothing
\* else survives.
Restart ==
    /\ faults < MaxFaults
    /\ faults' = faults + 1
    /\ db' = IndexOf(disk)
    /\ history' = <<>> /\ past' = <<>>
    /\ Return("restarted")
    /\ originals' = Nothing /\ writes' = Nothing /\ deletes' = <<>>
    /\ restore' = Nothing
    /\ drift' = {}
    /\ UNCHANGED <<diskVars, dry_run, edits, left, reverted, calls, external,
                   pre, goal, meddled>>

Batch ==
    \/ \E dry \in BOOLEAN : Begin(dry)
    \/ Edit \/ EditFails \/ SymlinkEscape \/ EditsDone
    \/ Preflight
    \/ \E f \in Files : WriteOne(f) \/ WriteFails(f)
    \/ DeleteOne \/ DeleteFails \/ CommitDone

Undo ==
    \/ \E n \in 1..MaxUndoRequest : BeginUndo(n)
    \/ UndoPop \/ UndoRefused \/ BatchReverted \/ UndoDone
    \/ \E f \in Files : RestoreOne(f) \/ RemoveFails(f) \/ RestoreFails(f)

Environment ==
    \/ \E f \in Files : \/ \E v \in OnDisk : ExternalWrite(f, v)
                        \/ Chmod(f)
    \/ Restart

Next == Batch \/ Undo \/ Environment

Spec == Init /\ [][Next]_vars

-----------------------------------------------------------------------------
(* Properties. *)

Maps == [Files -> Versions \cup {Untouched}]
Snapshots == [db : [Files -> Versions], disk : [Files -> OnDisk]]

\* Every variable has its type (the locals of code_apply and the engine's
\* history).
TypeOK ==
    /\ disk \in [Files -> OnDisk] /\ readonly \subseteq Files
    /\ db \in [Files -> Versions]
    /\ history \in Seq(Maps) /\ Len(history) <= MaxUndoBatches
    /\ pc \in {"idle", "edit", "preflight", "commit", "undo", "restore"}
    /\ dry_run \in BOOLEAN /\ edits \in 0..MaxEdits
    /\ originals \in Maps
    /\ writes \in [Files -> Texts \cup {Untouched}]
    /\ deletes \in Seq(Files)
    /\ left \in 0..MaxUndoRequest /\ reverted \in 0..MaxUndoRequest
    /\ restore \in Maps
    /\ outcome \in {"none", "running", "rejected", "refused", "failed", "ok",
                    "undo refused", "undo failed", "nothing to undo",
                    "undone", "restarted"}
    /\ pre \in Snapshots /\ goal \in Snapshots
    /\ past \in Seq(Snapshots) /\ Len(past) = Len(history)
    /\ drift \subseteq Files /\ meddled \subseteq Files

Ended(o) == pc = "idle" /\ outcome = o

SameText(s, t) == s \in Texts /\ t \in Texts /\ ToCrlf[s] = ToCrlf[t]

\* The core and the disk hold the same text, up to line endings; a file that
\* the core does not have is absent, not text, or ignored.
Agrees(f) ==
    \/ SameText(db[f], disk[f])
    \/ db[f] = Absent /\ (disk[f] \notin Texts \/ f \in Ignored)

\* Between calls the core never shows a text that is not on disk, nor misses
\* one that is: whether the last batch committed, was rejected, was refused
\* by the pre-flight or broke off half way, or an undo ran (SP-2, SCRY-068).
\* Excepted are the files another program changed since, and those a failed
\* undo left behind.
ReadAfterWrite == pc = "idle" => \A f \in Files \ drift : Agrees(f)

\* A batch whose edits failed leaves the core as it was before its first
\* edit, except that files it pulled in from disk stay (the rollback).
RollbackRestores ==
    Ended("rejected") =>
        \A f \in Files :
            \/ db[f] = pre.db[f]
            \/ pre.db[f] = Absent /\ db[f] \in Texts
               /\ (f \in meddled \/ db[f] = disk[f])

\* "no files changed": a rejected or refused batch has written nothing.
RefusedTouchesNothing ==
    Ended("rejected") \/ Ended("refused") =>
        \A f \in Files \ meddled : disk[f] = pre.disk[f]

\* Every file a committed batch changed on disk is in the newest undo record.
CommitIsUndoable ==
    Ended("ok") =>
        \A f \in Files \ meddled :
            disk[f] # pre.disk[f] =>
                history # <<>> /\ Newest[f] # Untouched

\* An undo of n batches brings every file that was in step with the core
\* back, byte for byte, to what it was before the n-th newest batch, and the
\* core with it up to line endings, however batches, failures and dropped
\* records interleaved.
UndoRestores ==
    Ended("undone") =>
        \A f \in Files \ meddled :
            /\ goal.db[f] = goal.disk[f] => disk[f] = goal.disk[f]
            /\ \/ db[f] = goal.db[f] \/ SameText(db[f], goal.db[f])
               \/ goal.db[f] = Absent /\ db[f] = goal.disk[f]

\* README.md:98, "the read after a write is always correct (a hard rule)": a
\* batch that succeeds leaves core and disk in step.
CommittedIsFresh == Ended("ok") => \A f \in Files : Agrees(f)

\* README.md:187, "A batch lands all at once or not at all": a commit that
\* fails has changed nothing.
BatchLandsWhole ==
    Ended("failed") => \A f \in Files : disk[f] = pre.disk[f]

\* engine.rs:285, undo "restores the files exactly as they were".
UndoIsExact ==
    Ended("undone") => \A f \in Files \ meddled : disk[f] = goal.disk[f]

\* engine.rs:3569, the message of a refused undo: "history intact, no files
\* changed".
UndoRefusedIsIntact ==
    Ended("undo refused") =>
        \A f \in Files \ meddled : disk[f] = pre.disk[f]

\* Every call returns: code_apply has no wait in it, and neither an undo
\* beyond the oldest record nor a failing file operation loops.
CallReturns == (pc # "idle") ~> (pc = "idle")

=============================================================================
