----------------------------- MODULE Watcher -----------------------------
(***************************************************************************)
(* The filesystem watcher (crates/vyer-server/src/watch.rs) composed with  *)
(* the write path.  Two threads keep the warm core in step with changes    *)
(* made behind its back: the notification callback re-indexes the path of  *)
(* each event at once (Engine::reindex_path), and a worker re-walks the    *)
(* whole repository once events have been quiet for RESCAN_DEBOUNCE        *)
(* (Engine::reindex_all).                                                  *)
(*                                                                         *)
(* reindex_path reads the file before it takes the database lock; the walk *)
(* and code_apply hold the lock throughout.  Events are about paths, not   *)
(* contents, and the system may drop some of a burst.                      *)
(***************************************************************************)
EXTENDS Apply

VARIABLES
    watching,    \* the watch is in place
    events,      \* paths with an undelivered notification
    held,        \* the callback: [path, text] read and not yet stored
    signalled,   \* the channel to the worker is not empty
    rescan,      \* the worker: "wait", "settle", "walk" or "purge"
    unvisited    \* paths the walk has still to visit

\* A history variable: paths changed before the watch was in place, and not
\* walked since.
VARIABLE unseen

watchVars == <<watching, events, held, signalled, rescan, unvisited, unseen>>
allVars   == <<vars, watchVars>>

NoRead == [path |-> Absent, text |-> Absent]

WatchInit ==
    /\ Init
    /\ watching = FALSE
    /\ events = {}
    /\ held = NoRead
    /\ signalled = FALSE
    /\ rescan = "wait"
    /\ unvisited = {}
    /\ unseen = {}

\* The database lock: code_apply has it while it runs, the worker during its
\* walk.
LockFree == pc = "idle" /\ rescan \in {"wait", "settle"}

coreOnly == <<diskVars, history, pc, batchVars, undoVars, outcome, bounds,
              pre, past, goal, meddled>>

\* The core now has version v of f.
Stored(f, v) ==
    /\ db' = [db EXCEPT ![f] = v]
    /\ drift' = IF disk[f] = v THEN drift \ {f} ELSE drift

-----------------------------------------------------------------------------
(* The callback. *)

StartWatch ==
    /\ ~watching
    /\ watching' = TRUE
    /\ UNCHANGED <<vars, events, held, signalled, rescan, unvisited, unseen>>

\* The file is read before the lock is taken.
ReadPath(f) ==
    /\ f \in events /\ held = NoRead
    /\ disk[f] \in Texts
    /\ events' = events \ {f}
    /\ held' = [path |-> f, text |-> disk[f]]
    /\ UNCHANGED <<vars, watching, signalled, rescan, unvisited, unseen>>

SkipSilently(f) ==
    /\ f \in events /\ held = NoRead
    /\ disk[f] \notin Texts
    /\ events' = events \ {f}
    /\ UNCHANGED <<vars, watching, held, signalled, rescan, unvisited, unseen>>

\* A path that is gone or not text is left to the re-scan.
SkipPath(f) ==
    /\ f \in events /\ held = NoRead
    /\ disk[f] \notin Texts
    /\ events' = events \ {f}
    /\ signalled' = TRUE
    /\ UNCHANGED <<vars, watching, held, rescan, unvisited, unseen>>

StoreRead ==
    /\ held # NoRead
    /\ LockFree
    /\ Stored(held.path, held.text)
    /\ held' = NoRead
    /\ signalled' = TRUE
    /\ UNCHANGED <<coreOnly, watching, events, rescan, unvisited, unseen>>

\* The system delivers only part of a burst.
LoseEvent(f) ==
    /\ f \in events
    /\ events # {f} \/ held # NoRead
    /\ events' = events \ {f}
    /\ UNCHANGED <<vars, watching, held, signalled, rescan, unvisited, unseen>>

-----------------------------------------------------------------------------
(* The re-scan worker. *)

Wake ==
    /\ rescan = "wait" /\ signalled
    /\ rescan' = "settle"
    /\ signalled' = FALSE
    /\ UNCHANGED <<vars, watching, events, held, unvisited, unseen>>

Drain ==
    /\ rescan = "settle" /\ signalled
    /\ signalled' = FALSE
    /\ UNCHANGED <<vars, watching, events, held, rescan, unvisited, unseen>>

\* Quiet for RESCAN_DEBOUNCE: take the lock and walk.
BeginWalk ==
    /\ rescan = "settle" /\ ~signalled
    /\ LockFree
    /\ rescan' = "walk"
    /\ unvisited' = Files
    /\ UNCHANGED <<vars, watching, events, held, signalled, unseen>>

VisitAnything(f) ==
    /\ rescan = "walk" /\ f \in unvisited
    /\ unvisited' = unvisited \ {f}
    /\ Stored(f, disk[f])
    /\ UNCHANGED <<coreOnly, watching, events, held, signalled, rescan,
                   unseen>>

VisitFile(f) ==
    /\ rescan = "walk" /\ f \in unvisited
    /\ unvisited' = unvisited \ {f}
    /\ IF disk[f] \in Texts /\ f \notin Ignored
       THEN Stored(f, disk[f]) ELSE UNCHANGED <<db, drift>>
    /\ UNCHANGED <<coreOnly, watching, events, held, signalled, rescan,
                   unseen>>

WalkDone ==
    /\ rescan = "walk" /\ unvisited = {}
    /\ rescan' = "purge"
    /\ UNCHANGED <<vars, watching, events, held, signalled, unvisited, unseen>>

PurgeNothing ==
    /\ rescan = "purge"
    /\ rescan' = "wait"
    /\ unseen' = {}
    /\ UNCHANGED <<vars, watching, events, held, signalled, unvisited>>

\* Indexed files that no longer exist leave the core.
Purge ==
    LET gone == {f \in Files : db[f] # Absent /\ disk[f] = Absent} IN
    /\ rescan = "purge"
    /\ db' = [f \in Files |-> IF f \in gone THEN Absent ELSE db[f]]
    /\ drift' = drift \ gone
    /\ rescan' = "wait"
    /\ unseen' = {}
    /\ UNCHANGED <<coreOnly, watching, events, held, signalled, unvisited>>

-----------------------------------------------------------------------------
(* The composition. *)

\* A write of a commit is notified also if it leaves the file as it was.
Touched == {f \in Files : disk'[f] # disk[f] \/ (pc = "commit" /\ writes'[f] # writes[f])}

\* Every change of a file is notified once the watch is in place.
Notify ==
    /\ events' = IF watching THEN events \cup Touched ELSE events
    /\ unseen' = IF watching THEN unseen ELSE unseen \cup Touched
    /\ UNCHANGED <<watching, held, signalled, rescan, unvisited>>

\* A call starts only with the lock, and keeps it.
ApplyStep ==
    /\ pc = "idle" => LockFree
    /\ Batch \/ Undo
    /\ Notify

ExternalStep ==
    /\ \E f \in Files : (\E v \in OnDisk : ExternalWrite(f, v)) \/ Chmod(f)
    /\ Notify

CallbackStep ==
    \/ \E f \in Files : ReadPath(f) \/ SkipPath(f)
    \/ StoreRead

WorkerStep ==
    \/ Wake \/ Drain \/ BeginWalk \/ WalkDone \/ Purge
    \/ \E f \in Files : VisitFile(f)

WatchNext ==
    \/ StartWatch
    \/ CallbackStep
    \/ WorkerStep
    \/ ApplyStep
    \/ ExternalStep
    \/ \E f \in Files : LoseEvent(f)

WatchSpec == WatchInit /\ [][WatchNext]_allVars

\* Each thread is scheduled, and a call that has begun goes on.
FairWatchSpec ==
    /\ WatchSpec
    /\ WF_allVars(StartWatch)
    /\ WF_allVars(CallbackStep)
    /\ WF_allVars(WorkerStep)
    /\ WF_allVars(pc # "idle" /\ ApplyStep)

-----------------------------------------------------------------------------
(* Properties. *)

WatchTypeOK ==
    /\ TypeOK
    /\ watching \in BOOLEAN /\ signalled \in BOOLEAN
    /\ events \subseteq Files /\ unvisited \subseteq Files
    /\ unseen \subseteq Files
    /\ held = NoRead \/ held \in [path : Files, text : Texts]
    /\ rescan \in {"wait", "settle", "walk", "purge"}

\* The core has exactly what index_repo would take from the disk.
Reconciled(f) == db[f] = IF disk[f] \in Texts THEN disk[f] ELSE Absent

Quiescent ==
    /\ watching /\ pc = "idle"
    /\ events = {} /\ held = NoRead /\ ~signalled /\ rescan = "wait"

\* Once no notification, read, signal or walk is under way, the core holds
\* the text of every file that is text and none that is gone, however stale
\* reads, lost events, walks and batches overlapped.  Files changed between
\* the index and the watch have to wait for the first walk.
QuiescentIsFresh ==
    Quiescent => \A f \in Files \ (Ignored \cup unseen) :
                     disk[f] # Binary => Reconciled(f)

\* README.md:247, "out-of-band creates, edits, and deletes all reconciled":
\* both threads come to rest, and every text file is then, and for good, in
\* the core as it is on disk, and every deleted file out of it.
EventuallyFresh ==
    <>[](\A f \in Files \ (Ignored \cup unseen) :
            disk[f] # Binary => Reconciled(f))

\* README.md:86, "read-after-write staleness = 0": a batch that succeeded is
\* what the core shows, as long as no other program changes the file.
WrittenStaysFresh ==
    pc = "idle" /\ outcome = "ok" =>
        \A f \in Files \ meddled : Agrees(f)

\* README.md:247 again, for the edits that turn a text file into one that the
\* index does not take (not UTF-8, a NUL byte, over max_file_bytes).
AllReconciled ==
    <>[](\A f \in Files \ (Ignored \cup unseen) : Reconciled(f))

=============================================================================
