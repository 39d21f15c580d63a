------------------------------- MODULE Session -------------------------------
(***************************************************************************)
(* What the server remembers from call to call beside the repository (in   *)
(* engine.rs): the edits it rejected, so that the same edit sent again is  *)
(* called out, and the diagnostics of each task's last run, so that a      *)
(* report says what an edit introduced and fixed.                          *)
(*                                                                         *)
(* A batch of edits holds the database lock until its verification has     *)
(* ended.  Tasks that a request runs hold no lock: they run beside it and  *)
(* beside each other, and each ends in one step under the baseline's lock. *)
(***************************************************************************)
EXTENDS Integers, Sequences, FiniteSets, SequencesExt

CONSTANTS
    Edits,          \* edit signatures
    MaxRejected,    \* MAX_REJECTED_SIGS
    MaxBatch,       \* bound: edits in a batch
    Tasks,          \* command lines the operator allowed
    VerifyTask,     \* the one that runs after a write
    Runners,        \* bound: runs a client has going at a time
    Problems        \* bound: diagnostics a run may report

Verifier == "verify"

NotRunning == [task |-> "none", result |-> {}]
NoRun      == {"no run yet"}
SpawnError == {"could not run"}

ASSUME SessionAssumption ==
    /\ MaxRejected \in Nat \ {0}
    /\ MaxBatch \in Nat
    /\ VerifyTask \in Tasks
    /\ Verifier \notin Runners
    /\ (NoRun \cup SpawnError) \cap Problems = {}
    /\ IsFiniteSet(Problems)

VARIABLES
    rejected,   \* ring of signatures, oldest first
    problems,   \* what a run of the tasks finds in the files now
    verifying,  \* the last batch has written and its verification is not over
    running,    \* runner -> [task, result], or NotRunning
    baseline    \* task -> diagnostics of its last run, or NoRun

(* History variables; no action of the code reads them. *)
VARIABLES
    last,       \* edit -> how the last batch that had it ended
    forgot,     \* the ring has been too small once
    balance     \* task -> introduced less fixed, summed over its reports

sessionVars == <<rejected, problems, verifying, running, baseline, last, forgot, balance>>

SessionInit ==
    /\ rejected = <<>>
    /\ problems \in SUBSET Problems
    /\ verifying = FALSE
    /\ running = [r \in Runners \cup {Verifier} |-> NotRunning]
    /\ baseline = [t \in Tasks |-> NoRun]
    /\ last = [e \in Edits |-> "never"]
    /\ forgot = FALSE
    /\ balance = [t \in Tasks |-> 0]

-----------------------------------------------------------------------------
(* Batches of edits *)

Newest(ring, n) == IF Len(ring) <= n THEN ring ELSE SubSeq(ring, Len(ring) - n + 1, Len(ring))

\* A mark that is there stays where it is.
Marked(ring, batch) ==
    FoldLeft(LAMBDA marks, e : IF Contains(marks, e) THEN marks ELSE Append(marks, e), ring, batch)

ClearedFirstOnly(ring, batch) == SelectSeq(ring, LAMBDA e : e # batch[1])

Cleared(ring, batch) ==
    FoldLeft(LAMBDA kept, e : IF Contains(batch, e) THEN kept ELSE Append(kept, e), <<>>, ring)

Ended(batch, how) ==
    last' = [e \in Edits |-> IF Contains(batch, e) THEN how ELSE last[e]]

\* Some edit of the batch fails: all of its edits are marked.
Reject(batch) ==
    /\ ~verifying
    /\ rejected' = Newest(Marked(rejected, batch), MaxRejected)
    /\ forgot' = (forgot \/ Len(Marked(rejected, batch)) > MaxRejected)
    /\ Ended(batch, "rejected")
    /\ UNCHANGED <<problems, verifying, running, baseline, balance>>

\* All of them pass; a dry run writes nothing and is not verified.
Accept(batch, dry) ==
    /\ ~verifying
    /\ rejected' = Cleared(rejected, batch)
    /\ Ended(batch, "accepted")
    /\ verifying' = ~dry
    /\ \E p \in SUBSET Problems : problems' = p /\ (dry => p = problems)
    /\ UNCHANGED <<running, baseline, forgot, balance>>

\* A batch that a guard refuses, or whose commit fails, returns before the
\* marks; what it wrote before it failed is there all the same.
FailToCommit ==
    /\ ~verifying
    /\ problems' \in SUBSET Problems
    /\ UNCHANGED <<rejected, verifying, running, baseline, last, forgot, balance>>

-----------------------------------------------------------------------------
(* Runs (run_argv, run_verify, code_run) *)

\* What the report is based on: the diagnostics in the output of a command that
\* failed, none if none has a file and a line, none if it succeeded.
Results == {problems, {}, SpawnError}

Start(runner, task, result) ==
    /\ running[runner] = NotRunning
    /\ result \in Results
    /\ running' = [running EXCEPT ![runner] = [task |-> task, result |-> result]]
    /\ UNCHANGED <<rejected, problems, verifying, baseline, last, forgot, balance>>

StartRun(runner, task, result) == runner \in Runners /\ Start(runner, task, result)

StartVerify(result) == verifying /\ Start(Verifier, VerifyTask, result)

BaselinePoisoned(old, result) == IF result = SpawnError THEN {} ELSE result

\* A run that could not start leaves the baseline alone.
NextBaseline(old, result) == IF result = SpawnError THEN old ELSE result

\* The report counts against whatever run of the task ended last.
Delta(old, result) ==
    IF old = NoRun THEN Cardinality(result)
    ELSE Cardinality(result \ old) - Cardinality(old \ result)

End(runner) ==
    LET task == running[runner].task
        result == running[runner].result
    IN  /\ running[runner] # NotRunning
        /\ running' = [running EXCEPT ![runner] = NotRunning]
        /\ baseline' = [baseline EXCEPT ![task] = NextBaseline(@, result)]
        /\ balance' = [balance EXCEPT ![task] =
                            IF result = SpawnError THEN @ ELSE @ + Delta(baseline[task], result)]
        /\ verifying' = (verifying /\ runner # Verifier)
        /\ UNCHANGED <<rejected, problems, last, forgot>>

SessionBatches == UNION {[1..n -> Edits] : n \in 1..MaxBatch}

SessionNext ==
    \/ \E batch \in SessionBatches :
        \/ Reject(batch)
        \/ \E dry \in BOOLEAN : Accept(batch, dry)
    \/ FailToCommit
    \/ \E result \in Results :
        \/ \E runner \in Runners, task \in Tasks : StartRun(runner, task, result)
        \/ StartVerify(result)
    \/ \E runner \in Runners \cup {Verifier} : End(runner)

SessionSpec == SessionInit /\ [][SessionNext]_sessionVars

-----------------------------------------------------------------------------
(* Properties *)

\* An edit is called out as rejected exactly if the last batch that had it and
\* got as far as the loop failed (engine.rs:466, 4473, 4504).  Not once more
\* marks were made than the ring holds: then a mark just renewed may go.
MarksAreTrue ==
    /\ Len(rejected) = Cardinality(ToSet(rejected))
    /\ Len(rejected) <= MaxRejected
    /\ ~forgot => ToSet(rejected) = {e \in Edits : last[e] = "rejected"}

\* The deltas reported for a task add up to the diagnostics of its last run
\* (engine.rs:3458), however runs overlap and whichever could not start.
DeltasAddUp ==
    \A t \in Tasks : baseline[t] # NoRun => balance[t] = Cardinality(baseline[t])

\* What the session remembers is what happened.
MemoryIsTrue == MarksAreTrue /\ DeltasAddUp

=============================================================================
