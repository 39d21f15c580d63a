# TLA+ models of vyer

vyer is a code-navigation and editing server for agents, written in Rust.  One
process indexes a repository into an in-memory, incrementally maintained "warm
core", answers `code` queries from it, and applies `code_apply` edit batches to
the files on disk.  This directory holds TLA+ modules that model its stateful
parts and the algorithms its edits and answers rest on, TLC configurations that
check them on small instances, and proofs checked by the TLA+ proof system
(TLAPS).

Paths below are relative to the repository; `engine.rs` is
`crates/vyer-server/src/engine.rs`.

## Inventory

| Part | State it keeps | Operations | What is hard about it |
|---|---|---|---|
| Warm core (`crates/vyer-incr`) | text and content hash per file, one memo per file and derived query, one repository memo, a revision, the parser | `set_text`, `remove_text`, `set_parser`; `parse`, `symbols`, `outline`, `line_index`, `repo_outline` | memos are validated lazily by hash: an entry may sit unused through any sequence of changes and then look valid |
| Token and semantic indexes (`engine.rs`) | two slots stamped with a revision | `ensure_token_index`, `update_token_index`, `semantic_ids`, the candidate planners | the token index is patched file by file and must equal a build from scratch; a lost posting is a lost match |
| Write path (`code_apply`, `commit_pending`, `record_history` in `engine.rs`) | the warm core, the disk, the undo history; per call: snapshots, pending writes and deletes | an edit batch (about a dozen kinds of edit), dry run, `{"undo": n}` | rollback, pre-flight and file-by-file commit can each fail; the disk is shared with other programs; undo depth is bounded |
| Filesystem watcher (`watch.rs`, `reindex_path`, `reindex_all`) | a notification callback, a signal channel, a debounced re-scan worker | per-path re-index, whole-repository walk and purge | two threads against the write path; the file is read outside the lock; events are lost in bursts |
| Splice computation (`apply.rs`) | none | resolve a symbol, replace, delete, insert, anchor, diff, the bracket gate | what belongs to a symbol (docs, attributes, indentation) is found by looking at neighbouring lines |
| Scanners (`engine.rs`, `apply.rs`) | none | references, calls, rename, the bracket gate | four passes repeat, or vary, the rules for comments and literals |
| Selection (`engine.rs`, `lexical.rs`) | none | scopes, ranges, pruning, boolean search, near misses | a pruned search must lose nothing; boundaries |
| Graph queries and edit guards (`engine.rs`) | none | `refs`, `impact`, `callgraph`, `context`, `import`; refuse a delete of a referenced symbol or a rename clash | each reads the repository in its own way; the guards look once, before the batch, the one of deletes through a search that stops after 200 lines of a file |
| Query engine (`code`) | recently shown spans (`seen`) | fusion, ranking, paging, packing into a token budget, suggestions | ids are marked seen before packing decides what is shown; the set starts over when full |
| Reads (`engine.rs`) | none | files whole, by lines, by signatures; diagnostics and traces; search by meaning | cut to a budget in bytes before the packer counts tokens |
| Session records (`engine.rs`) | rejected-edit ring, diagnostics baselines, audit log | mark, clear, replace, append | bounded rings and shared baselines written by overlapping calls |
| Language-server sidecar (`semantic.rs`) | a child process, a worker thread, request ids, a kept connection | `references_at`, `WarmConn::request` | a timeout racing a late answer; a child that hangs, talks or dies |
| Transports (`http.rs`, `jsonrpc.rs`, `mcp.rs`) | the accept loop | one request at a time | a sequential loop without read timeouts |
| Core algorithms (`vyer-core`) | none | rank fusion, packing, order of an answer, locators, sandbox, PageRank | boundaries |
| Language extractors (`vyer-index`) | none | pure functions from text to spans | not a subject for a model checker |

How they interact.  Every handler takes the one database lock (`Engine.db`),
so queries, batches and walks do not overlap; the watcher callback reads the
file before it takes the lock.  Queries reach the warm core only through its
derived queries; the token and semantic indexes reach it through `revision`,
`hash` and `symbols`; the write path and the watcher through `set_text` and
`remove_text`.  The texts the write path stores are what the splices and the
scanners compute; its guards ask the graph queries.  Tasks that a client runs,
language servers and connections hold no lock.  The disk has no lock.

## Modules

| Module | Models | Composition |
|---|---|---|
| `FreshCore` | what the warm core promises: a map of texts whose every query is computed at the moment it is asked | abstract specification |
| `WarmCore` | `vyer-incr`'s `Db`: texts, hashes, memos, revision, parser | implements `FreshCore` (`FreshSpec`) |
| `DerivedIndexes` | the token and semantic index slots and the candidate plan | extends `WarmCore`; its next-state relation is that of the core or a step of its own |
| `Apply` | `code_apply`: the edit loop, rollback, pre-flight, commit, undo, restart, and other programs acting on the disk | the core is the map `db` |
| `Watcher` | the callback and the re-scan worker | extends `Apply`, whose steps take the lock and notify |
| `Splice` | symbol resolution, replacement, deletion, insertion, diff (`apply.rs`) | |
| `Texts` | texts as sequences of characters | used by the next two |
| `CodeScan` | references, calls, renames and the bracket gate without a parser | |
| `Matching` | scopes, globs, ranges, pruning, boolean search, near misses, anchors | |
| `Reading` | reads of files, diagnostics, search by meaning, sub-words | extends `Matching`, whose caller writes its requests |
| `Navigation` | blast radius, call graph, and the guards | |
| `MCText` | `Splice`, `CodeScan`, `Reading` and `Navigation` side by side | their instance for TLC; the values for `Splice` and `Navigation` are in `MCSplice` and `MCNavigation` |
| `Calls` | what whoever waits for an answer is promised | abstract specification |
| `Answers` | one answer of `code`: fusion, paging, shares, packing, order; the `seen` set from call to call | |
| `Session` | the rejected-edit ring and the diagnostics baselines | |
| `Lookup` | one lookup in a language server started for it | implements `Calls` |
| `WarmConn` | a connection to a language server kept for many requests | implements `Calls` |
| `Transport` | the HTTP accept loop and the JSON-RPC dispatch | implements `Calls` |
| `Server` | the last five, side by side | `CallsAreKept` |
| `..._proofs` | the theorems about the module of that name; `DerivedIndexes_proofs` is also about `WarmCore`, `Callers_proofs` about `Lookup`, `WarmConn` and `Transport`, `Server_proofs` also about `Session` and `Answers`, `Text_proofs` about `Navigation` and the anchors and the boolean search of `Matching` | `Watcher_proofs` extends `Apply_proofs`, `Server_proofs` extends `Callers_proofs` |
| `Recursion` | lemmas about recursive functions, folds, sums over finite sets and sequences | used by `Server_proofs`, `Splice_proofs` and `Text_proofs` |
| `MC...` | instances for TLC; `MCWrites` takes `MCApply` at two sizes | |

`MCText` and `Server` put parts that share no state next to each other: a
behaviour takes one of them, its `subject`, through its steps while the others
stand still.  One run then checks them all, and nothing is lost, because there
is no step of one that another could see.

### WarmCore and FreshCore

`inputs`, `revision`, `parser` and the memos are the fields of `Db`.  A memo
is the pair (hash, value) of `Memo<T>`.  What a parser makes of a text is
symbolic: `Tree(p, f, t)` is a record of its arguments, `SymbolTable`,
`Outline` and `LineIndex` wrap what they are computed from.  Two results are
then equal exactly when they were computed from the same inputs, which is all
the freshness properties need, and the strictest reading of them.  Each query
is one action with the code's order of work: check the memo, fall through to
the query below, fill on the way back.  A query about a file that is not
indexed returns the default and touches nothing.  `answer` is what the last
query returned and is what `FreshCore` shows.

Contents are compared by hash in the code; `HashAssumption` says that distinct
texts have distinct hashes (the code uses a 64-bit hash and accepts the risk).

### DerivedIndexes

A slot is `Absent` before its first use.  `UpdatedTokenIndex` is
`update_token_index`, file by file: forget the contributions of the files that
are gone, replace those of the files whose hash changed, leave the others.
`PlanLexFiles(terms)` is a conjunctive query: bring the index up to date, then
intersect, over the terms, the files that hold a token the term is a substring
of.  Tokenization and the substring test are the constants `TokensOf` and
`HostsOf`.

### Apply

A call holds the lock from first to last step, so one call runs at a time and
its locals are variables of the module.  `pc` is the phase: `edit` (the loop
over the edits), `preflight`, `commit`, and for an undo `undo` (between
batches) and `restore` (files of a popped batch).  In the loop every kind of
edit is an action by its effect on the core, the snapshots and the pending
lists: `Splice` stands for all that produce a new text for one indexed file
(body replacement, anchors, insertions, symbol deletion), which differ in how
the text is computed and in nothing else; `Create`, `Delete`, `Move` and
`RewriteAll` (rename, bulk replace) have actions of their own.  Where symbolic
links lead is not modelled: `SymlinkEscape` may reject any batch with a target.
The edits of a batch are revealed one at a time as the loop reaches them, which
gives every batch.  `EditFails` is every error return of the loop with its rollback.

Each file operation of the commit and of an undo is a step, because other
programs act on the disk in between (`ExternalWrite`, `Chmod`), because each
can fail on its own (`WriteFails`, `DeleteFails`, `RestoreFails`,
`RemoveFails`), and because the process may die there (`Restart`).  A write
that fails leaves the file as it was or `Truncated`.  A commit writes in the
order of a hash map, that is in any order; deletes follow, in request order.

History variables: `pre` (state at the start of the call), `past` (state
before each batch in the history), `goal` (the state an undo should reach),
`drift` (paths another program changed since the core last saw them) and
`meddled` (paths changed at any time by another program or by a commit or undo
that failed half way).  No action of the code reads them.

### Watcher

`ReadPath` and `StoreRead` are the two halves of `reindex_path`, before and
after the lock.  `SkipPath` is a notification about a path that cannot be read
as text: nothing is stored, the worker is signalled all the same.  `LoseEvent`
drops a notification of a burst, never the only one.  The debounce of the worker is the
choice between `Drain` and `BeginWalk`.  The walk visits files one at a time
under the lock (the disk changes while it runs), then `Purge` drops indexed
paths that no longer exist.  `StartWatch` comes after the index, as in
`main.rs`; `unseen` remembers what changed in between.

### Splice

A text is a sequence of lines.  A line has what the code tells apart: its kind
(code, attribute, doc comment, blank, opening or closing), its indentation and
the name it declares.  Two fields are not in the program: `id`, the identity of
a line, and `own`, the symbols it was written into.  They let the properties ask
what an edit did to lines it should not have touched.  The parser is external:
`SpanEnd` finds spans by braces or by indentation.  A behaviour is a series of
edits, each with its diff, so the second edit meets what the first left.
An edited text has to pass both gates of the program (`Reparses`): balanced
brackets, and where blocks go by indentation the parser, which rejects a
decorator without a definition and a definition without a body.

What `leading_trivia_start` tells apart is in the kinds.  `attr` is a line that
starts like an attribute, a decorator or a `///`; `more` is a line between one
and its symbol that does not, the rest of an attribute of several lines or a
plain comment; `plain` is a comment `/* .. */`, and `trailing` is code that
ends in one.  `Replaced` takes a body as it was handed in, as
`prepare_deterministic` does; insertions indent theirs (`ReindentBlock`).

The program promises more than it keeps about such lines, so the module keeps
account of it.  `regular` says that so far every deletion, and insertion before
a symbol, was of one whose trivia the program recognises (`Recognised`: no
`more` line among them, no `trailing` line above them), and that where
indentation counts every replacement had its symbol's (`InPlace`).  The texts
of the run have all of these lines, and the edits reach them; the properties
about structure speak of regular edits.  What other edits do is under "Known
differences".

### CodeScan

Characters matter here and nowhere else, so a text is a sequence of them.  A
file is written as a series of lexical tokens (`Pieces`), each known to be code
or not; the scanners see only the characters.  `Renamed` and the other
references are computed from the tokens.  `replace_word`, `code_ident_lines`
and `scan_idents` share their skipping rules (`SkipEnd` for all three);
`brace_balanced` has its own.

### Matching and Reading

A caller writes one request token by token, of one of eleven kinds, and each
algorithm is compared with what its result means: a glob with an assignment of
its wildcards, a pattern with the texts it matches, a range with the lines it
asks for, an inverted index with scoring the whole corpus, and so on.

### Navigation

A repository is a set of symbols and of mentions of names on lines.  It is
written symbol by symbol, mention by mention; the queries are operators on it.
A query scoped to a file reads the files below the directory of its nearest
manifest (`PackageFiles`), nested packages included.  `external_refs`, which
the delete guard asks, takes the first `MaxHits` lines of a file on which a
smart-case search finds the name, prose and other spellings (`Alike`) included,
and then drops what is not code or is a definition.  A rename is looked at, and
carried out, in files the request determines: `scope` is where a clash is
looked for, `edits` the files that are edited, a part of it.

### Answers

A span is a number; what the search of the repository finds for a query is part
of the query, each hit with its file, because the search stops after so many hits
of one file.  `Code(r)` is one whole call of the tool: fusion by reciprocal
rank, what earlier pages gathered is left out, shares of a batch, packing, lost in
the middle, or the suggestions where nothing is found.  `seen` is the only state
that outlives a call; `Read` is the client taking the answer.  The history
variable `cycle` has what the pages since `seen` was last emptied *showed* the
client and what they *omitted* for want of budget.

### Session

A batch holds the lock until its verification has ended, so `Reject`, `Accept`
and `FailToCommit` exclude each other; runs of tasks overlap with them and each
other (`Start`, `End`).  Which diagnostics a run reports is arbitrary.

### Lookup, WarmConn, Transport and Calls

`Lookup` is caller, worker thread, child process and its pipes.  The child may
answer, interject, ask, not read, or die; the timeout may fire at any moment;
the kill is followed by the join.  `heir` says that another process holds the
pipes.  `WarmConn` is a request, the pump thread with its channel, and a server
whose answers may come after the request gave up.  `Transport` is the accept
loop with its stages and clients that connect, send head and body and hang up
at any point.

`Calls` is what the three have in common for whoever waits: an open call gets
the answer to it at most once or is given up; an answer never comes to nobody,
is never the answer to something else, and does not change.  Each refinement
mapping says when a call is open and whether what it got is *the* answer: for
`WarmConn`, the one to the running request and not to an earlier one; for
`Transport`, the reply that the client's own request calls for (`CalledFor`).

## Runs

Passing runs:

| Run | Instance | What it shows |
|---|---|---|
| `indexes` | 2 files (interchangeable: `FileSymmetry`), 2 texts with one token in common, 2 parsers, 3 changes of the core | no memo or slot that would be served differs from a computation from scratch (`MemoSound`, `TokenIndexFresh`, `SemanticIndexFresh`); `WarmCore` implements `FreshCore`; a change of one file costs no other file a memo (`KeepsValidMemos`); a plan misses no file (`FullRecall`) |
| `apply` | 2 files, one of them ignored, texts differing in line endings, history of 2, 1 fault; side by side (`MCWrites`) 2 calls of 2 edits with 1 external step, and 4 calls of 1 edit with undo requests up to 3 | core and disk agree between calls whatever failed (`ReadAfterWrite`); a rejected batch leaves the core as it was (`RollbackRestores`) and, like a refused one, the disk (`RefusedTouchesNothing`); what was committed is in the undo history (`CommitIsUndoable`); an undo of n batches reaches the state before the n-th newest (`UndoRestores`), also when the history has dropped records and other calls failed in between |
| `watcher` | 2 files, texts differing in line endings, 1 call, 1 external step | at rest the core equals the disk (`QuiescentIsFresh`); it comes to rest (`EventuallyFresh`); every call returns (`CallReturns`) |
| `text` | two edits on a text of 12 or 14 lines or of one, with nested symbols, docs, attributes of one line and of two, and code that ends like a comment, with braces and without; files of 3 lexical tokens in 4 languages; requests of up to 4 tokens of 11 kinds; repositories of 3 symbols and 1 mention in 2 files, one of them a package of its own, with one name that a search finds in others and a search that stops at the first line of a file | regular edits leave a text that the next one can rely on (`WellWritten`) and touch what they name (`NothingOrphaned`, `KeepsNeighbours`), and the diff of any edit applies (`DiffIsTheChange`); renames, references and calls see code and only code (`OnlyCodeRenamed`, `ScannersAgree`, `CallsAreCalls`), the gate counts brackets of code (`GateCountsCode`); selection means what it says (`PruneIsSound`, `SelectionIsExact`, `SearchIsExact`, `AnchoredOnce`); reads degrade and traces point right (`ReadingIsExact`); graph queries are complete (`ReachIsExact`), and the guards do their work where the search reaches every line and renames do not race (`GuardsProtect`) |
| `server` | 5 spans in 2 files, 9 queries and their pairs, 4 budgets, a paging set of 3; 3 edits, a ring of 2, two runs at a time; 2 interjections; 3 requests on a kept connection; 2 HTTP clients with 7 kinds of request | paging repeats no match and ends when all were shown but those omitted for want of budget (`PagesGoOn`), answers fit and leave out the worst (`AnswerFits`, `BestAtTheEdges`); the session remembers what happened (`MemoryIsTrue`); replies are replies to the question (`RepliesMatch`), each of the three ways to wait implements `Calls` (`CallsAreKept`), and every call returns (`EveryCallReturns`) |

Bounds.  Three changes of the core are enough to set a text, change it and set
it back with queries anywhere between, which is what a hash-validated memo can
get wrong.  Two files tell a file's own memos, postings or snapshots from
another's, and make a batch that half succeeds.  Two edits in a batch make the
second meet the first one's effect on the same file.  History 2 with 4 calls
overflows it and still leaves a call to undo; a request of 3 asks for more than
there is.  One fault or external step per call is what the code's recovery is
written for; `apply` and `watcher` place it at every point.  A file of three
lexical tokens has a literal before, between and after two mentions.  A
paging set of 3 with 5 spans starts over within three pages.  A search that
stops at the first line of a file hides a use behind one line of prose.  A ring of 2 with
3 edits loses its oldest mark.  Three requests let an answer be late by two.
Counters that only bound the exploration (`calls`, `external`, `faults`,
`requests`, `MaxInterjections`, `MaxChatter`) are in guards.  Some constants are
smaller than the program's where only their order matters: `FairFloor` (600),
`PagePool` (256), `MinRun` (3), `MaxOperands` (64), `MaxDepth` (5), `Ctx` (3).
Deadlock checking is off in every run but `indexes`: the others stop when their
bounds are used up.

Violation runs.  Each checks one sentence of the repository against the code
and finds it false; `PROJECT.json` has the details under `findings`.

| Run | The sentence | What happens |
|---|---|---|
| `apply_recreate` | "the read after a write is always correct" (README.md:98) | a batch `x#@delete`, `x#@new` succeeds: all writes come before all deletes, the core keeps x, the disk does not |
| `apply_partial` | "A batch lands all at once or not at all" (README.md:187) | a file operation fails after others succeeded (two `@delete` of one path suffice) |
| `apply_clobber` | undo "restores the files exactly as they were" (engine.rs:285) | `@new` over a file on disk that is not in the index overwrites it, and undo deletes it |
| `apply_undo_refused` | "history intact, no files changed" (engine.rs:3569) | `{"undo": 2}` refused at its second batch has reverted the first |
| `server_paging` | "paging with exclude_seen must cover every match exactly once" (engine.rs:8606); "spans already returned" (engine.rs:111) | ids are recorded before the budget is applied: a span that a page had no room for counts as returned, and paging ends, or starts over, without having shown it |
| `watcher_stale` | "read-after-write staleness = 0" (README.md:86) | a notification read before a commit and stored after it brings the old text back |
| `watcher_binary` | "out-of-band creates, edits, and deletes all reconciled" (README.md:247) | a text file that becomes binary (or too large) keeps its old text in the core for good |

The passing runs exclude what these runs show, by name: `Recreates` is FALSE
there; `UndoRestores` promises the bytes of files whose text was the core's before
the batch (not those of a file edited twice whose CRLF line endings the commit
restored and the core does not have: undoing the second edit writes the core's
text); `QuiescentIsFresh` and `EventuallyFresh` speak of files that are
not binary; `PagesGoOn` leaves out the matches that the budget omitted.

Fairness.  All of it is weak, and with one exception it is of threads of this
process and of timeouts.  The exception is `TransportFairness`, which assumes
of HTTP clients that they go on or hang up.  Nothing is assumed of programs
that write to the disk, of lost events, of new calls or of what a language
server says.

- `FairWatchSpec`: the callback, the worker, the start of the watch, and a call
  that has begun.  The callback and the worker wait for the lock; weak fairness
  is enough because calls are finitely many and the lock is free for good after
  the last.
- `LookupFairness`: the worker runs, the caller's `recv_timeout` ends, kill and
  join happen.  `LookupReturns`, the part of `EveryCallReturns` about lookups,
  excludes an heir (a process that inherited the pipes of the child and keeps
  them open): with one, the join may wait for ever (see below).
- `ConnFairness`: the request takes what is in the channel or its timeout runs
  out.
- `TransportFairness`: the accept loop runs, and a client that has connected
  goes on or hangs up.  The second half is an assumption about clients: behind
  one that does neither, nobody is served, because no read has a timeout.

## Proofs

`DerivedIndexes_proofs` proves of the warm core, for any sets of files, texts, parsers and hashes that
satisfy `CoreAssumption` and `HashAssumption`:

- `TypeCorrect`: `Spec => []TypeOK`;
- `MemosAreSound`: `Spec => []MemoSound`, a memo that a query would serve
  equals a computation from scratch;
- `ImplementsFreshCore`: `Spec => FreshSpec`, the memoized database implements
  the one that recomputes every answer;
- `ValidMemosAreKept`: no step but a swap of the parser drops or rebuilds a valid
  memo of a file whose text it leaves alone (`KeepsValidMemos`).

`MemoSound` is not inductive: it says nothing of a memo whose hash does not
match now and may match again after the text is set back.  The invariant is
`IInv == TypeOK /\ Provenance /\ RepoProvenance`: every memo, valid or not, is
the result for some text with the memo's hash under the parser now in use
(`set_parser` drops the memos that depend on it), and the repository memo is
the result for the texts its key names.  With injective hashes, a memo that
matches was computed from the text that is there.  The proof has one step per
action and, below, one per memo the action can touch; helper lemmas state what
`Fill`, `Parsed`, `Extracted` and `Outlined` return.

It proves the same of the two indexes: `IndexesTyped`,
`TokenIndexIsFresh`, `SemanticIndexIsFresh`, `MemosStaySound`,
`PlansHaveFullRecall`.  The indexes take the core through its own queries, so
with them on top it still keeps valid memos (`IndexesKeepMemos`) and implements
`FreshCore` (`IndexedCoreIsFresh`).  Freshness at the current revision is not inductive,
because the patch starts from an index that is out of date.  `TokenInv` says that
the index, at whatever revision, is the one built from scratch over *some* texts,
and over the present ones if the stamp is the present revision; a patch turns the
first into the second.  The file whose hash is unchanged has the same tokens by
`HashAssumption`.

`Apply_proofs` proves, for any files, texts, bounds and sets of ignored paths:

- `TypeCorrect`: `Spec => []TypeOK`, with `UndoCount` (the batches left and
  reverted add up to at most the request) to make it inductive;
- `RefusalTouchesNothing`: from `DiskKept`, which says of the edit loop and the
  pre-flight what the property says of their refusal;
- `RollbackIsComplete`: from `RollbackInv`, by which the version a rollback
  *would* give a file is at every edit the one from before the batch or one
  pulled in from disk;
- `CoreAgreesWithDisk` (`ReadAfterWrite`), under the assumption `~Recreates`:
  while a batch runs, core and disk disagree, so `FreshInv` says for each phase
  what will make them agree: before the commit the rollback (`Matches`,
  `RolledBack`), during the commit the pending operation of each file
  (`Pending`), which has a snapshot to reconcile from (`Snapshotted`).  Without
  `~Recreates` the theorem is false: that is run `apply_recreate`;
- `CommitsAreUndoable` (`CommitIsUndoable`): from `Snapshotted` and the fact
  that what a commit has changed so far has a snapshot;
- `UndosRestore` (`UndoRestores`), under `~Recreates`: from `UndoInv`, which
  holds together with the four invariants above.  `Sees(s, f)` is the versions
  of f that core and disk had in a state s.  `Chain` links the states the
  records of the history were made in: each saw whatever is seen in the next,
  unless its record has the file, and then it saw the version in the record.
  A commit adds a link, a full history drops the oldest, an undo removes the
  newest and moves along it; every other step, failed calls included, shows no
  version that was not seen before, of files nobody meddled with.

`Watcher_proofs` proves, of the watcher composed with the write path,
`WatcherTyped`, and `QuiescenceIsFresh` (`QuiescentIsFresh`) where
`MaxFaults = 0`.  `Settled(f)` says of each file that the core is what the disk
holds or that something is still to come that will make it so: a notification, a
read on its way, a signal, the rest of a walk, the running call.  The assumption is needed for
one action: an undo that cannot remove a file drops it from the core
(`RemoveFails`), no event follows, and the core misses it until the next walk.

`Callers_proofs` proves `LookupsAreAnswered`, `AnswersAreMine` and
`RepliesAlwaysRight`, and for each of the three ways to wait the steps of its
refinement of `Calls`.  `Server_proofs` composes them: `RepliesAlwaysMatch`
(`RepliesMatch`) and `CallsAlwaysKept` (`CallsAreKept`), for any number of
clients, requests, methods and interjections.

- `LookupInv`: there is never an answer to the references request on the pipe
  before the worker has asked, and at most one; what was found was found by a
  worker that has ended.
- `ConnInv`: the id of every message, wherever it is, tells the request it
  belongs to, and ids are never used again; so comparing ids is enough.
- `TransportInv`: a connection is in one place, waiting once or being served,
  and has no reply until it is done; the head was checked before the body.

`Server_proofs` also proves the rest of the safety properties of `Server`, of
the parts by themselves and of all of them side by side.

- `ServerRemembers` (`MemoryIsTrue`), for any edits, batches, tasks and rings.
  The property speaks of histories (which batch had an edit last, what the runs
  of a task reported), the code of a list with marks and of a baseline.
  `MarksInv` says that the ring has no mark twice and, until it has overflowed,
  exactly the edits whose last batch failed; `DeltasInv` that what the reports
  introduced less what they fixed is the number of problems of the baseline.  That the marks of a batch
  are a union and its clearing a difference goes through the folds step by step.
- `ServerAnswersFit` (`AnswerFits`), for any queries, spans, costs and budgets.
  `AnswersInv` says that what is answered is `AnswerTo` of a request that could
  be made.  The rest is about that operator: an order is a sequence in which a
  span's place is the number of those before it (`OrderedSet`); the packing has,
  after each span, only what fits, and whatever it left out did not fit beside
  those it had (`PackKeeps`); a query held to its share spends no more, so fair
  shares add up to no more than the budget (`FairFits`).
- `ServerPagesGoOn` (`PagesGoOn`): what a cycle of pages showed and omitted is in
  `seen` until it starts over, so a page has nothing of either; `QueriesPage` says
  what a page has of the fused lists, which have every match where the search
  reaches all lines (`AllSearched`), so an empty page leaves no match but those
  that were omitted.  That these are never shown is run `server_paging`.  The
  property names `AllSearched` because the code does not ensure it: `lexical_ids`
  stops after 256 lines of a file when paging, and matches beyond them are on no
  page.
- `ServerShowsTheBest` (`BestAtTheEdges`), under the hypothesis `ListsAreShort`.
  Scores are integers in the model, in a unit that keeps the ranks of lists of
  ten thousand spans apart; the code's doubles do that for longer ones.  Of two
  spans that the two lists agree on one contributes no less in either and more in
  one (`ContributionFalls`, `AheadScoresMore`); the layout is a permutation whose
  places fall towards the middle (`LayoutHasEdges`).

TLC evaluates the hypothesis on the instance of run `server`.

`Text_proofs` proves, for any repository and any texts:

- `GuardsAlwaysProtect` (`GuardsProtect`): a symbol whose deletion is allowed is
  mentioned in no code outside of it but where another one of its name is meant,
  provided that no file has more lines with the name, or one that looks like it,
  than the search returns (`Complete`; then the search returns all of them,
  `CompleteHits`).  Two renames that are allowed, one after the other, keep two
  names apart in files that each of them edits together (`Together`), provided
  they do not rename two names to one (`NoRace`; `NameAfterTwo` works out what a
  name becomes);
- `ReachAlwaysExact` (`ReachIsExact`): the rounds of `impact` and `callgraph`
  are a recursive function; after each round its levels are the symbols at that
  distance, each once, and the rounds that follow an empty one add nothing;
- `AnchorsAlwaysOnce` (`AnchoredOnce`): an edit at an anchor is made where the
  anchor names one place, for texts, anchors and scopes of any length.  The search
  that goes on after each place finds all of them, because a place within another
  would make the anchor overlap itself (`HitsAreAll`); the edit takes and puts no
  end of a line, so the other lines keep their numbers and characters (`LinesStay`,
  `OtherLinesStay`);
- `SearchAlwaysExact` (`SearchIsExact`): a boolean search, which finds its terms in
  the whole text at once, keeps the lines that the terms describe one by one, and
  a count has the lines a search has.  The index of line starts counts the lines
  as they are (`LinesIndexed`), a word of one line is on a line just if it starts
  there (`FoundOnLine`), also in lower case (`LoweredLine`), and within the limit
  the operands are those that are not empty (`OperandsAreTerms`).  A count goes on
  after each place; what it passes over is on the line of that place, and the
  watermark is never above a line still to come (`LinesOneByOne`, `OtherLines`).

`Splice_proofs` proves of the edits of a text, for any text, bodies and number of
edits, with braces and without:

- `DiffsAreTheChange` (`DiffIsTheChange`): every edit leaves a text (`SpliceInv`),
  whatever spans and trivia it finds; the common lines at the two ends of two texts
  do not overlap, and the middle of the hunk is what is left;
- `TextsStayWritten` (`WellWritten`): from a text that is written well, every regular
  edit leaves one that is.  It parses, every line of code is inside exactly the symbols
  it was written into and a comment in no others, what stands above a symbol is
  kept together with it, no line comes twice, and where blocks go by
  indentation what is inside a definition is deeper;
- `NothingIsOrphaned` (`NothingOrphaned`) and `NeighboursAreKept`
  (`KeepsNeighbours`), from such a text and for regular edits.

The texts may have attributes of several lines, plain comments and code that ends
like a comment, wherever they may stand; `regular` excludes edits, not texts.

That code is inside the symbols it was written into is not inductive: the next
edit would be cut at the wrong line if trivia had come away from their symbol, if
two symbols had one number, or if a comment stood where it ends a block.  The
invariant is `WrittenInv`: `SpliceInv`, and while all edits were regular, numbers in the lines
and all parts of `Editable`; an irregular edit is never made up for
(`StaysIrregular`).  An edit is lines p + 1..q of a text replaced by m new ones.  The
argument has two halves that meet in `Fitted`.  One says what the parser makes of
such a text: where blocks end with a closing line the spans follow from the depth
of each line, and a block that is balanced changes it nowhere else
(`SpansInBraces`); where they go by indentation they follow from what is
deeper, and it is enough that the lines around the new ones are not deeper than
they should be (`SpansByIndent`).  So with room for the new lines, every other
line is in the symbols it was in (`FittedIsGood`).  The other half shows that
the program finds such room: the trivia it takes along are those of the symbol
where it recognises them (`TriviaAbove`: above them is no line of code that ends
like a comment, so the opening of a doc block is found before one crosses code),
and the indentation it reads off the lines around an insertion is
that of a member or of a sibling (`ReplaceFits`, `EmptyFits`, `DeleteFits`,
`InsertFits`; a replacement by nothing leaves an empty line under the trivia).  The
parse gate is part of the argument: where blocks go by indentation it rejects a
text in which a decorator is the last line of a block (`LastLineIndent`).

`Recursion` holds what these proofs need of recursion.  The library's induction
theorems take an operator as a parameter, which the provers at hand cannot
instantiate; here a property is a set, and induction over numbers follows from
the well-foundedness of strict inclusion between finite sets (`LeastNatural`).
From it come the existence of functions defined by recursion on a number
(`RecursiveFunction`, `CourseOfValues`), folds seen as a function of the prefix
(`RecursionOnPositions`, `FoldByPrefixes`), and sums over finite sets in whatever
order they are taken (`SubsetInduction`, `SumsExist`, `SumOfValues`).

Assumptions: `CoreAssumption` and `HashAssumption`; `ApplyAssumption` (the
special values differ, the bounds are natural numbers, the history has room for
one batch) and `EolAssumption` (`to_crlf` is idempotent, as its comment says);
`TokenAssumption` (every needle has its hosts, every text its tokens);
`LookupAssumption`, `WarmConnAssumption`, `TransportAssumption` (bounds are
natural numbers, `Nobody` is no client); `SessionAssumption` (a ring of at least
one mark, finitely many problems); `AnswersAssumption` (queries have their fields, near names
are sorted, a page holds at least one span, spans are in files and cost
something, a query outside of all files finds nothing);
`NavigationAssumption` (lines are positive numbers, finitely many; a file is in its
package, a name looks like itself, a depth of at least one);
`SpliceAssumption` (texts are sequences of lines); `MatchingAssumption` (texts,
anchors and terms are sequences of characters, a term is in one of three lists).  Besides them the hypotheses named above: `~Recreates`,
`MaxFaults = 0`, `ListsAreShort`; and of the edits two.  `BodiesAreBlocks`: what is
handed in is one definition, without another one inside, and where blocks go by
indentation all of it is deeper than its header; TLC evaluates it on the
instance of run `text`.  And the text is `WellWritten` when the edits begin, which is
the state of a formatted file: TLC checks it of the texts of the run.  It leaves
out a comment that is no deeper than the header of the block it stands in.  The
properties themselves are about regular edits: an edit that is not regular is
under "Known differences", with what it does.

Only model-checked, by run `text`: the properties of `CodeScan`, whose scanners go through a text character by
character; `PruneIsSound`, `SelectionIsExact` and `ReadingIsExact`, whose reference definitions are recursive in patterns and
token lists or range over all assignments of wildcards.  Liveness (`EventuallyFresh`, `CallReturns`,
`EveryCallReturns`) and `ENABLED` are out of the prover's reach.

## Not modelled

- Tree-sitter grammars and the language extractors: pure functions from text to
  spans, symbolic wherever a module needs them.
- The stdio transport and the CLI, packaging and benches: no state of their own.
- The audit log (one append per call), the guard on generated files (a lookup in
  the first lines of a file), the path sandbox, locators, PageRank.
- In queries: the session diff (made from the bounded undo history), git modes,
  dead-code listing, the listings of references, callers and imports, syntax-tree
  patterns, file suggestions, display caps (60 shown) and all wording.  The 200
  lines after which the search for references stops are no display cap: they
  bound what the delete guard sees (`MaxHits`).  The plan of a boolean search over the
  token index is not modelled, its literals and its line search are.
- Regular expressions beyond those in `Matching`: they belong to a crate.
- Concurrent queries: they hold the lock and read; what they do to memos is in
  `WarmCore`.
- The verify command acts on the disk as another program (`ExternalWrite`).  It
  runs under the lock and has no time limit (engine.rs:4486).
- A file of more than `max_file_bytes` or with a NUL byte behaves as `Binary`.

## Known differences

Places where the model's inputs or a property leave something out that the code
does, most of them at the edge of what its comments promise.

Edits and scanners.

- A replacement is inserted as it was handed in (apply.rs:330), and no gate looks
  at where it stands: a Python method, the last member of its class, replaced by
  a definition at column 0 parses, and has left the class.  The comment on the
  gate (crates/vyer-index/src/lib.rs:65) says it "refuses a structurally-broken
  write".  `regular` excludes it (`InPlace`).
- `leading_trivia_start` looks at how each line above a symbol starts
  (apply.rs:230), so it stops at the last line of a `#[derive(..)]` or
  `@decorator(..)` of several lines, and at a plain comment between an attribute
  and its item.  A delete leaves what is above to the next symbol, and `@before`
  inserts between, against apply.rs:209-212 ("A delete/move must take these
  along").  Python rejects the result where it no longer parses; Rust does not.
  `regular` excludes it (`Recognised`).
- A line of code above a symbol that ends in `*/` makes the same search walk
  upward across code until a line starts with `/*` (apply.rs:242-257).  If that
  is a `/**`, all lines between are taken along with the symbol, other symbols
  included, although apply.rs:241 says "only when the open/close are balanced".
  `regular` excludes it (`Recognised`).
- In the texts of the model a plain block comment is one line, and closing lines
  have no comment behind them: in one of several lines, or after a `}`, `*/` leads
  to the same search.  A Python container with a comment in column 0 ends there
  for `@into` (apply.rs:546-575) and is not among the texts.
- The scanners do not know nested block comments, byte raw strings, an escaped
  backtick, or the triple quotes of Kotlin, Swift and Java; `9a` counts as an
  identifier.  The gate does not know raw strings and block comments, so
  `GateCountsCode` is about files without them (`GateKnows`).

Selection and graph.

- A plain name with spaces around it is trimmed when it is classified and looked
  up untrimmed: it is not found (`Padded`).
- An anchor that overlaps itself counts once where it overlaps; one of several
  lines may begin in the scope and end outside it (apply.rs:353-358).
- Operands of a boolean search beyond 64 are ignored, and empty ones; one of
  several lines is found on the line it starts on.
- A recursive call counts as a reference to its own symbol, so a recursive
  function is deleted with `force` only.
- The guards look once, before the batch: two renames of one batch of different
  symbols to the same free name both pass and merge them, although engine.rs:3682
  says "refuse a rename onto a name that ALREADY exists" (`NoRace` excludes it).
  The rename guard looks at symbols only, and only in the path scope of the
  request (engine.rs:3701-3708).
- The delete guard takes the first 200 lines of a file that a smart-case search
  finds and only then drops prose, other spellings and definitions
  (engine.rs:2209), so a use below 200 such lines does not keep a symbol from being
  deleted, although the comment says "refuse to DELETE a symbol that still has
  references" and "The warm ref graph KNOWS" (engine.rs:3638-3640).  `Complete`
  excludes it.

Answers and reads.

- Paging: ids are recorded as seen before packing (engine.rs:1036-1050), and a
  span that a page had no room for is not shown until the set starts over (run
  `server_paging`); when it does, spans repeat.  Paging past the end of a plain name says there is
  no exact match.  Suggestions ignore the budget.
- The module comment of the packer says it stops when the next span would exceed
  the budget; it skips that span and goes on.  "omitted lower-ranked" is not
  true when the best span is too big.
- A range keeps its first line, so a huge line is left out by the packer although
  engine.rs:1724 says a span is never dropped; below about 31 tokens the note
  goes too.  An empty file read by lines reports one omitted line.
- A `help:` block's arrow gets the severity of the message before it, and a path
  that contains "error" counts as a severity.  Camel-case words of one letter or
  ending in a digit split differently from the same words with underscores.

Session.

- Renewing the mark that is the oldest of a full ring lets it fall out
  (`MarksAreTrue` is about rings that have not overflowed).  All edits of a
  failed batch are marked, the innocent ones too.
- A failed run without a diagnostic at a file and line reports that all is clean
  (engine.rs:3477).  `verify` shares the baseline of a task of the same label.

Language servers and transport.

- A child of the language server that keeps its pipes makes the join wait for
  ever, although semantic.rs:119 says the query never blocks indefinitely
  (`LookupReturns` excludes an heir).  A request of the server under the id 1 is
  taken for the initialize result; on a kept connection one under the waiting
  id is taken for the answer (the latter is not modelled).
- A server that fills the channel faster than a request empties it keeps the
  request past its deadline.

## Plan

Done: the parts of the inventory in the order core, indexes, write path,
watcher, algorithms on texts, answers, session, language server, transport; two
abstract specifications and what implements them; proofs of every safety
property of the stateful parts, and of the edits, graph queries, guards, anchors
and the boolean search.

Left, in order of worth:

1. An abstract workspace, in which a batch takes effect at one step or not at
   all, implemented by `Apply` when no file operation fails.
2. The scanners as recursive functions over positions, then `GateCountsCode`.
3. The commit side of the watcher with several calls in flight: the run has one.
4. The sandbox of paths and the locator as functions.
