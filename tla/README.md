# A formal model of repowise

repowise indexes git repositories (symbols, graph, git history, generated wiki
pages) into one `wiki.db` per repository, keeps the index in step with HEAD and
serves it over HTTP and MCP. Most of the code is sequential data processing. What
is hard to get right, and hard to test, is the coordination around it: jobs of
the asyncio server, processes of the CLI, and what they share on disk. That is
what this directory models (TLA+), checks (TLC) and proves (TLAPS).

Paths below are relative to `src/packages/`: `S` is
`server/src/repowise/server`, `C` is `core/src/repowise/core`, `L` is
`cli/src/repowise/cli`.

## Inventory

| Component | State it keeps | Operations | What is hard | What makes it correct | Here |
|---|---|---|---|---|---|
| Generation jobs (`S/job_executor.py`, `S/routers/jobs.py`, `C/cancellation.py`) | `generation_jobs.status`, `job_tasks`, `job_cancel_tokens`, the process-global token slot | execute, progress write, finalise, cancel | every status write is a read and a commit in its own session; cancellation lands at any await; jobs overlap | a finished row stays finished, a cancel wins, no row blocks the guard for ever, no token outlives its task | `JobLifecycle` |
| Job launchers (`S/routers/repos.py`, `S/routers/webhooks.py`, `S/scheduler.py`, `S/app.py`) | nothing of their own | sync/resync/generate/index, webhooks, poller, delete, startup reset | guard and INSERT are not atomic; three launchers with different rules; two kinds of database | one active job per repository | `JobLifecycle` |
| Update lock (`C/update_lock.py`) | `.update.lock` | acquire, read, release | stale owners, unlink of somebody else's lock | exclusion until one of three openings is used, no waiting for the dead | `IndexSync`, `Watch` |
| Index sync (`L/commands/update_cmd`, `C/workspace/update.py`, stamp in `S/job_executor.py`) | `wiki.db`, `state.json`, `.update.pending` | CLI update, workspace update, server stamp | commits land meanwhile; pointer, index and HEAD are read at different moments; kills | the pointer never claims more than is indexed; the index never goes back | `IndexSync`, `SyncedIndex` |
| Docs update (`L/commands/update_cmd`, `C/ingestion/change_detector.py`) | the file pages, `last_docs_commit`, two fingerprints | plain, docs and index-only update, configuration run | two pointers, one budget, four kinds of run taking turns; failures the run survives | a page behind its file says so; a clean run repairs every page; the pointer reaches HEAD | `DocsUpdate` |
| Interrupted and resumed init (`L/commands/init_cmd`, `C/pipeline/resume`, `C/pipeline/persist.py`, `C/generation/page_generator`) | `pipeline_jobs` (the phase ledger), `wiki_pages`, vector store, full-text index | phases with checkpoints, waves of pages, background flush, last persist, `--resume` | three stores written at three moments; every failure is swallowed; kills anywhere | nothing that is skipped is missing; prose is not lost; what is kept can be searched | `InitResume`, `WikiPages` |
| Repository registry (`C/workspace/registry.py`) | LRU of open contexts, background vector-store loads | get, evict, close | double load, check-then-act cap, stale load result, cancellation | few contexts open, each evicted one disposed of, nobody waits for ever | `RepoRegistry` |
| Rate limiter and retries (`C/rate_limiter.py`, `C/providers/llm`) | windows of requests and tokens | acquire, send, back off | window edges, lazy pruning, two retry limits on one counter | limits kept, requests that fit are served | `RateLimiter` |
| Watch command (`L/commands/watch_cmd.py`) | changed paths, debounce timer | file event, trigger, update | threads, timers cancelled too late, updates in the watcher's own process | no change forgotten; no two updates at once, as far as the lock excludes | `Watch` |
| Storage coordinator, phase checkpointer, job events and SSE, MCP tools, ingestion, analyses, page contents, web UI | | | only tests use it, readers, pure functions or external calls | | not modelled, see the last section |

The components meet in few places. A launcher inserts a row and creates a task;
the cancel endpoint, progress writes and the executor write that row; a restart
resets it. A job, a CLI update and a workspace update write the same `wiki.db`
and `state.json`; only the two updaters take `.update.lock`. The watcher runs
either updater inside its own process, the post-commit hook runs one in another.
`init` comes before all of them and takes no lock. Page generation, in `init`,
in updates and in jobs, sends its requests through the rate limiter. The MCP
server opens the databases the others write, through the registry.

The modules cut there. `JobLifecycle` and `IndexSync` split the server job: the
first sees its status and treats the pipeline as one stage, the second sees its
effect on the disk. `IndexSync` has the lock, overlapping processes and the
index; `DocsUpdate` has the pages and lets updates follow one another, which is
what the lock is for; `Watch` has the threads that start updates, takes the lock by
the same system calls as `IndexSync`, and an update for one step between that and
moving the pointer.

Every module states the bounds of TLC's instance as constants (`MaxCommits`,
`MaxCrashes`, ...) in the guards of the actions they limit, and every theorem
holds for all their values.

## Plan

1. `JobStatus`, `JobLifecycle`, `JobLifecycleProofs`: done.
2. `SyncedIndex`, `IndexSync`, `IndexSyncProofs`: done.
3. `WikiPages`, `InitResume`, `InitResumeProofs`: done.
4. `RepoRegistry`, `RepoRegistryProofs`: done.
5. `RateLimiter`, `RateLimiterProofs`: done.
6. `DocsUpdate`, `DocsUpdateProofs`: done.
7. `Watch`, `WatchProofs`: done.

Left to do: deleted and renamed
files, with their tombstones, in `DocsUpdate`; a count of users per context in
`RepoRegistry`, should the code get one.

## `JobLifecycle`

### State and actions

Database: `status` (the column, plus "absent" and "deleted"), `registered`.
Process: `tokens` is `app.state.job_cancel_tokens`, `flipped` the tokens that
were set, `slot` the global `_active_token`, `interrupt` a `task.cancel()` that
has not been delivered, `pc` where the launch or `execute_job` stands, `seen`
the executor's transaction, `goal` the status `_finalize_job_status` was
called with, `write` every other transaction (progress writes, cancel
requests, the done-callback's fallback). `interrupted` is a history variable for
properties: the jobs whose live task the cancel endpoint reached.

What decides the model's granularity:

- `update_job_status` selects the row and then assigns; SQLAlchemy emits the
  UPDATE at flush, with the columns whose value differs from the selected one.
  So reading and committing are two steps and `Written` leaves `status` alone
  when the target equals what was read. An UPDATE of a row deleted in between
  raises.
- A task runs undisturbed between awaits. `StartTask` is everything up to the
  first await; `CancelSignal` flips the token and cancels the task in one step.
- `task.cancel()` is delivered at the await the task is suspended at, while the
  statement it waited for may land: `DeliverCancel` competes with `CommitRow`
  until one of them is taken. In `except:`, or before the first step, the
  exception escapes and the done-callback writes "cancelled" through the
  fallback. A cancelled `gather` passes the cancellation on and ends when
  its children have.
- Only `_launch_job_task` registers a task in `job_tasks` and adds the
  fallback (`Tracked`); webhooks and poller do neither, and use the primary
  database (`GuardSees`).

| Action | Code |
|---|---|
| `SyncRequest`, `PushEvent`, `PollingFallback`, `InsertRow`, `LaunchTask` | the launchers up to `create_task`, cut at the awaits |
| `StartTask`, `ReadRow`, `CommitRow` | `execute_job`'s start and its own status transactions (running, completed, final) |
| `PipelineDone`, `TaskRaises`, `PollCancelled` | the three ends of the pipeline stage |
| `SpawnProgress`, `Drained` | `_sync_job_status`, `drain_and_stop` |
| `FinalizeFails`, `TaskEnds`, `DeliverCancel` | `_finalize_job_status`'s swallowed error, the normal end, `CancelledError` |
| `CancelCheck`, `CancelSignal` | `cancel_job` before and after its first session |
| `WriterReads`, `WriterCommits`, `WriterFails` | `update_job_status` in everyone else's session |
| `DeleteRepo`, `Crash`, `Startup` | `delete_repo`, loss of the process, `lifespan` |

Simplifications: deleting a repository with its own database is one step;
the restart's reset either covers every database or fails as a whole; a
graceful shutdown is a crash; `create_task` itself does not fail, and the
fallback's "failed" branch, unreachable because `execute_job` catches every
`Exception`, is left out.

### Runs

| Run | Instance | Shows |
|---|---|---|
| `JobsPair` | 2 jobs of 2 repositories, one of which may be deleted, failing writes, 1 progress write and 1 cancel request each, 1 crash | `SlotNotPoisoned`, `TokensMatchTasks` under every overlap; `RowsFollowJobStatus`: refinement of `JobStatus` |
| `JobsSingle` | 1 job, all launchers, 2 progress writes, 2 cancel requests, deletion, 1 crash, fair | `TypeOK`, `FinalWriteIsLast`, `ActiveHasOwner`, `CancelWins`, `JobsEnd` |

The slot and the guard are the only things two jobs share, and the slot is a
single cell, so two jobs exhibit every overwrite and disarm; rows do not
interact, so the properties of one row need one job but several writers. Of the
pair the second may be a webhook's (`FirstRequested`), which is the pair of which
one job is tracked and the other is not. Two
writers of each kind are enough for a lost update between any two. One crash
reaches every stage, and a second finds only what a restart leaves.

`LoopFairness` is weak fairness of each job's launch, task and writer steps and
of the restart: the event loop runs every ready callback, and SQLite answers or
times out. Users, webhooks, the poller, deletion and crashes are never fair, nor
is the end of a pipeline. `JobsEnd` has two parts: `InterruptedStops` holds for a
pipeline that hangs, and `GuardReleased` names `PhasesEnd` as its premise, which
provider timeouts and retry limits provide.

### Where comments and code differ

One run finds a behaviour in which the code does not keep what a comment says
(the quote is in `PROJECT.json`):

- `GuardRace`: two active jobs for one repository, because the guard and the
  INSERT are separate steps.

More are visible in the definitions and need no run: of two overlapping jobs the
earlier polls the later one's token, so cancelling the later aborts both
(`PollCancelled` reads `slot`); webhooks have no guard (`PushEvent`) and the
poller asks the primary database (`GuardSees`), so both launch beside a running
job; the executor writes "running" over a "cancelled" it has just read
(`JobStatus` allows that move); a cancel checked before a job completed turns it
into "cancelled" (so does `JobStatus`); and a failing final write leaves its row
active until the next restart, which is why `ActiveHasOwner` is checked and
proved for `~ WritesMayFail` only.

### Proofs (`JobLifecycleProofs`)

For any sets of jobs, repositories, progress writes and cancel requests, with
or without failing writes, deletions and any number of crashes, from
`JobsAssumption` alone:

- `TypeCorrect`, `TokensExact`, `SlotSafe`, `FinalWriteSafe`: the safety
  properties of the runs;
- `Refinement`: `Spec` implements `JobStatus!Spec`;
- `TasksAdvance`: each step of a launched task lowers `TaskLeft`, a rank of at most
  14, or leaves the task where it is;
- `GuardOwned` and `CancelPrevails`, with the extra assumption that status writes
  succeed: `ActiveHasOwner`, `CancelWins`.

None of these is inductive. That a completed row never runs again depends on
which status the row can have at each stage of its task: `RowAtStage` ties
`pc` to `status` (before the task starts, only "pending" or "cancelled";
in the pipeline, only "running" or "cancelled"; an "unwind" to "failed" is
never on a completed row), `ReadAtFetch` says what the first transaction can
have read, and `ProgressAtStage` that progress writes exist only where the row
cannot be final yet, which is what `drain_and_stop` is for. `WritersHaveRow`,
`SlotRegistered` and `DownIsQuiet` close the induction. `IInv` is their
conjunction; `InvInit` and `InvStep` prove it inductive with one step per
action; `RowsStep` shows that each step is a step of `JobStatus` or leaves
`status` alone. `GuardOwned` needs three more facts (`OwnerInv`): what the
final transaction has read, that its commit leaves no active row, and that a
row still active after its task's end has a pending fallback. `CancelPrevails` adds
`CancelInv`: an interrupted task has yet to see the cancellation, is on its way to
record it, or has recorded it, and otherwise its fallback is pending (`WinsInv`);
and the fallback starts only when the task has ended, so that nobody overwrites
what it read (`FallbackRead`). Without the assumption both are false: a lost
final write leaves the row as it was.

`TasksAdvance` is the part of `JobsEnd` that can be proved: neither a cancellation
nor a failing write nor a deletion sends `execute_job` back to a stage it has
passed, and a task that has ended stays so. The only further fact it needs is that
the executor has a transaction of its own open exactly where it writes a status
(`SeenAtStage`). That no task stands still is the fairness, and `JobsEnd`'s.

Only model-checked: the liveness property `JobsEnd`. Liveness
and `ENABLED` are out of reach for the prover, here and in every section below.

## `IndexSync` and `SyncedIndex`

### State and actions

Git: `head`, `touched` (the files each commit changed), `tree` (the version of
each file). Disk: `store[f]`, the commit whose version of `f` the index holds;
`pointer`, the `last_sync_commit`, or `Unreadable` for a truncated `state.json`;
`lock`, `pending`. History: `behind`, the files of which an update has skipped
rows, and said so; `breached`, see the properties. Each run: `pc`, `base` (what it diffs from), `target` (what it
will record), `parsed`, `scope`, `tries`. History is linear and commits are
numbers, so "ahead" is `>`.

| Action | Code |
|---|---|
| `LoadState`, `ReadHead` | `run_update` before the lock; the staleness check of `update_workspace` |
| `Link`, `Probe`, `ClearStale`, `Recheck`, `Defer` | `try_acquire_update_lock` as its system calls, and the callers' deferral |
| `Rebase` | `update_single_repo_index` reading `state.json` again under the lock |
| `Parse`, `Persist`, `PersistsPartly`, `Fails` | diff, parse and one index transaction (`persist_incremental_index`), some of whose steps may be skipped |
| `Save`, `ConsumePending`, `Release` | `save_state`, the marker, `atexit` or `finally` (for the workspace updater before `Save`) |
| `StartJob`, `StampHead`, `Truncate`, `WriteState` | the server job's `_stamp_last_sync_commit` and its in-place write |
| `Commit`, `Crash` | a developer, SIGKILL |

`Parse` stores the newest versions, because the working tree is parsed, while
`target` is the HEAD read earlier. `Inside(r)` is the section the lock is
meant to protect. What `read_update_lock` says of a lock is `LiveLock` or `DeadLock`.
Both may hold: a lock that has aged under a living owner is judged either way with
`SlowRuns`, and so is that of a dead one in `Unprobed`, whose death no PID probe can
tell (the probe cannot decide, or the PID was recycled and no token says so), which
counts as live until it has aged. Left out: pages, `last_docs_commit` and what a changed configuration or renderer does
(all in `DocsUpdate`), `--since`, dry runs, the one-off save that
back-fills a legacy `docs_mode`, an unexpected `OSError` (which counts as
acquired), rebases. A commit changes at least one file.

A step of the transaction that fails is skipped and reported, and the run goes on
(`_skip`, `incremental.py:930`). `PersistsPartly` does that to all the files in the
run's scope: they keep the version they had, though some of their rows may be new,
and count as `behind` until an update indexes them again.

`SyncedIndex` is what a reader of the index, or the next diff, relies on: the index
holds versions the history has, moves only forward, and the pointer names a commit
whose changes, and all earlier ones, are indexed or known to be behind. `lock`,
runs and kills are not part of it.

### Runs

| Run | Instance | Shows |
|---|---|---|
| `SyncRuns` | any two of 2 updates and 2 workspace updates with 3 commits of one file or 2 of two; any three runs, a server job among them, with 1 commit; slow owners, one that cannot be probed, 1 kill; fair | `TypeOK`, `ExclusiveUnlessBreached`, `PointerCovered` (although the workspace updater saves after releasing the lock), `TornOnlyByJobs`, `IndexFollowsHistory`: refinement of `SyncedIndex`, `DefersOnlyToLive`, `RunsEnd` |
| `RollForward` | 2 updates, 2 commits, fair | `RollsForward` fails |
| `LockTakeover` | 2 updates and a workspace update, 1 commit, no slow owner and no kill | `MutualExclusion` fails |

`MutualExclusion` is what the comments claim, and false. What the code keeps is
`ExclusiveUnlessBreached`: the lock has three openings, and `breached` records the
use of one. It is set when a lock is created while another contender stands between
judging stale what was there and unlinking it (`Link`), when a lock that has aged
under an owner at work is judged stale (`Probe`), and when a run that has lost the
create twice goes on without a lock (`Recheck`). Taking over the lock of a killed
update does not count as one. `PointerCovered` and `IndexFollowsHistory` hold for as
long as the history is `Undisturbed`: no breach, and no server job beside the updates.

Two files are needed so that a run can cover one and miss the other; two or
three commits so that one lands before, during and after another run; three runs
for a takeover that is raced, and for a server job beside two updates. Each process
runs once; more runs of one process are more processes. Files and the processes of
one kind are interchangeable, so `PairOrThree` lets them start, and change, in one
order only. As nobody has to start a process or to commit, what the bound leaves out
takes nothing from the liveness property. `FairSpec` is weak fairness of each
process's own steps: a process that is not killed is scheduled.

### Where comments and code differ

Two runs find a behaviour against what a comment says:

- `RollForward`: nothing consumes `.update.pending` by running another round.
- `LockTakeover`: two of three ordinary updates work at once. The owner releases its
  lock between a contender's failed `os.link` and its `read_update_lock`, which then
  finds no file and returns `None`, the same as for a stale lock; a third update
  creates its lock; the contender unlinks that, creates its own, and both are inside.
  Two contenders of any stale lock can do the same. The docstring says that no
  contender "deletes the winner's live lock (two "winners")", and `run_update` that
  two updates "can no longer both pass" (quoted in `PROJECT.json`).

The others are visible in the definitions. A server job records the HEAD of its end,
past what it parsed (`StampHead`), so that the next update skips the difference. The
server's `write_text` truncates `state.json` first (`Truncate`), and a kill then leaves it
unreadable, which `save_state` avoids by replacing the file. And the CLI reads HEAD
and the state it will save before the lock (`ReadHead`), so a run that waited in
between puts the pointer back; `PointerCovered` and `IndexFollowsHistory` show what
that cannot break. And the pointer also passes what a transaction skipped
(`PersistsPartly`): those files stay behind until a commit changes them again. The
CLI says so in its report ("honest completion report", `incremental.py:916`); the
workspace updater passes no list and only logs it.

### Proofs (`IndexSyncProofs`)

From `SyncAssumption` alone, for any processes, jobs, files, commits and kills:

- `TypeCorrect`, `TornSafe`: `TypeOK`, `TornOnlyByJobs`;
- `LockNamesOwner`: whatever lock file there is names an update that is inside its
  section or was killed there;
- `DefersSafe`: `DefersOnlyToLive`;
- `RunsAreFinite`: each step of a run lowers `StepsLeft`, a rank of at most 18;
- `LockExcludes`: `ExclusiveUnlessBreached`, for any number of lockers;
- `PointerSafe`, `Refinement`: `PointerCovered` and `IndexFollowsHistory`, so up to
  the first breach or server job;
- `ExclusionSuffices`, for `Jobs = {}`: if `MutualExclusion` always holds, the
  pointer is always covered, and `Spec` implements `SyncedIndex`;
- `TwoNeverBreach`, for two lockers (`TwoLockers`) of which neither outlives the
  stale ceiling (`~ SlowRuns`): `breached` stays false; and so, without jobs,
  `TwoFollow`: `Spec` implements `SyncedIndex`.

Their invariant `IInv` adds to the types which stages a job, an update and a
workspace update can be at, and that an update takes the lock only with work to
do. `DefersSafe` needs `LockNamesHolder` as well: a live lock then means a run
inside, or one killed there that nobody can probe. `RunsAreFinite` is the half of
`RunsEnd` that can be proved: no run goes on for ever, so it ends, is killed or
stands still, and the run checks that none stands still under `FairSpec`.

Exclusion is not inductive, because the lock file alone does not say who is
inside: an owner that has left or died may still be named, and an unlink removes
whatever is there. `Guarded` says that, without a breach, whoever is inside holds the
lock, and that while somebody is about to unlink, no lock of a living owner is there:
a lock can only have gone since he looked, or else its creation was a breach. The
conditions under which nothing is breached are those of `TwoNeverBreach`; a third
locker (`LockTakeover`) or a slow owner ends them. There `LockInv` adds that a run
which found the lock taken clears it only after the other has left for good (`Left`),
and that it finds nobody at its second try. `ExclusionSuffices` shows that a lock that
kept any number of updates apart would be enough.

For the index, `CovInv` is about `Claims`: the commits that are the pointer, the base
of a run, or the target of a run that has persisted. `TreeCurrent`: the work tree
holds at least what every commit brought, and no recorded commit is ahead of HEAD.
`ClaimsCovered`: every claim is covered by the index, except in files behind.
`ParsedNewer`: what the run about to persist has parsed is no older than the index
and than any claim, which needs exclusion, and its scope contains every file changed
between its base and its target. So its transaction covers all the claims and its
own target, also when it takes files from `behind` or leaves them there, and `Save`
is safe, also for the workspace updater, which saves without the lock. Every other
step claims nothing new. `KeptInv` makes this an invariant of the lock as it is: the
history was undisturbed before any step that leaves it so (`DisturbedStays`). One lemma per kind of step (`CovCommit`, `CovParse`,
`CovPersist`, `CovOther`) carries it; `VersionsExist` adds, for the refinement, that
every version came from a commit.

Only model-checked: the liveness property `RunsEnd`.

## `InitResume` and `WikiPages`

### State and actions

One `init` follows another on one repository; all that survives a kill is on
disk. Disk: `rows` (`wiki_pages`), `vectors` and `fts` (the two search stores),
`stored[ph]` (the version of the repository the persisted phase was made from),
`completed` (phases with a COMPLETED row in `pipeline_jobs`), `docsMode`. The run:
`pc`, `phase`, `mode`, `resume`; `skippable`, `skipped`, `onDisk` and `held` of
`ResumeController`; `done` (`completed_ids`), `level`, `out` (what became of each
page), `queue` of the flush, `swept`, `unread`. `unwritten` is history: pages left
without prose by a template run or a lost flush.

| Action | Code |
|---|---|
| `Edit`, `StartRun` | commits; `init` with or without `--resume`, by a model or from templates |
| `Skip`, `SkipFails`, `Compute`, `StorePhase`, `StoreFails`, `MarkCompleted` | a phase: `can_skip` and rehydration, or the pipeline, `checkpoint_*`, `mark_completed` |
| `Seed` | `completed_ids` from the vector store |
| `PageWritten`, `PageReused`, `PageFailed`, `PageRendered`, `PageRaises` | the outcomes of a page in `run_level` |
| `EmbedWave`, `EmbedCut` | `embed_batch` after a level; a kill between two chunks |
| `Flush`, `FlushFails`, `Drained`, `DrainTimeout`, `Interrupt` | the flush task, its drain (60 s) and Ctrl+C |
| `Sweep`, `Commit`, `CommitFails` | `persist_pipeline_result` in one session, the stale keyed pages' vectors before it |
| `IndexForSearch`, `SearchCut`, `StampAnalysis`, `SaveState`, `Kill` | the end of `persist_result`; SIGKILL anywhere |

A page is abstracted to who wrote it: nobody, a template (stub), a model (prose).
`WikiPages` is the life of the rows as a reader of the wiki sees it: prose gives
way to a stub only under a template run, and a row goes only when the run no
longer stands behind the page.

Assumptions: every run uses the same embedder and LanceDB; a wave's pages finish
in any order and the flush takes any of its queue (its order only matters for
which pages a kill loses, which is then any); the pages of import cycles are left
out.

### Run

| Run | Instance | Shows |
|---|---|---|
| `InitRuns` | 2 keyed pages in 2 waves, 2 runs of either kind, 1 edit that drops a page, 2 faults, kills anywhere, fair | `TypeOK`, `LedgerBacked`, `SkippedIsWritten`, `FtsCovers`, `FreshRunSyncs`, `RowsFollowWiki` (refinement of `WikiPages`), `RunsEnd` |

Two runs are an interrupted one and the one that resumes it; what two runs leave
is again a set of stores that one run can leave, together with a fault. Two pages
in two waves are enough for a wave embedded while the next has not been written.
`FairSpec` is weak fairness of the run's own steps. The flush has none:
`RunsEnd` must hold when the database hangs, which is what the drain's timeout is
for. The theorems hold for any of these numbers.

### Where comments and code differ

No run: all of it is visible in the definitions. The ledger takes any COMPLETED row
however old (`ledger.py:54`), so a phase that was in flight at the crash is not
always done again, as `ledger.py:4` has it: an earlier run may have completed it.
`LedgerBacked` only says that what is skipped is on disk. A page that failed must
get no vector (`ToEmbed`), but keeps one that a template run gave it, and the next
`--resume` skips it (`orchestrate.py:603`); `SkippedIsWritten` names such pages
through `unwritten`. And the commit `init` records as synced is HEAD at its end
(`command.py:1494`), even when a resumed index is older.

### Proofs (`InitResumeProofs`)

From `InitAssumption` alone: `InitTypeCorrect`, `LedgerIsBacked`, `FreshRunsSync`,
`SkippedPagesAreWritten`, `SearchFindsThePages`, `RowsImplementWiki`, each the
property of the run with the matching name.

Each has an invariant of its own, because they are about different stores.
`PhaseInv`: what is skipped was completed, what is marked was stored, what is
stored was computed or rehydrated; without it a mark could precede its checkpoint.
`FreshInv`: a run without `--resume` skips nothing and calls its index persisted
only once it is. `PageInv` says where outcomes come from (`OutcomeInv`), that the
queue has pages of this run (`QueueInv`), that a finished wave has no page without
an outcome (`WaveInv`), and that the sweep spares what was produced or skipped
(`SweepInv`). `WrittenInv` adds to `SkippedIsWritten` what each outcome still owes
to its row (`OwedInv`). `RowStep` shows that each step moves rows as `WikiPages`
allows or leaves them.

Only model-checked: `RunsEnd`.

## `RepoRegistry`

### State and actions

`contexts`, `order` and `vs_tasks` are the registry's three dictionaries (the
access times as the order they imply). Contexts are numbered as they are made:
`task`, `ready`, `open` say what became of a context's background load, its event
and its engine. `pc`, `want`, `victim`, `awaits` are the locals of each tool call
and of `close`. `lost` is history.

| Action | Code |
|---|---|
| `Hit`, `Miss` | `get` up to its first await, with the choice of what to evict |
| `Pop` (part of `Miss`, `CloseNext`), `Unloaded`, `Disposed` | `_dispose_context` cut at its awaits |
| `Loaded`, `LoadFails` | `_load_context` returning, and what `get` does with it before awaiting anything |
| `Cancel` | the tool call is cancelled |
| `TaskEnds` | `_load_vector_stores` with its `finally` |
| `Close`, `CloseNext`, `Closed` | `close` |

Left out: a load that fails or is cancelled before its context exists (its engine
is not disposed of either); what a caller does with a context after `get` returns,
in particular while another call evicts it (listed as a hazard: the code counts no
users); `close` starts when no call is inside `get`.

### Run

| Run | Instance | Shows |
|---|---|---|
| `Registry` | 2 calls, 3 repositories (one the default), room for 1, 3 contexts made, fair | `TypeOK`, `CapBound`, `CachedIsUsable`, `EveryContextAccounted`, `DefaultStays`, `NobodyWaitsForEver` |

Two calls race for one repository or evict each other's; a third context is
needed for the load of an evicted repository to end after it was loaded again.
`FairSpec`: the event loop runs what can run, so tasks, disposals and loads
end. Nobody has to call, or to shut the server down. `CapBound` and
`EveryContextAccounted` are as strong as the code allows: concurrent misses pass
the cap by one less than the number of calls, and a double load or a cancelled
eviction leaks a context, which `lost` records.

### Proofs (`RepoRegistryProofs`)

From `RegistryAssumption` alone: `RegistryTypeCorrect`, `CachedContextsAreUsable`,
`ContextsAreAccounted`, `DefaultIsKept` and, for any number of calls,
`LoadedStayBounded`; and two that no run states:

- `WaitsAreFounded`: a cached context is ready or its load is running uncancelled,
  and an eviction waits only for a load that was cancelled or has ended. This is the
  half of `NobodyWaitsForEver` that fairness has no part in.
- `EvictionFindsVictim`: when the cache is full there is exactly one least recently
  used repository, and it is not the default.

`CareInv` is about who answers for a context: contexts are numbered when cached
and under their own alias (`Numbered`), and an actor has a victim exactly while it
evicts (`EvictsItsVictim`); without these a cached context could be somebody's
victim. `PopCares` is the step in which a context passes from the cache to the
actor that evicts it. `LoadInv`, for `WaitsAreFounded`, adds that the task kept for
an alias is that of the context cached there, so that nobody cancels the load
of a context he does not evict. `Orders`, for `EvictionFindsVictim`, says that
the order of use is a strict total order of the cached repositories; `FirstElement`
finds its least element by well-foundedness. `CapBound` is inductive together with `TypeOK`, since
it counts the calls that are to cache one context more; its lemmas are about
cardinalities. Only model-checked: `NobodyWaitsForEver`.

## `RateLimiter`

### State and actions

`kept` are the records of `_request_times` and `_token_records`, which always
change together; `age` and `tokens` belong to a record, `granted` is history: the
requests let through within the window. `pc`, `estimate`, `nap`, `attempt` belong
to a caller.

| Action | Code |
|---|---|
| `Acquire`, `Look` (with `Grant` or `Sleep`) | `acquire`: first look and every later one, under the lock without an await |
| `Answered`, `Throttled`, `Transient`, `Resend` | `_generate_with_retry` and its stop and wait policies |
| `Cancel`, `Tick` | the caller's timeout; time |

Time passes in ticks of the shortest sleep and ages stop at the window. Attempts
are counted up to the larger limit. What the code does and the properties say
openly: a request above the whole budget waits for ever (excluded in
`CallsProgress`), waiting requests are in no order (others may overtake for ever),
and a retry is sent without asking the limiter (`Resend`).

### Run

| Run | Instance | Shows |
|---|---|---|
| `RateWindow` | 2 callers, estimates of 1, 2 and 4 tokens, 2 requests and 3 tokens in a window of 3 ticks, 4 and 2 attempts, fair | `TypeOK`, `LimitsHonoured`, `CallsProgress` |

Requests meet either limit first, 4 is above the budget, and the window is long
enough to hold requests of different ages. The counts of attempts are smaller than
the code's (only their order matters). `FairSpec`: time passes, sleeps end,
every attempt ends because HTTP clients have timeouts, and backoffs end. Three
records suffice for two granted requests and one being pruned.

### Proofs (`RateLimiterProofs`)

From `LimiterAssumption` alone: `LimiterTypeCorrect` and `LimitsKept`, for any
limits, window and callers. `WindowInv` says that the limiter never forgets a
request too soon: what the window holds (`granted`) is among what is left after
pruning, so that the limiter's own count is an upper bound. Sums of tokens are
cardinalities of sets of pairs (`Reserved`), which lets `TpmAdds` and
`TpmMonotone` follow from facts on finite sets.

Two theorems say what can be proved of `CallsProgress`. `NobodyOversleeps`: whoever
waits wakes up no later than the next record leaves the window (`WakesInTime`),
whatever others are granted or prune meanwhile. `CallsAreFinite`: an attempt's
number stays within the limits and the rank `AttemptsLeft` falls whenever a request
that went out moves on, so that it is sent a bounded number of times in whatever
order 429s and other failures come, although two limits share one counter. Only
model-checked: `CallsProgress` itself.

## `DocsUpdate`

### State and actions

Outside: `history` (the files each commit changed), `tree`, `config`, `release`.
Pages: `version` and `by` (what a page was rendered from and with, its render
key), `stale`. `state.json`: `mode`, `sync`, `docs`, `seenConfig`, `seenRelease`.
`run` is the update in progress. History: `missed` (pages an update asked for in
vain) and `dropped` (commits a configuration run passed).

| Action | Code |
|---|---|
| `Commit`, `EditConfig`, `Upgrade` | the user |
| `Begin`, `Backfill` | `run_update` up to its "already up to date", per kind of run |
| `NoChanges`, `Rescore` | the early ends: an empty diff, a changed configuration |
| `Plan` | diff, cascade and budget (`change_detector.py`), the sweep of outdated render keys |
| `RenderTemplates`, `LeavePages`, `Checkpoint`, `PersistPages` | `deterministic.py`; `PageCheckpointer`; `persist_pages_and_cost` and `mark_stale_pages` |
| `SaveIndex`, `SaveDocs` | the last save of each kind of run with its pointers |
| `Aborts` | an exception or SIGKILL |

Which importers and neighbours a diff reaches is any set (`Reach`); which of them
fit the budget is any choice the ranking could make (`Within`). Left out: deleted
and renamed files, `--since`, `--full`, dry runs, `docs_mode` "none", and all
an update does besides pages (graph, git metadata, health, decisions beyond the
pages they govern).

### Run

| Run | Instance | Shows |
|---|---|---|
| `DocsRuns` | 2 files, budget of 1 page, both kinds of wiki, 2 commits, 1 configuration edit, 1 upgrade, 1 fault, fair | `TypeOK`, `DocsCovered`, `PlannedRunHeals`, `CatchesUp` |

With two files and a budget of one every plan has to leave one out; two commits let
the two pointers be apart and one land during a run. `FairSpec` asks that a run
goes on and that the repository's own kind of update keeps being run, as the
hook and the watcher do; commits, edits, upgrades and faults are bounded and stop.

### Where comments and code differ

Visible in the definitions, no run:

- A configuration run re-scores health and moves the sync pointer past commits it
  did not look at (`Rescore`; `dropped` in `DocsCovered`). The next run that plans
  anything repairs their pages by render key; a quiet repository says "already up
  to date" until then. A fresh model-written wiki is affected too, because its docs
  pointer is unset and follows the sync pointer. The workspace updater indexes
  from scratch instead.
- An index-only run on a model-written wiki stamps the renderer's fingerprint
  without rendering (`command.py:709-717`), so an upgrade it sees first does not
  wake a quiet wiki.
- The configuration's fingerprint is computed again at the end of the run
  (`SaveIndex`, `SaveDocs`), so an edit made meanwhile counts as scored.
- A base commit that no longer exists yields an empty diff and the pointers
  advance (`change_detector.py:133-139`); history is linear here.
- `persist.py:109` says that `decay_only` pages are never regenerated in the same
  run; those the sweep of render keys adds (`command.py:1024-1027`) can be in both.
  `Wave` marks after it draws, so such a page is current and marked stale.

### Proofs (`DocsUpdateProofs`)

From `DocsAssumption` alone, for any files, budget, commits and faults:
`DocsTypeCorrect`, `PointersLeaveNoPageBehind` (`DocsCovered`) and
`PlannedRunsHeal`.

`DocsCovered` relates the pointer to pages drawn several steps earlier, so
`DocsInv` follows a run: both pointers are at most HEAD and sources as new as their
commits (`PointerInv`); a run diffs from the pointer of its kind as it still is,
to a commit no older than either pointer (`RunInv`); what it parsed has every
commit up to its target, and its diff is among the pages to draw or mark
(`PlanInv`); when it is about to save, every commit of its diff is in the pages or
they say not (`WaveInv`). `NextBaseBound` is the arithmetic of two pointers and
three kinds of run: a run that moves the repository's own pointer started no later
than where that stands. `KeptInv`, for `PlannedRunHeals`, says that pages a plan
leaves out are as this release would draw them.

`NothingGoesBack`: no step takes either pointer, the base of the next diff, or any
page to an older commit (`NeverBack`), whatever kinds of run take turns and wherever
they fail. A page is drawn from what its run parsed earlier, so this needs that no
page is newer than that (`SourceInv`). It is the "for good" of `CatchesUp`; only
model-checked: that it gets there.

## `Watch`

### State and actions

`changed` and `timer` are the handler's fields; the n-th event starts timer n, a
thread with its own `pc`, `target` and `tries`; so has `Hook`, the post-commit hook's
process. `lock`, `aged`, `pointer`, `pending` are on disk, `armed` is the watcher's
`atexit`. `delivered`, `tried` and `breached` are history: HEAD at the latest event,
the newest HEAD some update saw, and whether one of the lock's openings was used.

| Action | Code |
|---|---|
| `Event`, `Fire`, `Take` | `on_any_event`, the debounce timer, `_on_trigger` under the handler's lock |
| `Look` | the update's staleness check |
| `Link`, `Probe`, `ClearStale`, `Recheck`, `Defer` | `try_acquire_update_lock` as the system calls a thread or the hook makes, and the caller's deferral |
| `Finish` | `run_update` returning in single mode: its lock stays until `atexit` |
| `Release`, `Save` | the workspace updater's `finally`, then its save |
| `Fail`, `Stop` | an exception `_on_trigger` reports; Ctrl+C and `atexit` |
| `HookStarts`, `HookEnds`, `LockAges`, `Commit` | the other process, half an hour, the developer |

Every thread of the watcher writes the watcher's PID, so `LiveLock` takes the lock of
another thread, or one left behind by an update that is over, for a live owner's until
it is aged. Left out: what an update does in between (`IndexSync`), a killed hook, a
second hook beside the first, and the output that `CliRunner` redirects for the whole
process.

### Runs

| Run | Instance | Shows |
|---|---|---|
| `WatchRuns` | both modes, 3 events, or 2 and the hook, 2 commits, 1 exception, fair | `TypeOK`, `NothingForgotten`, `OneUpdate`, `LockReleased`, `Answered` |
| `WatchLock` | 2 events, 1 commit | `LockGivenBack` fails |

Three events are a timer cancelled in time, one cancelled too late, and one that
takes the other's changes, and three threads are enough to race for a takeover, as are
two and the hook (`ThreadsOrHook`). Locks age at any time, under an update at work,
too. `OneUpdate` is conditional like `ExclusiveUnlessBreached`, and for the same three
openings; in single mode the lock that stays behind makes one of them an ordinary
event, see below. `FairSpec`: a timer that was started runs out and its
thread goes on. Events are bounded, and have to be: a steady stream of them
restarts the debounce for ever. An older trigger may forget a newer timer that is
still waiting, which is harmless, because that one finds its paths by itself.
`Answered` says that an update which sees the event's commit is tried; whether it
succeeds, or defers, is the lock's business.

### Where comments and code differ

- `WatchLock`: the update the watcher runs leaves its release to `atexit`, and the
  watcher does not exit, so after its first update a single-repository watcher
  holds the lock, and every later update, its own and the hook's, is told that
  another one is running, until the file is half an hour old. From then on it is a
  stale lock in the ordinary course of events, and two threads, or a thread and the
  hook, that both find it stale can both get inside, by the steps of `LockTakeover`:
  the first unlinks it and links its own, which the second unlinks. The comment that asks
  for a `finally` is quoted in `PROJECT.json`; a test that calls the command twice in
  one process has to work around it
  (`tests/unit/cli/test_update_provider_prompt.py:153`). At Ctrl+C the same
  `atexit` removes whatever lock is there, the hook's included (`Stop`), which is
  why `OneUpdate` is about a running watcher.

### Proofs (`WatchProofs`)

From `WatchAssumption` alone, for any number of events, commits and failures:
`WatchTypeCorrect`, `NoChangeForgotten`, `WatchersExclude`,
`WorkspaceLockReleased`. `TimersInv` says that timers are used in order, so a new
event's timer is a fresh thread. `Guarded` says that, while the watcher runs and until
a breach, whoever is inside holds the lock and is alone, and that nobody is inside
while somebody is about to unlink; `WatchersExclude` follows. Nothing makes the
takeover of an aged lock by two contenders safe: that is a breach.
`WorkspaceLockReleased` holds after a breach, too (`ReleasedStep`): the thread that
wrote the lock is inside, and every way out unlinks.
Only model-checked: `Answered`.

## Not modelled

- Storage coordinator (`C/persistence/coordinator.py`): the doctor command and the
  health endpoint use its read-only drift check; only tests open its transaction.
- Phase checkpointer (`C/pipeline/checkpoint.py`): a journal with its own queue
  that only its tests use; `init` has `ResumeController` and its own flush.
- Job events and SSE, listing endpoints, MCP tools: readers of modelled state.
- Ingestion, parsing, graph, health and dead-code analyses: pure functions of
  the working tree, large in data and small in control.
- What a page says, how contexts are assembled and which pages are selected: data;
  a page is an outcome here. The providers are external: a call that ends, raises
  or is throttled.
- Web UI, API client, docs: presentation.
