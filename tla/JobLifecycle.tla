---------------------------- MODULE JobLifecycle ----------------------------
(***************************************************************************)
(* The server's generation jobs: the endpoints, webhooks and poller that    *)
(* launch them, the asyncio task that executes each, the fire-and-forget    *)
(* progress writes, the cancel endpoint, and crash and restart.             *)
(*                                                                          *)
(* Every status write of the server is crud.update_job_status in a session  *)
(* of its own: a SELECT, then an UPDATE that SQLAlchemy emits only for      *)
(* columns whose value differs from the one selected.  Reading and          *)
(* committing are therefore separate steps, and a write whose new status    *)
(* equals the status it read leaves the column alone.                       *)
(*                                                                          *)
(* asyncio: a task runs without interruption between two awaits.            *)
(* task.cancel() only raises a flag; the task sees CancelledError at the    *)
(* await it is suspended at, while a commit already handed to the database  *)
(* thread may still land.                                                   *)
(***************************************************************************)
EXTENDS Naturals

CONSTANTS
  Jobs,            \* job ids (uuid4, one per launch)
  Repos,           \* registered repositories
  RepoOf,          \* [Jobs -> Repos]: the repository each job is launched for
  Origins,         \* who launches jobs: a subset of {"api", "webhook", "poll"}
  ProgressTasks,   \* progress writes one job may have in flight
  CancelRequests,  \* concurrent POST /cancel calls per job
  RoutedRepos,     \* repositories whose jobs live in a database of their own
  DeletableRepos,  \* repositories a user may delete
  WritesMayFail,   \* may a status write fail ("database is locked")?
  MaxCrashes,      \* bound: server crashes
  NoJob            \* the empty cancellation slot

ASSUME JobsAssumption ==
  /\ RepoOf \in [Jobs -> Repos]
  /\ Origins \subseteq {"api", "webhook", "poll"}
  /\ ProgressTasks \cap CancelRequests = {}
  /\ "fallback" \notin ProgressTasks \cup CancelRequests
  /\ RoutedRepos \subseteq Repos
  /\ DeletableRepos \subseteq Repos
  /\ WritesMayFail \in BOOLEAN
  /\ MaxCrashes \in Nat
  /\ NoJob \notin Jobs

VARIABLES
  \* in the database
  status,      \* [Jobs -> Status]: generation_jobs.status
  registered,  \* the repositories that have a row
  \* in the server process
  server,      \* "up" or "down"
  origin,      \* [Jobs -> origins]: which launcher made the job
  pc,          \* [Jobs -> Stage]: where the launch or the executor task stands
  seen,        \* [Jobs -> Txn]: the executor's own status transaction
  goal,        \* [Jobs -> Terminal]: what _finalize_job_status will write
  write,       \* [Jobs -> [Writers -> Txn]]: everyone else's transactions
  tokens,      \* keys of app.state.job_cancel_tokens
  flipped,     \* jobs whose CancellationToken was set
  slot,        \* owner of the process-global _active_token
  interrupt,   \* jobs whose asyncio task has a cancel() not yet delivered
  \* history
  interrupted, \* jobs whose live task the cancel endpoint reached
  crashes

dbVars    == <<status, registered>>
tokenVars == <<tokens, flipped, slot>>
vars == <<status, registered, server, origin, pc, seen, goal, write, tokens,
          flipped, slot, interrupt, interrupted, crashes>>

-----------------------------------------------------------------------------
Active   == {"pending", "running"}
Terminal == {"completed", "failed", "cancelled"}
Status   == {"absent", "deleted"} \cup Active \cup Terminal

\* A transaction is closed, open, or has read the row.  "checked" is the
\* cancel endpoint between its 409 check and its signals.
Txn     == {"idle", "checked", "open"} \cup Active \cup Terminal
Writers == ProgressTasks \cup CancelRequests \cup {"fallback"}

Launching  == {"checked", "inserted"}
Working    == {"fetch", "pipeline", "drain", "complete", "completed"}
Finalizing == {"unwind", "finalize", "finalized"}
InBody     == Working \cup Finalizing     \* execute_job holds its token
Stage      == {"none", "created", "done"} \cup Launching \cup InBody

\* The status column after an UPDATE to target by a transaction that read old.
Written(j, old, target) == IF old = target THEN status[j] ELSE target

ActiveInRepo(r) == {j \in Jobs : RepoOf[j] = r /\ status[j] \in Active}

Idle(j, ws) == \A w \in ws : write[j][w] = "idle"

TypeOK ==
  /\ status \in [Jobs -> Status]
  /\ registered \subseteq Repos
  /\ server \in {"up", "down"}
  /\ origin \in [Jobs -> {"api", "webhook", "poll"}]
  /\ pc \in [Jobs -> Stage]
  /\ seen \in [Jobs -> Txn]
  /\ goal \in [Jobs -> {"failed", "cancelled"}]
  /\ write \in [Jobs -> [Writers -> Txn]]
  /\ tokens \subseteq Jobs
  /\ flipped \subseteq Jobs
  /\ slot \in Jobs \cup {NoJob}
  /\ interrupt \subseteq Jobs
  /\ interrupted \subseteq Jobs
  /\ crashes \in 0 .. MaxCrashes

Init ==
  /\ status = [j \in Jobs |-> "absent"]
  /\ registered = Repos
  /\ server = "up"
  /\ origin = [j \in Jobs |-> "api"]
  /\ pc = [j \in Jobs |-> "none"]
  /\ seen = [j \in Jobs |-> "idle"]
  /\ goal = [j \in Jobs |-> "failed"]
  /\ write = [j \in Jobs |-> [w \in Writers |-> "idle"]]
  /\ tokens = {}
  /\ flipped = {}
  /\ slot = NoJob
  /\ interrupt = {}
  /\ interrupted = {}
  /\ crashes = 0

-----------------------------------------------------------------------------
(* Launching.  The guard's SELECT, the INSERT's commit and the task's        *)
(* creation are separated by awaits; webhooks have no guard.                 *)

\* The rows the guard of launcher o selects from.  Endpoints are routed to the
\* repository's database; the poller and the webhooks use the primary one.
GuardSees(o) ==
  {j \in Jobs : RepoOf[j] \in RoutedRepos => (origin[j] = "api") = (o = "api")}

NoActiveJob(j, o) == ActiveInRepo(RepoOf[j]) \cap GuardSees(o) = {}

Admit(j, o) ==
  /\ o \in Origins
  /\ server = "up"
  /\ pc[j] = "none"
  /\ status[j] = "absent"
  /\ RepoOf[j] \in registered
  /\ origin' = [origin EXCEPT ![j] = o]
  /\ pc' = [pc EXCEPT ![j] = "checked"]
  /\ UNCHANGED <<dbVars, server, seen, goal, write, tokenVars, interrupt, interrupted, crashes>>

\* POST sync, full-resync, generate, index, dead-code/analyze: guarded.
SyncRequest(j) == NoActiveJob(j, "api") /\ Admit(j, "api")

\* A push to the default branch: no guard at all.
PushEvent(j) == Admit(j, "webhook")

\* The poller found HEAD to differ from state.json.
PollingFallback(j) == NoActiveJob(j, "poll") /\ Admit(j, "poll")

\* The foreign key refuses a row of a repository deleted in the meantime.
InsertRow(j) ==
  /\ pc[j] = "checked"
  /\ \/ /\ RepoOf[j] \in registered
        /\ status' = [status EXCEPT ![j] = "pending"]
        /\ pc' = [pc EXCEPT ![j] = "inserted"]
     \/ /\ RepoOf[j] \notin registered
        /\ pc' = [pc EXCEPT ![j] = "none"]
        /\ UNCHANGED status
  /\ UNCHANGED <<registered, server, origin, seen, goal, write, tokenVars, interrupt,
                 interrupted, crashes>>

\* asyncio.create_task(execute_job(...)).
LaunchTask(j) ==
  /\ pc[j] = "inserted"
  /\ pc' = [pc EXCEPT ![j] = "created"]
  /\ UNCHANGED <<dbVars, server, origin, seen, goal, write, tokenVars, interrupt,
                 interrupted, crashes>>

\* Only _launch_job_task enters the task in app.state.job_tasks, where the
\* cancel endpoint looks, and only it adds the fallback done-callback.
Tracked(j) == origin[j] = "api" /\ pc[j] \in InBody \cup {"created"}

-----------------------------------------------------------------------------
(* execute_job.                                                              *)

\* Up to the first await: register the token and take the global slot, from
\* whichever job held it.
StartTask(j) ==
  /\ pc[j] = "created"
  /\ j \notin interrupt
  /\ pc' = [pc EXCEPT ![j] = "fetch"]
  /\ seen' = [seen EXCEPT ![j] = "open"]
  /\ tokens' = tokens \cup {j}
  /\ slot' = j
  /\ UNCHANGED <<dbVars, server, origin, goal, write, flipped, interrupt, interrupted, crashes>>

\* except: on to _finalize_job_status with the status it shall write.
Unwind(j, final) ==
  /\ pc' = [pc EXCEPT ![j] = "unwind"]
  /\ goal' = [goal EXCEPT ![j] = final]
  /\ seen' = [seen EXCEPT ![j] = "idle"]
  /\ UNCHANGED <<tokens, slot>>

\* Mutant: the slot is never disarmed.
LeaveArmed(j) ==
  /\ pc' = [pc EXCEPT ![j] = "done"]
  /\ seen' = [seen EXCEPT ![j] = "idle"]
  /\ tokens' = tokens \ {j}
  /\ UNCHANGED <<goal, slot>>

\* Mutant: the token stays in the map.
LeaveToken(j) ==
  /\ pc' = [pc EXCEPT ![j] = "done"]
  /\ seen' = [seen EXCEPT ![j] = "idle"]
  /\ slot' = IF slot = j THEN NoJob ELSE slot
  /\ UNCHANGED <<goal, tokens>>

\* finally: forget the token and disarm the slot only if it is still ours.
Leave(j) ==
  /\ pc' = [pc EXCEPT ![j] = "done"]
  /\ seen' = [seen EXCEPT ![j] = "idle"]
  /\ tokens' = tokens \ {j}
  /\ slot' = IF slot = j THEN NoJob ELSE slot
  /\ UNCHANGED goal

\* The row is gone (LookupError, or no row matched by the UPDATE).  The
\* first read returns quietly and a failing final write is only logged.
RowMissing(j) ==
  IF pc[j] = "complete" \/ (pc[j] = "fetch" /\ seen[j] # "open")
    THEN Unwind(j, "failed")
    ELSE Leave(j)

ReadRow(j) ==
  /\ pc[j] \in {"fetch", "complete", "finalize"}
  /\ seen[j] = "open"
  /\ j \notin interrupt
  /\ \/ /\ status[j] = "deleted"
        /\ RowMissing(j)
     \/ /\ status[j] # "deleted"
        /\ seen' = [seen EXCEPT ![j] = status[j]]
        /\ UNCHANGED <<pc, goal, tokens, slot>>
  /\ UNCHANGED <<dbVars, server, origin, write, flipped, interrupt, interrupted, crashes>>

\* What the executor writes at each stage, and where the commit leaves it.
Target(j) ==
  IF pc[j] = "fetch" THEN "running"
  ELSE IF pc[j] = "complete" THEN "completed" ELSE goal[j]

AfterCommit(j) ==
  IF pc[j] = "fetch" THEN "pipeline"
  ELSE IF pc[j] = "complete" THEN "completed" ELSE "finalized"

CommitRow(j) ==
  /\ pc[j] \in {"fetch", "complete", "finalize"}
  /\ seen[j] \in Active \cup Terminal
  /\ \/ /\ status[j] = "deleted"
        /\ RowMissing(j)
        /\ UNCHANGED status
     \/ /\ status[j] # "deleted"
        /\ status' = [status EXCEPT ![j] = Written(j, seen[j], Target(j))]
        /\ pc' = [pc EXCEPT ![j] = AfterCommit(j)]
        /\ seen' = [seen EXCEPT ![j] = "idle"]
        /\ UNCHANGED <<goal, tokens, slot>>
  /\ UNCHANGED <<registered, server, origin, write, flipped, interrupt, interrupted, crashes>>

\* Mutant: _stopped is not consulted.
SpawnProgressLate(j, p) ==
  /\ pc[j] \in InBody
  /\ write[j][p] = "idle"
  /\ write' = [write EXCEPT ![j][p] = "open"]
  /\ UNCHANGED <<dbVars, server, origin, pc, seen, goal, tokenVars, interrupt, interrupted, crashes>>

\* A progress callback spawns a write; drain_and_stop forbids new ones.
SpawnProgress(j, p) ==
  /\ pc[j] = "pipeline"
  /\ write[j][p] = "idle"
  /\ write' = [write EXCEPT ![j][p] = "open"]
  /\ UNCHANGED <<dbVars, server, origin, pc, seen, goal, tokenVars, interrupt, interrupted, crashes>>

\* Indexing, generation and persistence are over.
PipelineDone(j) ==
  /\ pc[j] = "pipeline"
  /\ j \notin interrupt
  /\ pc' = [pc EXCEPT ![j] = "drain"]
  /\ UNCHANGED <<dbVars, server, origin, seen, goal, write, tokenVars, interrupt, interrupted, crashes>>

\* Mutant: an exception ends the task without a final write.
TaskRaisesUnrecorded(j) ==
  /\ pc[j] \in {"fetch", "pipeline", "complete"}
  /\ j \notin interrupt
  /\ Leave(j)
  /\ UNCHANGED <<dbVars, server, origin, write, flipped, interrupt, interrupted, crashes>>

\* Any exception: invalid mode, no provider, a failed phase, a locked database.
TaskRaises(j) ==
  /\ pc[j] \in {"fetch", "pipeline", "complete"}
  /\ j \notin interrupt
  /\ Unwind(j, "failed")
  /\ UNCHANGED <<dbVars, server, origin, write, flipped, interrupt, interrupted, crashes>>

\* check_cancelled() in a CPU-bound loop polls the global slot, whoever owns it.
PollCancelled(j) ==
  /\ pc[j] = "pipeline"
  /\ slot \in flipped
  /\ j \notin interrupt
  /\ Unwind(j, "cancelled")
  /\ UNCHANGED <<dbVars, server, origin, write, flipped, interrupt, interrupted, crashes>>

\* Mutant: the final status is written without draining.
DrainedAtOnce(j) ==
  /\ pc[j] \in {"drain", "unwind"}
  /\ j \notin interrupt
  /\ pc' = [pc EXCEPT ![j] = IF pc[j] = "drain" THEN "complete" ELSE "finalize"]
  /\ seen' = [seen EXCEPT ![j] = "open"]
  /\ UNCHANGED <<dbVars, server, origin, goal, write, tokenVars, interrupt, interrupted, crashes>>

\* drain_and_stop returns when every progress write has ended; the final
\* status is written in a fresh session.
Drained(j) ==
  /\ pc[j] \in {"drain", "unwind"}
  /\ Idle(j, ProgressTasks)
  /\ j \notin interrupt
  /\ pc' = [pc EXCEPT ![j] = IF pc[j] = "drain" THEN "complete" ELSE "finalize"]
  /\ seen' = [seen EXCEPT ![j] = "open"]
  /\ UNCHANGED <<dbVars, server, origin, goal, write, tokenVars, interrupt, interrupted, crashes>>

\* A final write that fails is logged and swallowed.
FinalizeFails(j) ==
  /\ WritesMayFail
  /\ pc[j] = "finalize"
  /\ j \notin interrupt
  /\ Leave(j)
  /\ UNCHANGED <<dbVars, server, origin, write, flipped, interrupt, interrupted, crashes>>

\* The task resumes from its last await and ends.
TaskEnds(j) ==
  /\ pc[j] \in {"completed", "finalized"}
  /\ j \notin interrupt
  /\ Leave(j)
  /\ UNCHANGED <<dbVars, server, origin, write, flipped, interrupt, interrupted, crashes>>

\* Mutant: no done-callback covers a cancellation that escapes.
DeliverCancelNoFallback(j) ==
  /\ j \in interrupt
  /\ pc[j] \in {"drain", "unwind"} => Idle(j, ProgressTasks)
  /\ interrupt' = interrupt \ {j}
  /\ \/ pc[j] \in Working /\ Unwind(j, "cancelled")
     \/ pc[j] \in Finalizing \cup {"created"} /\ Leave(j)
  /\ UNCHANGED <<dbVars, server, origin, write, flipped, interrupted, crashes>>

\* Mutant: an except clause in the pipeline swallows the cancellation.
DeliverCancelSwallowed(j) ==
  /\ j \in interrupt
  /\ pc[j] \in {"drain", "unwind"} => Idle(j, ProgressTasks)
  /\ interrupt' = interrupt \ {j}
  /\ \/ /\ pc[j] = "pipeline"
        /\ UNCHANGED <<pc, goal, seen, tokens, slot, write>>
     \/ /\ pc[j] \in Working \ {"pipeline"}
        /\ Unwind(j, "cancelled")
        /\ UNCHANGED write
     \/ /\ pc[j] \in Finalizing \cup {"created"}
        /\ Leave(j)
        /\ write' = [write EXCEPT ![j]["fallback"] = "open"]
  /\ UNCHANGED <<dbVars, server, origin, flipped, interrupted, crashes>>

\* CancelledError at the await the task is suspended at.  Before the first
\* step, or inside the handler, it escapes execute_job and the done-callback
\* records the cancellation instead.  A gather() under drain_and_stop delivers
\* it only when the progress writes it passed it on to have ended.
DeliverCancel(j) ==
  /\ j \in interrupt
  /\ pc[j] \in {"drain", "unwind"} => Idle(j, ProgressTasks)
  /\ interrupt' = interrupt \ {j}
  /\ \/ /\ pc[j] \in Working
        /\ Unwind(j, "cancelled")
        /\ UNCHANGED write
     \/ /\ pc[j] \in Finalizing \cup {"created"}
        /\ Leave(j)
        /\ write' = [write EXCEPT ![j]["fallback"] = "open"]
  /\ UNCHANGED <<dbVars, server, origin, flipped, interrupted, crashes>>

-----------------------------------------------------------------------------
(* POST /api/jobs/{id}/cancel.                                               *)

\* _find_job_factory reads the row; any other status is answered with 409.
CancelCheck(j, c) ==
  /\ server = "up"
  /\ write[j][c] = "idle"
  /\ status[j] \in Active
  /\ write' = [write EXCEPT ![j][c] = "checked"]
  /\ UNCHANGED <<dbVars, server, origin, pc, seen, goal, tokenVars, interrupt, interrupted, crashes>>

\* Flip the token and cancel the task, if there are any; open the session.
CancelSignal(j, c) ==
  /\ write[j][c] = "checked"
  /\ write' = [write EXCEPT ![j][c] = "open"]
  /\ flipped' = IF j \in tokens THEN flipped \cup {j} ELSE flipped
  /\ interrupt' = IF Tracked(j) THEN interrupt \cup {j} ELSE interrupt
  /\ interrupted' = IF Tracked(j) THEN interrupted \cup {j} ELSE interrupted
  /\ UNCHANGED <<dbVars, server, origin, pc, seen, goal, tokens, slot, crashes>>

-----------------------------------------------------------------------------
(* The two halves of update_job_status, for progress tasks, cancel requests  *)
(* and the done-callback's fallback.                                         *)

\* Mutant: a missing row is not noticed.
WriterReadsBlindly(j, w) ==
  /\ write[j][w] = "open"
  /\ write' = [write EXCEPT ![j][w] = status[j]]
  /\ UNCHANGED <<dbVars, server, origin, pc, seen, goal, tokenVars, interrupt, interrupted, crashes>>

\* A missing row raises LookupError, which ends the transaction.
WriterReads(j, w) ==
  /\ write[j][w] = "open"
  /\ write' = [write EXCEPT ![j][w] = IF status[j] = "deleted" THEN "idle" ELSE status[j]]
  /\ UNCHANGED <<dbVars, server, origin, pc, seen, goal, tokenVars, interrupt, interrupted, crashes>>

WriterCommits(j, w) ==
  /\ write[j][w] \in Active \cup Terminal
  /\ write' = [write EXCEPT ![j][w] = "idle"]
  /\ status' = [status EXCEPT ![j] =
                 IF status[j] = "deleted" THEN "deleted"
                 ELSE Written(j, write[j][w],
                              IF w \in ProgressTasks THEN "running" ELSE "cancelled")]
  /\ UNCHANGED <<registered, server, origin, pc, seen, goal, tokenVars, interrupt, interrupted, crashes>>

\* A progress write is skipped when the pipeline holds the database lock.
WriterFails(j, w) ==
  /\ write[j][w] \notin {"idle", "checked"}
  /\ w \in ProgressTasks \/ WritesMayFail
  /\ write' = [write EXCEPT ![j][w] = "idle"]
  /\ UNCHANGED <<dbVars, server, origin, pc, seen, goal, tokenVars, interrupt, interrupted, crashes>>

-----------------------------------------------------------------------------
(* Deletion, crash, restart.                                                 *)

\* DELETE /api/repos/{id}: the cascade removes the repository's job rows.
DeleteRepo(r) ==
  /\ server = "up"
  /\ r \in DeletableRepos \cap registered
  /\ registered' = registered \ {r}
  /\ status' = [j \in Jobs |-> IF RepoOf[j] = r /\ status[j] # "absent"
                               THEN "deleted" ELSE status[j]]
  /\ UNCHANGED <<server, origin, pc, seen, goal, write, tokenVars, interrupt, interrupted, crashes>>

\* Every task and all of app.state is lost; the database stays.
Crash ==
  /\ server = "up"
  /\ crashes < MaxCrashes
  /\ crashes' = crashes + 1
  /\ server' = "down"
  /\ pc' = [j \in Jobs |-> IF status[j] = "absent" THEN "none" ELSE "done"]
  /\ seen' = [j \in Jobs |-> "idle"]
  /\ write' = [j \in Jobs |-> [w \in Writers |-> "idle"]]
  /\ tokens' = {}
  /\ flipped' = {}
  /\ slot' = NoJob
  /\ interrupt' = {}
  /\ interrupted' = {}
  /\ UNCHANGED <<dbVars, origin, goal>>

\* Mutant: only running jobs are reset.
StartupRunningOnly ==
  /\ server = "down"
  /\ server' = "up"
  /\ status' = [j \in Jobs |-> IF status[j] = "running" THEN "failed" ELSE status[j]]
  /\ UNCHANGED <<registered, origin, pc, seen, goal, write, tokenVars, interrupt,
                 interrupted, crashes>>

\* lifespan(): rows left active by the previous process are failed, or, if
\* that UPDATE fails, left alone with a warning.
Startup ==
  /\ server = "down"
  /\ server' = "up"
  /\ \/ status' = [j \in Jobs |-> IF status[j] \in Active THEN "failed" ELSE status[j]]
     \/ WritesMayFail /\ UNCHANGED status
  /\ UNCHANGED <<registered, origin, pc, seen, goal, write, tokenVars, interrupt,
                 interrupted, crashes>>

-----------------------------------------------------------------------------
LaunchStep(j) == InsertRow(j) \/ LaunchTask(j)

TaskStep(j) ==
  \/ StartTask(j) \/ ReadRow(j) \/ CommitRow(j)
  \/ Drained(j) \/ TaskEnds(j) \/ DeliverCancel(j)

WriterStep(j, w) == WriterReads(j, w) \/ WriterCommits(j, w)

Next ==
  \/ \E j \in Jobs :
       \/ SyncRequest(j) \/ PushEvent(j) \/ PollingFallback(j)
       \/ InsertRow(j) \/ LaunchTask(j)
       \/ StartTask(j) \/ ReadRow(j) \/ CommitRow(j) \/ PipelineDone(j)
       \/ TaskRaises(j) \/ PollCancelled(j) \/ Drained(j) \/ FinalizeFails(j)
       \/ TaskEnds(j) \/ DeliverCancel(j)
       \/ \E p \in ProgressTasks : SpawnProgress(j, p)
       \/ \E c \in CancelRequests : CancelCheck(j, c) \/ CancelSignal(j, c)
       \/ \E w \in Writers : WriterReads(j, w) \/ WriterCommits(j, w) \/ WriterFails(j, w)
  \/ \E r \in Repos : DeleteRepo(r)
  \/ Crash
  \/ Startup

Spec == Init /\ [][Next]_vars

(* The event loop runs every ready task and the database answers; nothing    *)
(* obliges users, webhooks, the poller or a crash, nor the pipeline to end    *)
(* (an LLM call may hang).                                                   *)
LoopFairness ==
  /\ \A j \in Jobs :
       /\ WF_vars(LaunchStep(j))
       /\ WF_vars(TaskStep(j))
       /\ \A w \in Writers : WF_vars(WriterStep(j, w))
       /\ \A c \in CancelRequests : WF_vars(CancelSignal(j, c))
  /\ WF_vars(Startup)

FairSpec == Spec /\ LoopFairness

\* Phases that end, as every provider call's timeout makes them.
PhasesEnd == \A j \in Jobs : WF_vars(PipelineDone(j))

-----------------------------------------------------------------------------
(* Properties.                                                               *)

\* The global cancellation slot is empty or holds the token of a job that is
\* still executing: a finished job's token, possibly flipped, never lingers to
\* abort the next job at its first check_cancelled() poll.
SlotNotPoisoned == slot # NoJob => slot \in tokens /\ pc[slot] \in InBody

\* app.state.job_cancel_tokens holds exactly the jobs inside execute_job: a
\* cancel that finds a token reaches a task, and no token leaks.
TokensMatchTasks == tokens = {j \in Jobs : pc[j] \in InBody}

\* Once the executor has opened the transaction for its final status, no
\* progress write of its own can be under way.
FinalWriteIsLast ==
  \A j \in Jobs : pc[j] \in {"complete", "completed", "finalize", "finalized", "done"}
                => Idle(j, ProgressTasks)

\* Seen from outside, every row lives the life JobStatus allows: whatever the
\* interleaving, a completed or failed row never becomes active again.
Rows == INSTANCE JobStatus WITH Jobs <- Jobs, status <- status
RowsFollowJobStatus == Rows!Spec

\* A row that blocks the active-job guard has someone who will release it: a
\* launch or a task under way, or a cancel or fallback about to write.
ActiveHasOwner ==
  server = "up" =>
    \A j \in Jobs : status[j] \in Active =>
      \/ pc[j] \notin {"none", "done"}
      \/ ~ Idle(j, CancelRequests \cup {"fallback"})

\* When the cancel endpoint reached a job's running task and everything has
\* settled, the row says "cancelled", not "completed" or "failed".
CancelWins ==
  \A j \in interrupted :
    pc[j] = "done" /\ Idle(j, Writers) => status[j] \in {"cancelled", "deleted"}

\* If pipelines end, every job that becomes active leaves the guard eventually.
GuardReleased ==
  PhasesEnd => \A j \in Jobs : status[j] \in Active ~> status[j] \notin Active

\* A task the cancel endpoint reached ends, even if its pipeline never would.
InterruptedStops == \A j \in Jobs : j \in interrupted ~> pc[j] = "done"

\* No job hangs: neither its row as a guard nor its task after a cancel.
JobsEnd == GuardReleased /\ InterruptedStops

-----------------------------------------------------------------------------
(* What the comments say and the code does not keep.                         *)

\* "A second concurrent job is refused rather than started."
OneActiveJobPerRepo ==
  \A j, k \in Jobs :
    j # k /\ RepoOf[j] = RepoOf[k] => ~ (status[j] \in Active /\ status[k] \in Active)
=============================================================================
