-------------------------------- MODULE Watch --------------------------------
(***************************************************************************)
(* repowise watch on one repository, alone or as a workspace member.        *)
(*                                                                         *)
(* Every file event records its path and restarts a debounce timer, which   *)
(* is a thread of its own: once its wait is over a cancel comes too late.   *)
(* A timer thread that finds paths takes them all and runs an update inside *)
(* the watcher's own process.  That is where the two modes differ: the      *)
(* workspace updater gives the update lock back when it is done, the update *)
(* command leaves that to the exit of the process it runs in.               *)
(*                                                                         *)
(* The post-commit hook is a second process on the same lock, which both    *)
(* take and take over by the same system calls.  What an update does        *)
(* between taking the lock and advancing the pointer is the module          *)
(* IndexSync; a commit is its number, 0 stands for none.                    *)
(***************************************************************************)
EXTENDS Naturals

CONSTANTS MaxCommits, MaxEvents, MaxFailures

ASSUME WatchAssumption ==
  MaxCommits \in Nat /\ MaxEvents \in Nat /\ MaxFailures \in Nat

VARIABLES
  mode,       \* "single" or "workspace"
  running,    \* the watcher has not been stopped
  head,       \* HEAD of the repository
  delivered,  \* history: HEAD at the latest file event
  tried,      \* history: the newest HEAD a timer thread saw, or failed to see
  events,     \* file events so far; the n-th one starts timer n
  changed,    \* changed_paths is not empty
  timer,      \* the timer the handler would cancel
  pc,         \* [Actors -> Stage]
  target,     \* [Actors -> commits]: the HEAD a thread or the hook read
  tries,      \* [Actors -> 1 .. 2]: attempts at the lock
  lock,       \* .update.lock: who wrote it
  aged,       \* that file is past UPDATE_LOCK_STALE_AFTER_SECONDS
  armed,      \* release_update_lock is registered with the watcher's atexit
  breached,   \* history: one of the openings of the lock was used
  pointer,    \* last_sync_commit
  pending,    \* .update.pending
  failures

watcher == <<mode, running>>
git     == <<head, delivered>>
handler == <<events, changed, timer>>
file    == <<lock, aged>>
locking == <<tries, file, armed, breached>>
synced  == <<pointer, pending>>
vars    == <<watcher, git, tried, handler, pc, target, locking, synced, failures>>

-----------------------------------------------------------------------------
Timers  == 1 .. MaxEvents
Hook    == 0
Actors  == Timers \cup {Hook}
Commits == 0 .. MaxCommits
Stage   == {"unused", "waiting", "fired", "taken", "link", "probe", "clear", "recheck",
            "defer", "inside", "save", "done"}

TypeOK ==
  /\ mode \in {"single", "workspace"}
  /\ running \in BOOLEAN
  /\ head \in Commits /\ delivered \in Commits /\ tried \in Commits
  /\ events \in 0 .. MaxEvents /\ timer \in 0 .. MaxEvents
  /\ changed \in BOOLEAN
  /\ pc \in [Actors -> Stage]
  /\ target \in [Actors -> Commits]
  /\ tries \in [Actors -> 1 .. 2]
  /\ lock \in {"none", "watch", "hook"}
  /\ aged \in BOOLEAN
  /\ armed \in BOOLEAN /\ (armed => mode = "single")
  /\ breached \in BOOLEAN
  /\ pointer \in Commits /\ pending \in Commits
  /\ failures \in 0 .. MaxFailures

\* Started on an index that is up to date.
Init ==
  /\ mode \in {"single", "workspace"}
  /\ running = TRUE
  /\ head = 0 /\ delivered = 0 /\ tried = 0
  /\ events = 0 /\ changed = FALSE /\ timer = 0
  /\ pc = [a \in Actors |-> "unused"]
  /\ target = [a \in Actors |-> 0]
  /\ tries = [a \in Actors |-> 1]
  /\ lock = "none" /\ aged = FALSE /\ armed = FALSE /\ breached = FALSE
  /\ pointer = 0 /\ pending = 0
  /\ failures = 0

Goto(a, stage) == pc' = [pc EXCEPT ![a] = stage]

\* A timer thread that will still look at the changed paths.
Live(t)   == pc[t] \in {"waiting", "fired"}
Inside(a) == pc[a] = "inside"

Unlinked == lock' = "none" /\ aged' = FALSE

-----------------------------------------------------------------------------
Commit ==
  /\ head < MaxCommits
  /\ head' = head + 1
  /\ UNCHANGED <<watcher, delivered, tried, handler, pc, target, locking, synced, failures>>

\* on_any_event: add the path, cancel the timer that is known, start another.
\* cancel() reaches a timer that is still waiting.
Event ==
  /\ running
  /\ events < MaxEvents
  /\ events' = events + 1
  /\ changed' = TRUE
  /\ timer' = events + 1
  /\ pc' = [a \in Actors |-> IF a = events + 1 THEN "waiting"
                             ELSE IF a \in Timers /\ a = timer /\ pc[a] = "waiting" THEN "done"
                             ELSE pc[a]]
  /\ delivered' = head
  /\ UNCHANGED <<watcher, head, tried, target, locking, synced, failures>>

\* The debounce delay is over: the thread is on its way to _on_trigger.
Fire(t) ==
  /\ pc[t] = "waiting"
  /\ Goto(t, "fired")
  /\ UNCHANGED <<watcher, git, tried, handler, target, locking, synced, failures>>

\* Mutant: an update in progress is trusted to pick the changes up.
TakeUnlessBusy(t) ==
  /\ pc[t] = "fired"
  /\ changed' = FALSE
  /\ timer' = 0
  /\ Goto(t, IF changed /\ \A u \in Timers : ~ Inside(u) THEN "taken" ELSE "done")
  /\ UNCHANGED <<watcher, git, tried, events, target, locking, synced, failures>>

\* Under the handler's lock: take the paths and forget the timer, whichever
\* it is; without paths there is nothing to do.
Take(t) ==
  /\ pc[t] = "fired"
  /\ changed' = FALSE
  /\ timer' = 0
  /\ Goto(t, IF changed THEN "taken" ELSE "done")
  /\ UNCHANGED <<watcher, git, tried, events, target, locking, synced, failures>>

-----------------------------------------------------------------------------
(* The update a timer thread runs.                                           *)

\* The marker goes unless it names a commit ahead of the one just synced.
Consumed(commit) == IF pending > commit THEN pending ELSE 0

\* state.json and HEAD are read; the update command also clears a marker that
\* has been caught up with.
Look(t) ==
  /\ pc[t] = "taken"
  /\ tried' = head
  /\ target' = [target EXCEPT ![t] = head]
  /\ \/ /\ head = pointer
        /\ pending' = IF mode = "single" THEN Consumed(head) ELSE pending
        /\ Goto(t, "done")
     \/ /\ head # pointer
        /\ Goto(t, "link")
        /\ UNCHANGED pending
  /\ UNCHANGED <<watcher, git, handler, locking, pointer, failures>>

\* The update command returns: pointer and marker are written, the lock stays.
Finish(t) ==
  /\ Inside(t)
  /\ mode = "single"
  /\ pointer' = target[t]
  /\ pending' = Consumed(target[t])
  /\ Goto(t, "done")
  /\ UNCHANGED <<watcher, git, tried, handler, target, locking, failures>>

\* The workspace updater releases the lock in a finally block, ...
Release(t) ==
  /\ Inside(t)
  /\ mode = "workspace"
  /\ Unlinked
  /\ Goto(t, "save")
  /\ UNCHANGED <<watcher, git, tried, handler, target, tries, armed, breached, synced, failures>>

\* ... then writes the pointer.
Save(t) ==
  /\ pc[t] = "save"
  /\ pointer' = target[t]
  /\ Goto(t, "done")
  /\ UNCHANGED <<watcher, git, tried, handler, target, locking, pending, failures>>

\* Mutant: the lock is not given back on the way out of an exception.
FailHolding(t) ==
  /\ pc[t] \in {"taken", "inside", "save"}
  /\ failures < MaxFailures
  /\ failures' = failures + 1
  /\ tried' = IF pc[t] = "taken" THEN head ELSE tried
  /\ Goto(t, "done")
  /\ UNCHANGED <<watcher, git, handler, target, locking, synced>>

\* An exception: _on_trigger reports it and ends; the paths it took are gone.
\* On the way out of its section the workspace updater releases the lock.
Fail(t) ==
  /\ pc[t] \in {"taken", "inside", "save"}
  /\ failures < MaxFailures
  /\ failures' = failures + 1
  /\ tried' = IF pc[t] = "taken" THEN head ELSE tried
  /\ IF Inside(t) /\ mode = "workspace" THEN Unlinked ELSE UNCHANGED file
  /\ Goto(t, "done")
  /\ UNCHANGED <<watcher, git, handler, target, tries, armed, breached, synced>>

-----------------------------------------------------------------------------
(* try_acquire_update_lock, as the system calls a thread or the hook makes.  *)

Owner(a) == IF a = Hook THEN "hook" ELSE "watch"

\* Mutant: the release is registered wherever the lock is taken.
EnterArmed(a) ==
  /\ Goto(a, "inside")
  /\ armed' = TRUE

\* To work.  The update command registers the release with atexit, for when the
\* process it runs in ends; the hook's process ends with its update.
Enter(a) ==
  /\ Goto(a, "inside")
  /\ armed' = (armed \/ (a # Hook /\ mode = "single"))

\* os.link of a complete payload: atomic, fails when the file exists.  A lock that
\* appears between another's look and its unlink will be deleted by that.
Link(a) ==
  /\ pc[a] = "link"
  /\ \/ /\ lock = "none"
        /\ lock' = Owner(a)
        /\ breached' = (breached \/ \E b \in Actors : pc[b] = "clear")
        /\ Enter(a)
     \/ lock # "none" /\ Goto(a, "probe") /\ UNCHANGED <<lock, armed, breached>>
  /\ UNCHANGED <<watcher, git, tried, handler, target, tries, aged, synced, failures>>

\* read_update_lock returns a payload.  The PID in it is the watcher's for every one of
\* its threads.  No probe need be able to tell that a stopped watcher is dead.
LiveLock == lock # "none" /\ ~ aged

\* Mutant: a lock of this very process is no obstacle.
StaleOrOwn == lock # "hook" \/ aged

\* It returns None: there is no file, it is past the ceiling, or its owner is dead.
Stale == lock = "none" \/ aged \/ (lock = "watch" /\ ~ running)

\* After a failed create.  A lock that has aged under an update at work is stale, too.
Probe(a) ==
  /\ pc[a] = "probe"
  /\ \/ LiveLock /\ Goto(a, "defer") /\ UNCHANGED breached
     \/ /\ Stale
        /\ Goto(a, "clear")
        /\ breached' = (breached \/ (aged /\ \E b \in Actors : Inside(b)))
  /\ UNCHANGED <<watcher, git, tried, handler, target, tries, file, armed, synced, failures>>

\* Unlink whatever is there now, and try once more.
ClearStale(a) ==
  /\ pc[a] = "clear"
  /\ Unlinked
  /\ tries' = [tries EXCEPT ![a] = 2]
  /\ Goto(a, IF tries[a] = 1 THEN "link" ELSE "recheck")
  /\ UNCHANGED <<watcher, git, tried, handler, target, armed, breached, synced, failures>>

\* Lost the race twice: report the owner, or go on without any lock.
Recheck(a) ==
  /\ pc[a] = "recheck"
  /\ \/ LiveLock /\ Goto(a, "defer") /\ UNCHANGED <<armed, breached>>
     \/ Stale /\ Enter(a) /\ breached' = TRUE
  /\ UNCHANGED <<watcher, git, tried, handler, target, tries, file, synced, failures>>

\* The lock has an owner that lives, which may be this very process: leave the commit
\* for it.  The hook's process is gone then.
Defer(a) ==
  /\ pc[a] = "defer"
  /\ pending' = target[a]
  /\ Goto(a, IF a = Hook THEN "unused" ELSE "done")
  /\ UNCHANGED <<watcher, git, tried, handler, target, locking, pointer, failures>>

LockStep(a) == Link(a) \/ Probe(a) \/ ClearStale(a) \/ Recheck(a) \/ Defer(a)

-----------------------------------------------------------------------------
(* The rest of the world.                                                    *)

\* Half an hour passes.
LockAges ==
  /\ lock # "none"
  /\ aged' = TRUE
  /\ UNCHANGED <<watcher, git, tried, handler, pc, target, tries, lock, armed, breached,
                 synced, failures>>

\* The hook's repowise update, once the repository is behind HEAD.
HookStarts ==
  /\ pc[Hook] = "unused"
  /\ head # pointer
  /\ target' = [target EXCEPT ![Hook] = head]
  /\ tries' = [tries EXCEPT ![Hook] = 1]
  /\ Goto(Hook, "link")
  /\ UNCHANGED <<watcher, git, tried, handler, file, armed, breached, synced, failures>>

\* It ends, well or not, and its process exits.
HookEnds ==
  /\ Inside(Hook)
  /\ \/ pointer' = target[Hook] /\ pending' = Consumed(target[Hook])
     \/ UNCHANGED synced
  /\ Unlinked
  /\ Goto(Hook, "unused")
  /\ UNCHANGED <<watcher, git, tried, handler, target, tries, armed, breached, failures>>

\* Ctrl+C: the timer threads are daemons and end where they are; atexit
\* removes the lock file, whoever wrote it.
Stop ==
  /\ running
  /\ running' = FALSE
  /\ pc' = [a \in Actors |-> IF a = Hook THEN pc[a] ELSE "done"]
  /\ IF armed THEN Unlinked ELSE UNCHANGED file
  /\ UNCHANGED <<mode, git, tried, handler, target, tries, armed, breached, synced, failures>>

ThreadStep(t) ==
  Fire(t) \/ Take(t) \/ Look(t) \/ LockStep(t) \/ Finish(t) \/ Release(t) \/ Save(t)

Next ==
  \/ Commit \/ Event \/ LockAges \/ HookStarts \/ HookEnds \/ Stop
  \/ \E t \in Timers :
       Fire(t) \/ Take(t) \/ Look(t) \/ Finish(t) \/ Release(t) \/ Save(t) \/ Fail(t)
  \/ \E a \in Actors :
       Link(a) \/ Probe(a) \/ ClearStale(a) \/ Recheck(a) \/ Defer(a)

Spec == Init /\ [][Next]_vars

\* A timer that was started runs out, and its thread goes on.
FairSpec == Spec /\ \A t \in Timers : WF_vars(ThreadStep(t))

-----------------------------------------------------------------------------
(* Properties.                                                               *)

\* No change is forgotten: while an event has not been followed by an update
\* that saw its commit, its path is still recorded and a timer that was not
\* cancelled will look for it, or a thread has just taken it.
NothingForgotten ==
  running /\ delivered > tried =>
    \/ changed /\ \E t \in Timers : Live(t)
    \/ \E t \in Timers : pc[t] = "taken"

\* While the watcher runs, no two updates work under the lock at once, be they its own
\* timer threads or one of them and the hook's process, unless one of three openings
\* was used: a lock was created after another contender had judged what was there stale
\* and before that one's unlink; it aged under an update at work; one that had lost the
\* create twice went on without.  The watcher's threads share a PID, and its lock stays
\* behind when their update is over: neither opens a fourth.
OneUpdate ==
  running /\ ~ breached => \A a, b \in Actors : Inside(a) /\ Inside(b) => a = b

\* Watching a workspace, the lock is the watcher's only while a thread of it
\* is at work, exceptions included.
LockReleased ==
  mode = "workspace" /\ running /\ lock = "watch" => \E t \in Timers : Inside(t)

\* Every event is answered: an update that sees at least its commit is tried,
\* or the watcher is stopped.
Answered == \A n \in 1 .. MaxCommits : delivered = n ~> tried >= n \/ ~ running

-----------------------------------------------------------------------------
(* What the comments say and the code does not keep.                         *)

\* "Callers must still call release_update_lock in a finally block": an update
\* that the watcher runs gives the lock back before the watcher is stopped.
LockGivenBack == lock = "watch" ~> lock # "watch" \/ ~ running
=============================================================================
