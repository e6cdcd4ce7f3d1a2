----------------------------- MODULE IndexSync -----------------------------
(***************************************************************************)
(* How the index of one repository follows its git HEAD: the runs of        *)
(* `repowise update` and `repowise update --workspace`, the server's sync   *)
(* jobs, and what they share on disk: the index itself (wiki.db), the sync  *)
(* pointer last_sync_commit in state.json, .update.lock, .update.pending.   *)
(*                                                                          *)
(* The history is linear and commit n is a number.  A run parses the        *)
(* working tree, that is, the newest version of every file, but records     *)
(* the commit it read from HEAD; those are different moments, and commits   *)
(* land in between.  What the index holds of a file is the commit whose     *)
(* version it holds.  Every run is one process or one job and runs once.    *)
(* The repository has no model-written docs: last_docs_commit is left out.  *)
(***************************************************************************)
EXTENDS Naturals

CONSTANTS
  Updates,     \* `repowise update` processes
  Workspaces,  \* `repowise update --workspace` processes
  Jobs,        \* server sync jobs
  Files,
  Nobody,      \* no lock file
  Unreadable,  \* state.json truncated; also a base that could not be read
  NoMarker,    \* no .update.pending
  SlowRuns,    \* may a live run hold the lock past the 30 minute ceiling?
  Unprobed,    \* lockers whose death no PID probe can tell
  MaxCommits,  \* bound: commits
  MaxCrashes   \* bound: processes killed

Lockers == Updates \cup Workspaces
Runs    == Lockers \cup Jobs

ASSUME SyncAssumption ==
  /\ Updates \cap Workspaces = {}
  /\ Lockers \cap Jobs = {}
  /\ Nobody \notin Runs
  /\ Unreadable \notin Nat
  /\ NoMarker \notin Nat
  /\ SlowRuns \in BOOLEAN
  /\ Unprobed \subseteq Lockers
  /\ MaxCommits \in Nat
  /\ MaxCrashes \in Nat

VARIABLES
  head,     \* the newest commit
  touched,  \* [1 .. MaxCommits -> SUBSET Files]: what each commit changed
  tree,     \* [Files -> commits]: the version of each file in the work tree
  store,    \* [Files -> commits]: the version the index was built from
  behind,   \* history: files of which an update has skipped rows, as it reported
  pointer,  \* last_sync_commit, or Unreadable
  lock,     \* the owner named in .update.lock, or Nobody
  pending,  \* the commit in .update.pending, or NoMarker
  pc,       \* [Runs -> Stage]
  tries,    \* [Runs -> 1 .. 2]: attempts at the lock
  base,     \* [Runs -> commits]: the commit the run starts from
  target,   \* [Runs -> commits]: the commit the run will record
  parsed,   \* [Runs -> [Files -> commits]]: what the run has parsed
  scope,    \* [Runs -> SUBSET Files]: the files it will persist
  breached, \* history: one of the openings of the lock was used
  crashes

git  == <<head, touched, tree>>
disk == <<store, behind, pointer, lock, pending>>
run  == <<tries, base, target, parsed, scope>>
past == <<breached, crashes>>
vars == <<head, touched, tree, store, behind, pointer, lock, pending, pc, tries, base,
          target, parsed, scope, breached, crashes>>

-----------------------------------------------------------------------------
Commits == 0 .. MaxCommits
Locking == {"link", "probe", "clear", "recheck", "defer"}
Working == {"parse", "persist", "save", "consume"}
Stage   == {"idle", "head", "rebase", "unlock", "abort", "stamp", "truncate", "write",
            "done", "crashed"} \cup Locking \cup Working

\* A run that found HEAD at its base has nothing to do and takes no lock.
UpToDate(r) == target[r] = base[r]

\* The section the lock is for: from acquiring it to the atexit or finally
\* that releases it.  The workspace updater leaves it before it saves.
Inside(r) ==
  \/ r \in Updates /\ ~ UpToDate(r) /\ pc[r] \in Working \cup {"unlock"}
  \/ r \in Workspaces /\ pc[r] \in {"rebase", "parse", "persist", "unlock", "abort"}

Changed(from, to) ==
  IF from = Unreadable THEN Files
  ELSE UNION {touched[n] : n \in {m \in 1 .. to : m > from}}

Goto(r, stage) == pc' = [pc EXCEPT ![r] = stage]

TypeOK ==
  /\ head \in Commits
  /\ touched \in [1 .. MaxCommits -> SUBSET Files]
  /\ tree \in [Files -> Commits]
  /\ store \in [Files -> Commits]
  /\ behind \subseteq Files
  /\ pointer \in Commits \cup {Unreadable}
  /\ lock \in Lockers \cup {Nobody}
  /\ pending \in Commits \cup {NoMarker}
  /\ pc \in [Runs -> Stage]
  /\ tries \in [Runs -> 1 .. 2]
  /\ base \in [Runs -> Commits \cup {Unreadable}]
  /\ target \in [Runs -> Commits]
  /\ parsed \in [Runs -> [Files -> Commits]]
  /\ scope \in [Runs -> SUBSET Files]
  /\ breached \in BOOLEAN
  /\ crashes \in 0 .. MaxCrashes

\* `repowise init` has indexed commit 0.
Init ==
  /\ head = 0
  /\ touched = [n \in 1 .. MaxCommits |-> {}]
  /\ tree = [f \in Files |-> 0]
  /\ store = [f \in Files |-> 0]
  /\ behind = {}
  /\ pointer = 0
  /\ lock = Nobody
  /\ pending = NoMarker
  /\ pc = [r \in Runs |-> "idle"]
  /\ tries = [r \in Runs |-> 1]
  /\ base = [r \in Runs |-> 0]
  /\ target = [r \in Runs |-> 0]
  /\ parsed = [r \in Runs |-> [f \in Files |-> 0]]
  /\ scope = [r \in Runs |-> {}]
  /\ breached = FALSE
  /\ crashes = 0

-----------------------------------------------------------------------------
\* Somebody commits.
Commit(changed) ==
  /\ head < MaxCommits
  /\ changed # {}
  /\ head' = head + 1
  /\ touched' = [touched EXCEPT ![head + 1] = changed]
  /\ tree' = [f \in Files |-> IF f \in changed THEN head + 1 ELSE tree[f]]
  /\ UNCHANGED <<disk, pc, run, past>>

-----------------------------------------------------------------------------
(* Before the lock.                                                          *)

\* The base commit comes from state.json.  A truncated file stops the CLI with
\* a JSONDecodeError; the workspace updater goes on without a base.
LoadState(r) ==
  /\ pc[r] = "idle"
  /\ r \in Lockers
  /\ IF pointer = Unreadable /\ r \in Updates
       THEN Goto(r, "done") /\ UNCHANGED base
       ELSE Goto(r, "head") /\ base' = [base EXCEPT ![r] = pointer]
  /\ UNCHANGED <<git, disk, tries, target, parsed, scope, past>>

\* HEAD becomes the commit to record; equal to the base there is nothing to do.
ReadHead(r) ==
  /\ pc[r] = "head"
  /\ target' = [target EXCEPT ![r] = head]
  /\ IF head # base[r] THEN Goto(r, "link")
     ELSE Goto(r, IF r \in Updates THEN "consume" ELSE "done")
  /\ UNCHANGED <<git, disk, tries, base, parsed, scope, past>>

-----------------------------------------------------------------------------
(* try_acquire_update_lock, as the system calls it makes.                    *)

\* With the lock the CLI keeps the base it loaded before; the workspace
\* updater reads state.json again.
Acquired(r) == IF r \in Updates THEN "parse" ELSE "rebase"

\* Mutant: link() replaces an existing lock file.
LinkOver(r) ==
  /\ pc[r] = "link"
  /\ lock' = r
  /\ Goto(r, Acquired(r))
  /\ UNCHANGED <<git, store, behind, pointer, pending, run, past>>

\* os.link of a complete payload: atomic, fails when the file exists.  A lock that
\* appears between another run's look and its unlink will be deleted by that.
Link(r) ==
  /\ pc[r] = "link"
  /\ \/ lock = Nobody /\ lock' = r /\ Goto(r, Acquired(r))
     \/ lock # Nobody /\ Goto(r, "probe") /\ UNCHANGED lock
  /\ breached' = (breached \/ (lock = Nobody /\ \E s \in Lockers : pc[s] = "clear"))
  /\ UNCHANGED <<git, store, behind, pointer, pending, run, crashes>>

\* Mutant: a dead owner's lock counts until it has aged.
LiveUntilAged == lock # Nobody

\* There is a file, and its owner is at work.
OwnerAtWork == \E owner \in Lockers : lock = owner /\ pc[owner] # "crashed"

\* read_update_lock returns a payload: the owner lives, or no probe can tell that it
\* does not (it cannot decide, or the PID was recycled and there is no token).
LiveLock == OwnerAtWork \/ lock \in Unprobed

\* It returns None: no file, a dead owner, or one past the ceiling.  The age of a dead
\* owner's lock is not kept, so that an unprobed one may be on either side of it.
DeadLock == ~ OwnerAtWork \/ SlowRuns

\* Mutant: a live owner is pushed aside like a dead one.
ProbeSteals(r) ==
  /\ pc[r] = "probe"
  /\ Goto(r, "clear")
  /\ UNCHANGED <<git, disk, run, past>>

\* Mutant: wait for the lock file to go away.
ProbeWaits(r) ==
  /\ pc[r] = "probe"
  /\ Goto(r, "link")
  /\ UNCHANGED <<git, disk, run, past>>

\* read_update_lock after a failed create.  A lock that has aged under an owner at
\* work is taken for stale.
Probe(r) ==
  /\ pc[r] = "probe"
  /\ \/ LiveLock /\ Goto(r, "defer") /\ UNCHANGED breached
     \/ DeadLock /\ Goto(r, "clear") /\ breached' = (breached \/ OwnerAtWork)
  /\ UNCHANGED <<git, disk, run, crashes>>

\* Unlink whatever is there now, and try once more.
ClearStale(r) ==
  /\ pc[r] = "clear"
  /\ lock' = Nobody
  /\ tries' = [tries EXCEPT ![r] = 2]
  /\ Goto(r, IF tries[r] = 1 THEN "link" ELSE "recheck")
  /\ UNCHANGED <<git, store, behind, pointer, pending, base, target, parsed, scope, past>>

\* Lost the race twice: report the owner, or go on without any lock.
Recheck(r) ==
  /\ pc[r] = "recheck"
  /\ \/ LiveLock /\ Goto(r, "defer") /\ UNCHANGED breached
     \/ DeadLock /\ Goto(r, Acquired(r)) /\ breached' = TRUE
  /\ UNCHANGED <<git, disk, run, crashes>>

\* Mutant: the marker names the base instead of HEAD.
DeferBase(r) ==
  /\ pc[r] = "defer"
  /\ pending' = base[r]
  /\ Goto(r, "done")
  /\ UNCHANGED <<git, store, behind, pointer, lock, run, past>>

\* Leave HEAD in .update.pending for the update in flight, and stop.
Defer(r) ==
  /\ pc[r] = "defer"
  /\ pending' = target[r]
  /\ Goto(r, "done")
  /\ UNCHANGED <<git, store, behind, pointer, lock, run, past>>

-----------------------------------------------------------------------------
(* With the lock.                                                            *)

\* Mutant: diff from the commit found stale before the lock.
RebaseOnTarget(r) ==
  /\ pc[r] = "rebase"
  /\ base' = [base EXCEPT ![r] = target[r]]
  /\ Goto(r, "parse")
  /\ UNCHANGED <<git, disk, tries, target, parsed, scope, past>>

\* update_single_repo_index reads state.json again.
Rebase(r) ==
  /\ pc[r] = "rebase"
  /\ base' = [base EXCEPT ![r] = pointer]
  /\ Goto(r, "parse")
  /\ UNCHANGED <<git, disk, tries, target, parsed, scope, past>>

\* What a run will persist: the CLI the files changed up to its target, the
\* workspace updater up to the HEAD it finds now or, when that fails, all, and
\* a server job always all.
Scopes(r) ==
  IF r \in Updates THEN {Changed(base[r], target[r])}
  ELSE {Files} \cup (IF r \in Workspaces THEN {Changed(base[r], head)} ELSE {})

\* Diff and parse the working tree.
Parse(r) ==
  /\ pc[r] = "parse"
  /\ parsed' = [parsed EXCEPT ![r] = tree]
  /\ \E files \in Scopes(r) : scope' = [scope EXCEPT ![r] = files]
  /\ Goto(r, "persist")
  /\ UNCHANGED <<git, disk, tries, base, target, past>>

Persisted(r) == IF r \in Updates THEN "save" ELSE IF r \in Workspaces THEN "unlock" ELSE "stamp"

\* Mutant: what an update skipped is not told.
SkipsSilently(r) ==
  /\ pc[r] = "persist"
  /\ r \in Lockers
  /\ Goto(r, Persisted(r))
  /\ UNCHANGED <<git, disk, run, past>>

\* A step of the update's transaction fails: it is reported and skipped, the rest is
\* committed, and the run goes on.  A file that lacks some rows keeps its version.
\* (The full index that the workspace updater falls back to skips nothing.)
PersistsPartly(r) ==
  /\ pc[r] = "persist"
  /\ r \in Lockers
  /\ behind' = behind \cup scope[r]
  /\ Goto(r, Persisted(r))
  /\ UNCHANGED <<git, store, pointer, lock, pending, run, past>>

\* One transaction.
Persist(r) ==
  /\ pc[r] = "persist"
  /\ store' = [f \in Files |-> IF f \in scope[r] THEN parsed[r][f] ELSE store[f]]
  /\ behind' = behind \ scope[r]
  /\ Goto(r, Persisted(r))
  /\ UNCHANGED <<git, pointer, lock, pending, run, past>>

\* Any exception: the pointer stays, the lock is released.
Fails(r) ==
  /\ pc[r] \in {"parse", "persist"}
  /\ Goto(r, IF r \in Updates THEN "unlock" ELSE IF r \in Workspaces THEN "abort" ELSE "done")
  /\ UNCHANGED <<git, disk, run, past>>

\* Mutant: record the HEAD of now.
SaveNewest(r) ==
  /\ pc[r] = "save"
  /\ pointer' = head
  /\ Goto(r, "consume")
  /\ UNCHANGED <<git, store, behind, lock, pending, run, past>>

\* Mutant: the file is truncated first, then filled.
SaveInPlace(r) ==
  /\ pc[r] = "save"
  /\ \/ pointer # Unreadable /\ pointer' = Unreadable /\ UNCHANGED pc
     \/ pointer = Unreadable /\ pointer' = target[r] /\ Goto(r, "consume")
  /\ UNCHANGED <<git, store, behind, lock, pending, run, past>>

\* save_state: an atomic replacement of the file.
Save(r) ==
  /\ pc[r] = "save"
  /\ pointer' = target[r]
  /\ Goto(r, "consume")
  /\ UNCHANGED <<git, store, behind, lock, pending, run, past>>

\* The marker goes unless it names a commit ahead of the one just recorded.
\* A CLI run that took the lock releases it at exit; one that was up to date
\* has none to release.
ConsumePending(r) ==
  /\ pc[r] = "consume"
  /\ pending' = IF pending # NoMarker /\ pending > target[r] THEN pending ELSE NoMarker
  /\ Goto(r, IF r \in Updates /\ ~ UpToDate(r) THEN "unlock" ELSE "done")
  /\ UNCHANGED <<git, store, behind, pointer, lock, run, past>>

\* release_update_lock: atexit, or the workspace updater's finally, which
\* comes before its own Save.
Release(r) ==
  /\ pc[r] \in {"unlock", "abort"}
  /\ lock' = Nobody
  /\ Goto(r, IF pc[r] = "unlock" /\ r \in Workspaces THEN "save" ELSE "done")
  /\ UNCHANGED <<git, store, behind, pointer, pending, run, past>>

-----------------------------------------------------------------------------
(* A server job: no lock, everything indexed, HEAD read at the end.          *)

StartJob(r) ==
  /\ pc[r] = "idle"
  /\ r \in Jobs
  /\ Goto(r, "parse")
  /\ UNCHANGED <<git, disk, run, past>>

\* _stamp_last_sync_commit: HEAD, then state.json, which must be readable.
StampHead(r) ==
  /\ pc[r] = "stamp"
  /\ target' = [target EXCEPT ![r] = head]
  /\ Goto(r, IF pointer = Unreadable THEN "done" ELSE "truncate")
  /\ UNCHANGED <<git, disk, tries, base, parsed, scope, past>>

\* write_text truncates the file before it fills it.
Truncate(r) ==
  /\ pc[r] = "truncate"
  /\ pointer' = Unreadable
  /\ Goto(r, "write")
  /\ UNCHANGED <<git, store, behind, lock, pending, run, past>>

WriteState(r) ==
  /\ pc[r] = "write"
  /\ pointer' = target[r]
  /\ Goto(r, "done")
  /\ UNCHANGED <<git, store, behind, lock, pending, run, past>>

-----------------------------------------------------------------------------
\* SIGKILL or power loss: no atexit, the lock file stays.
Crash(r) ==
  /\ pc[r] \notin {"idle", "done", "crashed"}
  /\ crashes < MaxCrashes
  /\ crashes' = crashes + 1
  /\ Goto(r, "crashed")
  /\ UNCHANGED <<git, disk, run, breached>>

RunStep(r) ==
  \/ ReadHead(r) \/ Link(r) \/ Probe(r) \/ ClearStale(r) \/ Recheck(r) \/ Defer(r)
  \/ Rebase(r) \/ Parse(r) \/ Persist(r) \/ PersistsPartly(r) \/ Save(r)
  \/ ConsumePending(r) \/ Release(r)
  \/ StampHead(r) \/ Truncate(r) \/ WriteState(r)

Next ==
  \/ \E changed \in SUBSET Files : Commit(changed)
  \/ \E r \in Runs :
       \/ LoadState(r) \/ StartJob(r) \/ Fails(r) \/ Crash(r)
       \/ ReadHead(r) \/ Link(r) \/ Probe(r) \/ ClearStale(r) \/ Recheck(r) \/ Defer(r)
       \/ Rebase(r) \/ Parse(r) \/ Persist(r) \/ PersistsPartly(r) \/ Save(r)
       \/ ConsumePending(r) \/ Release(r)
       \/ StampHead(r) \/ Truncate(r) \/ WriteState(r)

Spec == Init /\ [][Next]_vars

\* A run that has started goes on, unless killed; nobody has to start one.
FairSpec == Spec /\ \A r \in Runs : WF_vars(RunStep(r))

-----------------------------------------------------------------------------
(* Properties.                                                               *)

\* Two updates of one repository are never both between taking and releasing the lock.
\* This is what the comments promise and the code does not keep: "Check + acquire are one
\* atomic exclusive create, so two updates arriving together can no longer both pass a
\* separate read check and race anyway", and no contender "deletes the winner's live
\* lock (two "winners")".
MutualExclusion == \A r, s \in Lockers : Inside(r) /\ Inside(s) => r = s

\* The lock excludes unless one of its three openings was used: it aged under a living
\* owner; it was created after another contender had judged what was there stale and
\* before that one's unlink; a run that had lost the create twice went on without.
\* Kills, failures, releases and dead owners nobody can probe open no fourth.
ExclusiveUnlessBreached == ~ breached => MutualExclusion

\* The updates had the lock to keep them apart, and no server job wrote beside them.
Undisturbed == ~ breached /\ \A j \in Jobs : pc[j] = "idle"

\* All that the commits up to c changed is indexed at that commit or later, unless an
\* update has reported that it left the file behind.
Covered(c) == \A n \in 1 .. c : \A f \in touched[n] \ behind : store[f] >= n

\* The sync pointer never claims more than the index holds, however many updates
\* compete, until the lock is breached or a server job starts.  Otherwise the next
\* update diffs from the pointer and skips what is missing for good.
PointerCovered == Undisturbed /\ pointer # Unreadable => Covered(pointer)

\* Until then the updates, whatever fails and whoever is killed, implement an index
\* that only moves forward along the history and a pointer that never claims more than
\* it holds: a run that parsed early does not overwrite what a later one persisted.
Synced == INSTANCE SyncedIndex WITH index <- store
IndexFollowsHistory ==
  /\ Synced!Init
  /\ [][Undisturbed' => Synced!Next]_<<head, touched, store, behind, pointer>>

\* A run defers to another only while that one is alive inside its section: a
\* killed update makes the next ones skip only where no probe can tell its death.
DefersOnlyToLive ==
  [][\A r \in Lockers : pc[r] # "defer" /\ pc'[r] = "defer"
       => \E s \in Lockers \ {r} : Inside(s) \/ (s \in Unprobed /\ pc[s] = "crashed")]_vars

\* state.json is unreadable only while a server job is writing it or after one
\* was killed doing so: the CLI and the workspace updater replace it whole.
TornOnlyByJobs ==
  pointer = Unreadable => \E r \in Jobs : pc[r] \in {"write", "crashed"}

\* Every run that has started ends or is killed: none waits for a lock whose
\* owner is gone, and none retries for ever.  (A run starts once.)
RunsEnd == <>[](\A r \in Runs : pc[r] \in {"idle", "done", "crashed"})

-----------------------------------------------------------------------------
(* What the comments say and the code does not keep.                         *)

\* "The running update reads this at the end of its pass and rolls forward to
\* the new HEAD": the commit in .update.pending is synced in the end.
RollsForward ==
  \A r \in Updates, n \in 1 .. MaxCommits :
    pc[r] = "consume" /\ ~ UpToDate(r) /\ pending = n
      ~> pointer # Unreadable /\ pointer >= n
=============================================================================
