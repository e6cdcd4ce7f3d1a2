-------------------------- MODULE IndexSyncProofs --------------------------
(***************************************************************************)
(* What holds of the index and its lock for every set of files, processes   *)
(* and jobs, any history and any number of kills: types, the lock's file,   *)
(* that every run is finite; that the lock excludes as long as none of its  *)
(* openings is used, and that two updates do not use them; and that         *)
(* exclusion is all that the index and its pointer need.                    *)
(***************************************************************************)
EXTENDS IndexSync, TLAPS

\* A job never comes near the lock, only a job stamps, and only the workspace
\* updater reloads its base.
JobStages ==
  \A r \in Runs :
    IF r \in Jobs
      THEN pc[r] \in {"idle", "parse", "persist", "stamp", "truncate", "write",
                      "done", "crashed"}
      ELSE /\ pc[r] \notin {"stamp", "truncate", "write"}
           /\ r \in Updates => pc[r] \notin {"rebase", "abort"}

\* A CLI update past ReadHead takes the lock only with something to do.
UpdatesHaveWork ==
  \A r \in Updates : pc[r] \in Locking \cup {"parse", "persist", "save", "unlock"}
                     => ~ UpToDate(r)

IInv == TypeOK /\ JobStages /\ UpdatesHaveWork

-----------------------------------------------------------------------------
(* Types, and who is at which stage.                                         *)

\* A commit touches neither the runs nor the disk.
LEMMA CommitTypes ==
  ASSUME IInv, NEW changed \in SUBSET Files, Commit(changed)
  PROVE  IInv'
<1> USE SyncAssumption
<1>1. head' \in Commits /\ head + 1 \in 1 .. MaxCommits
  BY DEF IInv, TypeOK, Commit, Commits
<1>2. TypeOK'
  BY <1>1 DEF IInv, TypeOK, Commit, disk, run, past, Commits
<1>3. JobStages'
  BY DEF IInv, JobStages, Commit
<1>4. UpdatesHaveWork'
  BY DEF IInv, UpdatesHaveWork, UpToDate, Commit, run
<1> QED BY <1>2, <1>3, <1>4 DEF IInv

\* Every other step of a run keeps the types.
LEMMA RunTypes ==
  ASSUME IInv, NEW r \in Runs,
         \/ LoadState(r) \/ StartJob(r) \/ Fails(r) \/ Crash(r) \/ RunStep(r)
  PROVE  IInv'
<1> USE SyncAssumption DEF IInv, TypeOK, JobStages, UpdatesHaveWork, Runs, Lockers,
        UpToDate, Goto, git, disk, run, past, Stage, Locking, Working
<1>1. CASE LoadState(r)
  <2>1. CASE pointer = Unreadable /\ r \in Updates
    BY <1>1, <2>1 DEF LoadState
  <2>2. CASE ~ (pointer = Unreadable /\ r \in Updates)
    <3>1. /\ pc[r] = "idle" /\ r \in Lockers
          /\ pc' = [pc EXCEPT ![r] = "head"] /\ base' = [base EXCEPT ![r] = pointer]
          /\ UNCHANGED <<git, disk, tries, target, parsed, scope, past>>
      BY <1>1, <2>2 DEF LoadState
    <3>2. TypeOK'
      BY <3>1
    <3>3. JobStages' /\ UpdatesHaveWork'
      BY <3>1
    <3> QED BY <3>2, <3>3
  <2> QED BY <2>1, <2>2
<1>2. CASE ReadHead(r)
  BY <1>2 DEF ReadHead
<1>3. CASE Link(r)
  BY <1>3 DEF Acquired, Link
<1>4. CASE Probe(r)
  BY <1>4 DEF Probe
<1>5. CASE ClearStale(r)
  BY <1>5 DEF ClearStale
<1>6. CASE Recheck(r)
  BY <1>6 DEF Acquired, Recheck
<1>7. CASE Defer(r)
  BY <1>7 DEF Defer
<1>8. CASE Rebase(r)
  BY <1>8 DEF Rebase
<1>9. CASE Parse(r)
  <2>1. \A from, to : to \in Commits => Changed(from, to) \subseteq Files
    BY DEF Changed, Commits
  <2>2. \A files \in Scopes(r) : files \subseteq Files
    BY <2>1 DEF Scopes
  <2> QED BY <1>9, <2>2 DEF Parse
<1>10. CASE Persist(r) \/ PersistsPartly(r)
  <2>1. CASE Persist(r)
    BY <2>1 DEF Persist, Persisted
  <2>2. CASE PersistsPartly(r)
    BY <2>2 DEF PersistsPartly, Persisted
  <2> QED BY <1>10, <2>1, <2>2
<1>11. CASE Fails(r)
  BY <1>11 DEF Fails
<1>12. CASE Save(r)
  BY <1>12 DEF Save
<1>13. CASE ConsumePending(r)
  BY <1>13 DEF ConsumePending
<1>14. CASE Release(r)
  BY <1>14 DEF Release
<1>15. CASE StartJob(r)
  BY <1>15 DEF StartJob
<1>16. CASE StampHead(r)
  BY <1>16 DEF StampHead
<1>17. CASE Truncate(r)
  BY <1>17 DEF Truncate
<1>18. CASE WriteState(r)
  BY <1>18 DEF WriteState
<1>19. CASE Crash(r)
  BY <1>19 DEF Crash
<1> QED BY <1>1, <1>2, <1>3, <1>4, <1>5, <1>6, <1>7, <1>8, <1>9, <1>10, <1>11, <1>12, <1>13, <1>14, <1>15, <1>16, <1>17, <1>18, <1>19 DEF RunStep

\* `repowise init` has left everything well typed.
LEMMA InvInit == Init => IInv
<1> USE SyncAssumption DEF Init
<1>1. Init => TypeOK
  <2> SUFFICES ASSUME Init PROVE TypeOK
    OBVIOUS
  <2>1. 0 \in Commits /\ 0 \in 0 .. MaxCrashes /\ "idle" \in Stage /\ 1 \in 1 .. 2
    BY DEF Commits, Stage
  <2>2. breached \in BOOLEAN
    BY DEF Init
  <2> QED BY <2>1, <2>2 DEF TypeOK
<1>2. Init => JobStages /\ UpdatesHaveWork
  BY DEF JobStages, UpdatesHaveWork, Locking, Runs, Lockers
<1> QED BY <1>1, <1>2 DEF IInv

\* So does every step of the system, a commit or a stuttering step included.
LEMMA InvStep == ASSUME IInv, [Next]_vars PROVE IInv'
<1>1. CASE UNCHANGED vars
  BY <1>1 DEF IInv, TypeOK, JobStages, UpdatesHaveWork, UpToDate, vars
<1>2. CASE Next
  BY <1>2, CommitTypes, RunTypes DEF Next, RunStep
<1> QED BY <1>1, <1>2

\* The types and the stages are an invariant, with no condition on who runs.
THEOREM Invariance == Spec => []IInv
  BY InvInit, InvStep, PTL DEF Spec

\* Every variable keeps its type: only commits are ever recorded as synced, as
\* pending or as a base, whatever the interleaving.
THEOREM TypeCorrect == Spec => []TypeOK
<1>1. IInv => TypeOK
  BY DEF IInv
<1> QED BY <1>1, Invariance, PTL

-----------------------------------------------------------------------------
(* Every run is finite.                                                      *)

\* How many steps a run has ahead of it, at most.  Two attempts at the lock take three
\* steps each; the stages that only some runs pass share their numbers.
StepsLeft(r) ==
  LET stage == pc[r]
      last  == tries[r] = 2
  IN CASE stage = "idle"     -> 18
       [] stage = "head"     -> 17
       [] stage = "link"     -> IF last THEN 13 ELSE 16
       [] stage = "probe"    -> IF last THEN 12 ELSE 15
       [] stage = "clear"    -> IF last THEN 11 ELSE 14
       [] stage = "recheck"  -> 10
       [] stage = "rebase"   -> 9
       [] stage = "parse"    -> 8
       [] stage = "persist"  -> 7
       [] stage = "unlock"   -> IF r \in Updates THEN 1 ELSE 6
       [] stage = "save"     -> 5
       [] stage = "stamp"    -> 5
       [] stage = "truncate" -> 4
       [] stage = "consume"  -> 3
       [] stage = "write"    -> 3
       [] stage = "defer"    -> 1
       [] stage = "abort"    -> 1
       [] stage = "done"     -> 0
       [] stage = "crashed"  -> 0

StepsFall(r) == IF pc'[r] = pc[r] THEN StepsLeft(r)' = StepsLeft(r) ELSE StepsLeft(r)' < StepsLeft(r)

\* A run moves nobody but itself.
LEMMA OthersStand ==
  ASSUME IInv, NEW r \in Runs, NEW s \in Runs \ {r},
         \/ LoadState(r) \/ StartJob(r) \/ Fails(r) \/ Crash(r) \/ RunStep(r)
  PROVE  /\ pc'[s] = pc[s] /\ tries'[s] = tries[s]
         /\ base'[s] = base[s] /\ target'[s] = target[s]
<1> USE DEF IInv, TypeOK, Goto, disk, run
<1>1. CASE LoadState(r) \/ StartJob(r) \/ Fails(r) \/ Crash(r) \/ ReadHead(r) \/ Rebase(r)
  BY <1>1 DEF LoadState, StartJob, Fails, Crash, ReadHead, Rebase
<1>2. CASE Link(r) \/ Probe(r) \/ ClearStale(r) \/ Recheck(r) \/ Defer(r)
  BY <1>2 DEF Link, Probe, ClearStale, Recheck, Defer
<1>3. CASE Parse(r) \/ Persist(r) \/ PersistsPartly(r) \/ Save(r) \/ ConsumePending(r)
  BY <1>3 DEF Parse, Persist, PersistsPartly, Save, ConsumePending
<1>4. CASE Release(r) \/ StampHead(r) \/ Truncate(r) \/ WriteState(r)
  BY <1>4 DEF Release, StampHead, Truncate, WriteState
<1> QED BY <1>1, <1>2, <1>3, <1>4 DEF RunStep

LEMMA StepsFallStep ==
  ASSUME IInv, NEW r \in Runs,
         LoadState(r) \/ StartJob(r) \/ Fails(r) \/ Crash(r) \/ RunStep(r)
  PROVE  \A s \in Runs : StepsFall(s)
<1> USE SyncAssumption DEF IInv, TypeOK, JobStages, Runs, Lockers, Goto, disk, run
<1>0. ASSUME NEW s \in Runs, s # r
      PROVE  pc'[s] = pc[s] /\ tries'[s] = tries[s]
  BY <1>0, OthersStand
<1>1. ASSUME NEW s \in Runs, s # r
      PROVE  StepsFall(s)
  BY <1>0, <1>1 DEF StepsFall, StepsLeft
<1>2. StepsLeft(r)' < StepsLeft(r) /\ pc'[r] # pc[r]
  <2>1. CASE Link(r) \/ Probe(r) \/ Recheck(r) \/ Defer(r)
    BY <2>1 DEF Link, Probe, Recheck, Defer, Acquired, StepsLeft
  <2>2. CASE ClearStale(r)
    BY <2>2 DEF ClearStale, StepsLeft
  <2>3. CASE LoadState(r) \/ StartJob(r)
    BY <2>3 DEF LoadState, StartJob, StepsLeft
  <2>4. CASE ReadHead(r)
    BY <2>4 DEF ReadHead, StepsLeft
  <2>5. CASE Rebase(r) \/ Parse(r) \/ Persist(r) \/ PersistsPartly(r)
    BY <2>5 DEF Rebase, Parse, Persist, PersistsPartly, Persisted, StepsLeft
  <2>6. CASE Save(r) \/ ConsumePending(r) \/ Release(r)
    BY <2>6 DEF Save, ConsumePending, Release, StepsLeft
  <2>7. CASE StampHead(r) \/ Truncate(r) \/ WriteState(r)
    BY <2>7 DEF StampHead, Truncate, WriteState, StepsLeft
  <2>8. CASE Fails(r)
    BY <2>8 DEF Fails, StepsLeft
  <2>9. CASE Crash(r)
    BY <2>9 DEF Crash, StepsLeft, Stage, Locking, Working
  <2> QED BY <2>1, <2>2, <2>3, <2>4, <2>5, <2>6, <2>7, <2>8, <2>9 DEF RunStep
<1> QED BY <1>1, <1>2 DEF StepsFall

\* No run goes round in circles, whatever the others do to the lock and to the disk
\* meanwhile: each of its steps leaves it fewer, of 18 at most, and nobody else's step
\* gives it more.  With the fairness of FairSpec this is why RunsEnd holds: the retry
\* for the lock comes once, and then the run goes on, locked or not, or defers.
THEOREM RunsAreFinite == Spec => [][\A r \in Runs : StepsFall(r)]_vars
<1>1. ASSUME IInv, [Next]_vars PROVE [\A r \in Runs : StepsFall(r)]_vars
  <2>1. ASSUME NEW changed \in SUBSET Files, Commit(changed)
        PROVE  \A r \in Runs : StepsFall(r)
    BY <2>1 DEF Commit, run, StepsFall, StepsLeft
  <2> QED BY <1>1, <2>1, StepsFallStep DEF Next, RunStep
<1> QED BY <1>1, Invariance, PTL DEF Spec

-----------------------------------------------------------------------------
(* state.json.                                                               *)

\* The step that truncates the file is a job's, and so is the one that leaves
\* its stage.
LEMMA TornStep ==
  ASSUME IInv, TornOnlyByJobs, [Next]_vars
  PROVE  TornOnlyByJobs'
<1> SUFFICES ASSUME pointer' = Unreadable
             PROVE  \E r \in Jobs : pc'[r] \in {"write", "crashed"}
  BY DEF TornOnlyByJobs
<1> USE SyncAssumption DEF IInv, Runs
<1>t. \A r \in Runs : target[r] # Unreadable
  BY DEF TypeOK, Commits
<1>1. CASE UNCHANGED <<pointer, pc>>
  BY <1>1 DEF TornOnlyByJobs
<1>2. ASSUME NEW r \in Runs, Truncate(r)
      PROVE  \E s \in Jobs : pc'[s] \in {"write", "crashed"}
  BY <1>2 DEF Truncate, Goto, TypeOK, JobStages
<1>3. ASSUME NEW r \in Runs, Save(r) \/ WriteState(r)
      PROVE  FALSE
  BY <1>3, <1>t DEF Save, WriteState
<1>4. ASSUME NEW r \in Runs, UNCHANGED pointer, pc[r] \notin {"write", "crashed"},
             \E stage \in Stage : Goto(r, stage)
      PROVE  \E s \in Jobs : pc'[s] \in {"write", "crashed"}
  BY <1>4 DEF TornOnlyByJobs, Goto, TypeOK
<1>5. ASSUME NEW r \in Runs, Crash(r)
      PROVE  \E s \in Jobs : pc'[s] \in {"write", "crashed"}
  BY <1>5 DEF Crash, TornOnlyByJobs, Goto, TypeOK, disk
<1>6. ASSUME NEW r \in Runs, LoadState(r) \/ StartJob(r) \/ Fails(r)
      PROVE  \E s \in Jobs : pc'[s] \in {"write", "crashed"}
  BY <1>6, <1>4 DEF LoadState, StartJob, Fails, disk, Stage, Working
<1>7. ASSUME NEW r \in Runs,
             ReadHead(r) \/ Link(r) \/ Probe(r) \/ ClearStale(r) \/ Recheck(r) \/ Defer(r)
      PROVE  \E s \in Jobs : pc'[s] \in {"write", "crashed"}
  BY <1>7, <1>4 DEF ReadHead, Link, Probe, ClearStale, Recheck, Defer, Acquired, disk,
                    Stage, Locking, Working
<1>8. ASSUME NEW r \in Runs,
             \/ Rebase(r) \/ Parse(r) \/ Persist(r) \/ PersistsPartly(r) \/ ConsumePending(r)
             \/ Release(r) \/ StampHead(r)
      PROVE  \E s \in Jobs : pc'[s] \in {"write", "crashed"}
  BY <1>8, <1>4 DEF Rebase, Parse, Persist, PersistsPartly, Persisted, ConsumePending, Release,
                    StampHead, disk, Stage, Working
<1>9. ASSUME NEW changed \in SUBSET Files, Commit(changed)
      PROVE  UNCHANGED <<pointer, pc>>
  BY <1>9 DEF Commit, disk
<1> QED BY <1>1, <1>2, <1>3, <1>5, <1>6, <1>7, <1>8, <1>9 DEF Next, vars

\* An unreadable state.json is a server job's doing: it is writing the file, or
\* was killed while it did.  The CLI and the workspace updater never tear it.
THEOREM TornSafe == Spec => []TornOnlyByJobs
<1>1. Init => TornOnlyByJobs
  BY SyncAssumption DEF Init, TornOnlyByJobs
<1> QED BY <1>1, TornStep, Invariance, PTL DEF Spec

-----------------------------------------------------------------------------
(* The lock's file, for any number of lockers, slow ones included.           *)

\* The lock names a run that is inside or was killed there.
LockNamesHolder ==
  \A r \in Lockers : lock = r => Inside(r) \/ pc[r] = "crashed"

\* A step of a run leaves its own name in the lock only while it is inside.
LEMMA HolderRunStep ==
  ASSUME IInv, LockNamesHolder, NEW r \in Runs,
         \/ LoadState(r) \/ StartJob(r) \/ Fails(r) \/ Crash(r) \/ RunStep(r)
  PROVE  LockNamesHolder'
<1> USE SyncAssumption DEF IInv, TypeOK, JobStages, UpdatesHaveWork, LockNamesHolder,
        Inside, UpToDate, Goto, Runs, Lockers, Locking, Working
<1>1. CASE LoadState(r)
  BY <1>1 DEF LoadState, disk
<1>2. CASE ReadHead(r)
  BY <1>2 DEF ReadHead, disk
<1>3. CASE Link(r)
  BY <1>3 DEF Acquired, Link, run
<1>4. CASE Probe(r) \/ Defer(r)
  BY <1>4 DEF Probe, Defer, disk, run
<1>5. CASE ClearStale(r)
  BY <1>5 DEF ClearStale
<1>6. CASE Recheck(r)
  BY <1>6 DEF Acquired, Recheck, disk, run
<1>7. CASE Rebase(r)
  BY <1>7 DEF Rebase, disk
<1>8. CASE Parse(r)
  <2>1. pc[r] = "parse" /\ Goto(r, "persist") /\ UNCHANGED <<lock, base, target>>
    BY <1>8 DEF Parse, disk
  <2> QED BY <2>1
<1>9. CASE Persist(r) \/ PersistsPartly(r)
  BY <1>9 DEF Persist, PersistsPartly, Persisted, run
<1>10. CASE Fails(r) \/ Save(r)
  BY <1>10 DEF Fails, Save, disk, run
<1>11. CASE ConsumePending(r)
  BY <1>11 DEF ConsumePending, run
<1>12. CASE Release(r)
  BY <1>12 DEF Release
<1>13. CASE StartJob(r) \/ StampHead(r) \/ Truncate(r) \/ WriteState(r)
  BY <1>13 DEF StartJob, StampHead, Truncate, WriteState, disk, run
<1>14. CASE Crash(r)
  BY <1>14 DEF Crash, disk, run
<1> QED BY <1>1, <1>2, <1>3, <1>4, <1>5, <1>6, <1>7, <1>8, <1>9, <1>10, <1>11, <1>12,
   <1>13, <1>14 DEF RunStep

\* So does every step.
LEMMA HolderStep == ASSUME IInv, LockNamesHolder, [Next]_vars PROVE LockNamesHolder'
<1>1. CASE UNCHANGED <<lock, pc, base, target>>
  BY <1>1 DEF LockNamesHolder, Inside, UpToDate
<1>2. ASSUME NEW changed \in SUBSET Files, Commit(changed)
      PROVE  UNCHANGED <<lock, pc, base, target>>
  BY <1>2 DEF Commit, disk, run
<1> QED BY <1>1, <1>2, HolderRunStep DEF Next, RunStep, vars

\* The lock always tells who to ask: however many updates compete, are killed
\* or overstay the stale ceiling, the run it names is inside its section or was
\* killed there, never one that has finished.
THEOREM LockNamesOwner == Spec => []LockNamesHolder
<1>1. Init => LockNamesHolder
  BY SyncAssumption DEF Init, LockNamesHolder, Runs, Lockers
<1>2. IInv /\ LockNamesHolder /\ [Next]_vars => LockNamesHolder'
  BY HolderStep
<1> QED BY <1>1, <1>2, Invariance, PTL DEF Spec

\* Only a run that found the lock's owner alive, or not known to be dead, comes to defer.
LEMMA DeferStep ==
  ASSUME IInv, LockNamesHolder, [Next]_vars, NEW r \in Lockers,
         pc[r] # "defer", pc'[r] = "defer"
  PROVE  \E s \in Lockers \ {r} : Inside(s) \/ (s \in Unprobed /\ pc[s] = "crashed")
<1> USE SyncAssumption DEF Runs, Lockers
<1>0. pc \in [Runs -> Stage]
  BY DEF IInv, TypeOK
<1>1. PICK s \in Runs : Probe(s) \/ Recheck(s)
  <2>1. CASE UNCHANGED pc
    BY <2>1
  <2>2. ASSUME NEW changed \in SUBSET Files, Commit(changed)
        PROVE  UNCHANGED pc
    BY <2>2 DEF Commit
  <2>3. ASSUME NEW s \in Runs, NEW stage \in Stage \ {"defer"}, Goto(s, stage)
        PROVE  pc'[r] # "defer"
    BY <1>0, <2>3 DEF Goto
  <2>4. ASSUME NEW s \in Runs, LoadState(s) \/ StartJob(s) \/ Fails(s) \/ Crash(s)
        PROVE  FALSE
    BY <2>3, <2>4 DEF LoadState, StartJob, Fails, Crash, Stage, Working
  <2>5. ASSUME NEW s \in Runs, ReadHead(s) \/ Link(s) \/ ClearStale(s) \/ Defer(s)
        PROVE  FALSE
    BY <2>3, <2>5 DEF ReadHead, Link, ClearStale, Defer, Acquired, Stage, Locking, Working
  <2>6. ASSUME NEW s \in Runs,
               \/ Rebase(s) \/ Parse(s) \/ Persist(s) \/ PersistsPartly(s) \/ Save(s)
               \/ ConsumePending(s) \/ Release(s)
        PROVE  FALSE
    BY <2>3, <2>6 DEF Rebase, Parse, Persist, PersistsPartly, Persisted, Save, ConsumePending,
       Release, Stage, Working
  <2>7. ASSUME NEW s \in Runs, StampHead(s) \/ Truncate(s) \/ WriteState(s)
        PROVE  FALSE
    BY <2>3, <2>7 DEF StampHead, Truncate, WriteState, Stage
  <2> QED BY <2>1, <2>2, <2>4, <2>5, <2>6, <2>7 DEF Next, vars
<1>2. s = r /\ pc[r] \in {"probe", "recheck"} /\ LiveLock
  BY <1>0, <1>1 DEF Probe, Recheck, Goto, Acquired
<1>3. PICK owner \in Lockers : lock = owner /\ (pc[owner] # "crashed" \/ owner \in Unprobed)
  BY <1>2 DEF LiveLock, OwnerAtWork
<1>4. Inside(owner) \/ pc[owner] = "crashed"
  BY <1>3 DEF LockNamesHolder
<1>5. ~ Inside(r) /\ pc[r] # "crashed"
  BY <1>2 DEF Inside, Working
<1> QED BY <1>3, <1>4, <1>5

\* An update defers only to another one that is inside its section, or was killed there
\* without a probe being able to tell, for any number of updates, slow ones included.
THEOREM DefersSafe == Spec => DefersOnlyToLive
<1>1. IInv /\ LockNamesHolder /\ [Next]_vars
        => [\A r \in Lockers : pc[r] # "defer" /\ pc'[r] = "defer"
              => \E s \in Lockers \ {r} :
                   Inside(s) \/ (s \in Unprobed /\ pc[s] = "crashed")]_vars
  BY DeferStep
<1> QED BY <1>1, LockNamesOwner, Invariance, PTL DEF Spec, DefersOnlyToLive

-----------------------------------------------------------------------------
(* Exclusion, for any number of lockers, slow ones included.                 *)

\* Whoever is inside holds the lock, and whoever is about to unlink a stale lock finds
\* no live owner's: between look and unlink a lock can only have gone.
Guarded ==
  ~ breached =>
    /\ \A r \in Lockers : Inside(r) => lock = r
    /\ \A r \in Lockers : pc[r] = "clear" => ~ OwnerAtWork

LEMMA GuardedRunStep ==
  ASSUME IInv, Guarded, NEW r \in Runs,
         \/ LoadState(r) \/ StartJob(r) \/ Fails(r) \/ Crash(r) \/ RunStep(r)
  PROVE  Guarded'
<1> USE SyncAssumption DEF IInv, TypeOK, JobStages, UpdatesHaveWork, Guarded, OwnerAtWork,
        Inside, UpToDate, Goto, Runs, Lockers, Locking, Working, git, disk, run, past
<1>1. CASE LoadState(r)
  BY <1>1 DEF LoadState
<1>2. CASE ReadHead(r)
  BY <1>2 DEF ReadHead
<1>3. CASE Link(r)
  <2>1. CASE lock = Nobody
    <3>1. /\ lock' = r /\ breached' = (breached \/ \E s \in Lockers : pc[s] = "clear")
          /\ pc' = [pc EXCEPT ![r] = Acquired(r)] /\ UNCHANGED <<base, target>>
      BY <1>3, <2>1 DEF Link
    <3>2. Acquired(r) # "clear" /\ \A s \in Lockers \ {r} : Inside(s)' <=> Inside(s)
      BY <3>1 DEF Acquired
    <3>3. ~ breached => \A s \in Lockers : ~ Inside(s)
      BY <2>1
    <3> QED BY <3>1, <3>2, <3>3
  <2>2. CASE lock # Nobody
    BY <1>3, <2>2 DEF Link
  <2> QED BY <2>1, <2>2
<1>4. CASE Probe(r)
  BY <1>4 DEF DeadLock, Probe
<1>5. CASE ClearStale(r)
  BY <1>5 DEF ClearStale
<1>6. CASE Recheck(r)
  BY <1>6 DEF Acquired, Recheck
<1>7. CASE Defer(r)
  BY <1>7 DEF Defer
<1>8. CASE Rebase(r)
  BY <1>8 DEF Rebase
<1>9. CASE Parse(r)
  <2>1. pc[r] = "parse" /\ Goto(r, "persist") /\ UNCHANGED <<lock, breached, base, target>>
    BY <1>9 DEF Parse
  <2> QED BY <2>1
<1>10. CASE Persist(r) \/ PersistsPartly(r)
  BY <1>10 DEF Persist, PersistsPartly, Persisted
<1>11. CASE Fails(r)
  BY <1>11 DEF Fails
<1>12. CASE Save(r)
  BY <1>12 DEF Save
<1>13. CASE ConsumePending(r)
  BY <1>13 DEF ConsumePending
<1>14. CASE Release(r)
  <2>1. /\ pc[r] \in {"unlock", "abort"} /\ Inside(r) /\ lock' = Nobody
        /\ UNCHANGED <<breached, base, target>>
    BY <1>14 DEF Release
  <2>2. pc' = [pc EXCEPT ![r] = IF pc[r] = "unlock" /\ r \in Workspaces THEN "save" ELSE "done"]
    BY <1>14 DEF Release
  <2> QED BY <2>1, <2>2
<1>15. CASE StartJob(r) \/ StampHead(r) \/ Truncate(r) \/ WriteState(r)
  BY <1>15 DEF StartJob, StampHead, Truncate, WriteState
<1>16. CASE Crash(r)
  BY <1>16 DEF Crash
<1> QED BY <1>1, <1>2, <1>3, <1>4, <1>5, <1>6, <1>7, <1>8, <1>9, <1>10, <1>11, <1>12,
   <1>13, <1>14, <1>15, <1>16 DEF RunStep

LEMMA GuardedStep == ASSUME IInv, Guarded, [Next]_vars PROVE Guarded'
<1>1. CASE UNCHANGED <<lock, pc, base, target, breached>>
  BY <1>1 DEF Guarded, OwnerAtWork, Inside, UpToDate
<1>2. ASSUME NEW changed \in SUBSET Files, Commit(changed)
      PROVE  UNCHANGED <<lock, pc, base, target, breached>>
  BY <1>2 DEF Commit, disk, run, past
<1> QED BY <1>1, <1>2, GuardedRunStep DEF Next, RunStep, vars

\* The lock keeps apart any number of updates, whatever they live through, until a lock
\* ages under its owner, or is created between another's look and its unlink, or a run
\* goes on without one.  None of the three has to be used for a killed update's lock to
\* be taken over.
THEOREM LockExcludes == Spec => []ExclusiveUnlessBreached
<1>1. Init => Guarded
  BY SyncAssumption DEF Init, Guarded, Inside, UpToDate, Working, Runs, Lockers
<1>2. IInv /\ Guarded /\ [Next]_vars => Guarded'
  BY GuardedStep
<1>3. IInv /\ Guarded => ExclusiveUnlessBreached
  BY DEF Guarded, ExclusiveUnlessBreached, MutualExclusion
<1> QED BY <1>1, <1>2, <1>3, Invariance, PTL DEF Spec

-----------------------------------------------------------------------------
(* Two updates never breach the lock, unless one is slow.                    *)

\* A run that will not be inside its section any more.
Left(r) ==
  \/ pc[r] \in {"done", "crashed"}
  \/ r \in Workspaces /\ pc[r] \in {"save", "consume"}

\* Whoever found the lock taken found the other run's, and clears it only
\* when that has left.
FoundTaken ==
  \A r \in Lockers :
    /\ pc[r] \in {"probe", "defer"} => \E s \in Lockers \ {r} : Inside(s) \/ Left(s)
    /\ pc[r] = "clear" => \E s \in Lockers \ {r} : Left(s)

\* Nobody is left to take the lock from a run that tries again.
SecondTry ==
  \A r \in Lockers : tries[r] = 2 \/ pc[r] = "recheck" =>
    /\ \A s \in Lockers \ {r} : Left(s)
    /\ pc[r] \notin {"idle", "head", "probe", "clear", "recheck", "defer"}
    /\ pc[r] = "link" => lock = Nobody

LockInv == LockNamesHolder /\ Guarded /\ FoundTaken /\ SecondTry /\ ~ breached

TwoLockers == \A r, s, t \in Lockers : r = s \/ s = t \/ r = t

\* Whoever leaves its section has left for good, and a lock comes only from os.link.
LEMMA LeavesForGood ==
  ASSUME IInv, NEW r \in Lockers,
         \/ LoadState(r) \/ StartJob(r) \/ Fails(r) \/ Crash(r) \/ RunStep(r)
  PROVE  /\ Left(r) => Left(r)'
         /\ Inside(r) => Inside(r)' \/ Left(r)'
         /\ lock' \in {lock, Nobody} \/ (lock' = r /\ pc[r] = "link" /\ lock = Nobody)
<1> USE SyncAssumption DEF IInv, TypeOK, JobStages, UpdatesHaveWork, Left, Inside, UpToDate,
        Goto, Runs, Lockers, Locking, Working, git, disk, run
<1>1. CASE LoadState(r) \/ ReadHead(r) \/ Rebase(r)
  BY <1>1 DEF LoadState, ReadHead, Rebase
<1>2. CASE Link(r)
  BY <1>2 DEF Link, Acquired
<1>3. CASE Probe(r) \/ ClearStale(r) \/ Recheck(r) \/ Defer(r)
  BY <1>3 DEF Probe, ClearStale, Recheck, Defer, Acquired
<1>4. CASE Parse(r)
  <2>1. pc[r] = "parse" /\ Goto(r, "persist") /\ UNCHANGED <<lock, base, target>>
    BY <1>4 DEF Parse
  <2> QED BY <2>1
<1>5. CASE Persist(r) \/ PersistsPartly(r) \/ Fails(r)
  BY <1>5 DEF Persist, PersistsPartly, Persisted, Fails
<1>6. CASE Save(r) \/ ConsumePending(r)
  BY <1>6 DEF Save, ConsumePending
<1>7. CASE Release(r)
  BY <1>7 DEF Release
<1>8. CASE StartJob(r) \/ StampHead(r) \/ Truncate(r) \/ WriteState(r)
  BY <1>8 DEF StartJob, StampHead, Truncate, WriteState
<1>9. CASE Crash(r)
  BY <1>9 DEF Crash
<1> QED BY <1>1, <1>2, <1>3, <1>4, <1>5, <1>6, <1>7, <1>8, <1>9 DEF RunStep

\* What becomes of the run itself: it finds the lock taken only while the other holds it
\* or after that was killed, and it finds it free on its second try.
LEMMA TriesTwice ==
  ASSUME TwoLockers, ~ SlowRuns, IInv, LockInv, NEW r \in Lockers,
         \/ LoadState(r) \/ StartJob(r) \/ Fails(r) \/ Crash(r) \/ RunStep(r)
  PROVE  /\ pc'[r] \in {"probe", "defer"} => \E s \in Lockers \ {r} : Inside(s) \/ Left(s)
         /\ pc'[r] = "clear" => \E s \in Lockers \ {r} : Left(s)
         /\ tries'[r] = 2 \/ pc'[r] = "recheck" =>
              /\ \A s \in Lockers \ {r} : Left(s)
              /\ pc'[r] \notin {"idle", "head", "probe", "clear", "recheck", "defer"}
              /\ pc'[r] = "link" => lock' = Nobody
         /\ ~ breached'
<1> USE SyncAssumption DEF Runs, Goto
<1>t. pc \in [Runs -> Stage] /\ tries \in [Runs -> 1 .. 2] /\ lock \in Lockers \cup {Nobody}
  BY DEF IInv, TypeOK
<1>1. CASE Link(r)
  <2>1. CASE lock = Nobody
    <3>1. ~ Left(r) /\ pc[r] # "clear"
      BY <1>1 DEF Link, Left
    <3>2. \A s \in Lockers : pc[s] # "clear"
      BY <3>1 DEF LockInv, FoundTaken, TwoLockers
    <3>3. ~ breached'
      BY <1>1, <2>1, <3>2 DEF Link, LockInv
    <3>4. pc'[r] = Acquired(r) /\ tries'[r] = tries[r]
      BY <1>1, <1>t, <2>1 DEF Link, run
    <3> QED BY <3>3, <3>4 DEF Acquired, LockInv, SecondTry
  <2>2. CASE lock # Nobody
    <3>0. ~ breached'
      BY <1>1, <2>2 DEF Link, LockInv
    <3>1. pc'[r] = "probe" /\ tries'[r] = tries[r] /\ pc[r] = "link"
      BY <1>1, <1>t, <2>2 DEF Link, run
    <3>2. lock \in Lockers /\ lock # r
      BY <1>t, <2>2, <3>1 DEF LockInv, LockNamesHolder, Inside, Working
    <3>3. Inside(lock) \/ Left(lock)
      BY <3>2 DEF LockInv, LockNamesHolder, Left
    <3>4. tries[r] # 2
      BY <2>2, <3>1 DEF LockInv, SecondTry
    <3> QED BY <3>0, <3>1, <3>2, <3>3, <3>4
  <2> QED BY <2>1, <2>2
<1>2. CASE Probe(r)
  <2>0. ~ breached'
    BY <1>2 DEF Probe, DeadLock, LockInv
  <2>1. /\ pc[r] = "probe" /\ pc'[r] \in {"defer", "clear"} /\ tries'[r] = tries[r]
        /\ pc'[r] = "clear" => ~ OwnerAtWork
    BY <1>2, <1>t DEF Probe, DeadLock, run
  <2>2. \A s \in Lockers : Inside(s) => OwnerAtWork
    BY DEF LockInv, Guarded, OwnerAtWork, Inside, Working
  <2> QED BY <2>0, <2>1, <2>2 DEF LockInv, FoundTaken, SecondTry
<1>3. CASE ClearStale(r)
  <2>1. pc[r] = "clear" /\ lock' = Nobody /\ ~ breached'
    BY <1>3 DEF ClearStale, past, LockInv
  <2>2. tries[r] # 2 /\ \A s \in Lockers \ {r} : Left(s)
    BY <2>1 DEF LockInv, FoundTaken, SecondTry, TwoLockers
  <2>3. pc'[r] = "link"
    BY <1>3, <1>t, <2>2 DEF ClearStale
  <2> QED BY <2>1, <2>2, <2>3 DEF LockInv
<1>4. ~ Recheck(r)
  BY DEF Recheck, LockInv, SecondTry
<1>5. ASSUME UNCHANGED <<tries, breached>>,
             pc'[r] \notin {"idle", "probe", "clear", "recheck", "defer"},
             pc'[r] \in {"head", "link"} => pc[r] \in {"idle", "head"}
      PROVE  /\ tries'[r] = 2 => /\ \A s \in Lockers \ {r} : Left(s)
                                 /\ pc'[r] \notin {"head", "link"}
             /\ ~ breached'
  BY <1>5 DEF LockInv, SecondTry
<1>6. CASE LoadState(r) \/ ReadHead(r) \/ Defer(r) \/ Rebase(r)
  BY <1>5, <1>6, <1>t DEF LoadState, ReadHead, Defer, Rebase, run, past
<1>7. CASE Parse(r) \/ Persist(r) \/ PersistsPartly(r) \/ Fails(r)
  BY <1>5, <1>7, <1>t DEF Parse, Persist, PersistsPartly, Persisted, Fails, run, past
<1>8. CASE Save(r) \/ ConsumePending(r) \/ Release(r) \/ Crash(r)
  BY <1>5, <1>8, <1>t DEF Save, ConsumePending, Release, Crash, run, past
<1>9. CASE StartJob(r) \/ StampHead(r) \/ Truncate(r) \/ WriteState(r)
  BY <1>5, <1>9, <1>t DEF StartJob, StampHead, Truncate, WriteState, run, past
<1> QED BY <1>1, <1>2, <1>3, <1>4, <1>6, <1>7, <1>8, <1>9 DEF RunStep

\* A step of a run keeps the invariant.
LEMMA LockRunStep ==
  ASSUME TwoLockers, ~ SlowRuns, IInv, LockInv, NEW r \in Runs,
         \/ LoadState(r) \/ StartJob(r) \/ Fails(r) \/ Crash(r) \/ RunStep(r)
  PROVE  FoundTaken' /\ SecondTry' /\ ~ breached'
<1> USE SyncAssumption
<1>1. \A s \in Lockers \ {r} :
        /\ pc'[s] = pc[s] /\ tries'[s] = tries[s]
        /\ (Inside(s)' <=> Inside(s)) /\ (Left(s)' <=> Left(s))
  BY OthersStand DEF Inside, Left, UpToDate, Runs
<1>2. CASE r \in Jobs
  <2>1. UNCHANGED <<lock, breached>>
    BY <1>2 DEF IInv, JobStages, LoadState, StartJob, Fails, Crash, RunStep, ReadHead, Link,
       Probe, ClearStale, Recheck, Defer, Rebase, Parse, Persist, PersistsPartly, Save,
       ConsumePending, Release, StampHead, Truncate, WriteState, disk, past
  <2>2. r \notin Lockers
    BY <1>2
  <2> QED BY <1>1, <2>1, <2>2 DEF LockInv, FoundTaken, SecondTry
<1>3. CASE r \in Lockers
  <2>1. /\ Left(r) => Left(r)'
        /\ Inside(r) => Inside(r)' \/ Left(r)'
        /\ Left(r) => lock' \in {lock, Nobody}
    BY <1>3, LeavesForGood DEF Left
  <2>2. \A s \in Lockers :
          /\ Left(s) => Left(s)'
          /\ Inside(s) => Inside(s)' \/ Left(s)'
    BY <1>1, <2>1
  <2>3. FoundTaken'
    BY <1>1, <1>3, <2>2, TriesTwice DEF LockInv, FoundTaken
  <2>4. SecondTry'
    BY <1>1, <1>3, <2>1, <2>2, TriesTwice DEF LockInv, SecondTry
  <2> QED BY <1>3, <2>3, <2>4, TriesTwice
<1> QED BY <1>2, <1>3 DEF Runs

LEMMA LockStep ==
  ASSUME TwoLockers, ~ SlowRuns, IInv, LockInv, [Next]_vars
  PROVE  LockInv'
<1>1. CASE UNCHANGED <<lock, pc, tries, base, target, breached>>
  BY <1>1 DEF LockInv, LockNamesHolder, Guarded, OwnerAtWork, FoundTaken, SecondTry, Left,
              Inside, UpToDate
<1>2. ASSUME NEW changed \in SUBSET Files, Commit(changed)
      PROVE  UNCHANGED <<lock, pc, tries, base, target, breached>>
  BY <1>2 DEF Commit, disk, run, past
<1>3. LockNamesHolder' /\ Guarded'
  BY HolderStep, GuardedStep DEF LockInv
<1> QED BY <1>1, <1>2, <1>3, LockRunStep DEF Next, RunStep, vars, LockInv

LEMMA LockInit == Init => LockInv
  BY SyncAssumption DEF Init, LockInv, LockNamesHolder, Guarded, FoundTaken, SecondTry,
     Inside, UpToDate, Working, Runs, Lockers

\* The condition of the theorem above can be met: with two updates of which neither
\* outlives the stale ceiling, the lock is never breached, whoever is killed.
THEOREM TwoNeverBreach ==
  ASSUME TwoLockers, ~ SlowRuns
  PROVE  Spec => [](~ breached)
<1>1. IInv /\ LockInv /\ [Next]_vars => LockInv'
  BY LockStep
<1>2. LockInv => ~ breached
  BY DEF LockInv
<1> QED BY <1>1, <1>2, LockInit, Invariance, PTL DEF Spec

-----------------------------------------------------------------------------
(* The index and the pointer, as long as updates exclude one another and no  *)
(* job writes beside them.                                                   *)

Quiet == \A j \in Jobs : pc[j] = "idle"

\* Only a locker makes a step that leaves the jobs idle.
LEMMA QuietStep ==
  ASSUME IInv, Quiet, Quiet', NEW r \in Runs,
         \/ LoadState(r) \/ StartJob(r) \/ Fails(r) \/ Crash(r) \/ RunStep(r)
  PROVE  r \in Lockers
<1> SUFFICES ASSUME r \in Jobs PROVE FALSE
  BY DEF Runs
<1>1. pc[r] = "idle" /\ pc'[r] = "idle" /\ r \notin Lockers /\ pc \in [Runs -> Stage]
  BY SyncAssumption DEF Quiet, IInv, TypeOK
<1>2. ~ StartJob(r) /\ ~ LoadState(r)
  BY <1>1 DEF StartJob, LoadState, Goto
<1> QED BY <1>1, <1>2 DEF Fails, Crash, RunStep, ReadHead, Link, Probe, ClearStale, Recheck,
        Defer, Rebase, Parse, Persist, PersistsPartly, Save, ConsumePending, Release,
        StampHead, Truncate, WriteState

\* A breach stays on record, and a job that has started is never idle again.
LEMMA DisturbedStays ==
  ASSUME IInv, [Next]_vars, Undisturbed'
  PROVE  Undisturbed
<1>1. breached => breached'
  <2>1. CASE UNCHANGED breached
    BY <2>1
  <2>2. ASSUME NEW r \in Runs, Link(r) \/ Probe(r) \/ Recheck(r)
        PROVE  breached => breached'
    BY <2>2 DEF Link, Probe, Recheck
  <2>3. ASSUME NEW changed \in SUBSET Files, Commit(changed)
        PROVE  UNCHANGED breached
    BY <2>3 DEF Commit, past
  <2>4. ASSUME NEW r \in Runs,
               \/ LoadState(r) \/ StartJob(r) \/ Fails(r) \/ Crash(r) \/ ReadHead(r)
               \/ ClearStale(r) \/ Defer(r) \/ Rebase(r) \/ Parse(r) \/ Persist(r)
               \/ PersistsPartly(r) \/ Save(r) \/ ConsumePending(r) \/ Release(r)
               \/ StampHead(r) \/ Truncate(r) \/ WriteState(r)
        PROVE  UNCHANGED breached
    BY <2>4 DEF LoadState, StartJob, Fails, Crash, ReadHead, ClearStale, Defer, Rebase, Parse,
       Persist, PersistsPartly, Save, ConsumePending, Release, StampHead, Truncate, WriteState,
       past
  <2> QED BY <2>1, <2>2, <2>3, <2>4 DEF Next, vars
<1>2. ASSUME NEW j \in Jobs PROVE pc[j] = "idle"
  <2>1. pc'[j] = "idle" /\ j \in Runs
    BY DEF Undisturbed, Runs
  <2>2. CASE UNCHANGED pc
    BY <2>1, <2>2
  <2>3. ASSUME NEW changed \in SUBSET Files, Commit(changed)
        PROVE  UNCHANGED pc
    BY <2>3 DEF Commit
  <2>4. CASE StepsFall(j)
    <3>1. StepsLeft(j)' = 18
      BY <2>1 DEF StepsLeft
    <3>2. pc[j] \in Stage /\ tries[j] \in 1 .. 2
      BY <2>1 DEF IInv, TypeOK
    <3>3. StepsLeft(j) \in 0 .. 18
      BY <3>2 DEF StepsLeft, Stage, Locking, Working
    <3> QED BY <2>1, <2>4, <3>1, <3>3 DEF StepsFall
  <2> QED BY <2>1, <2>2, <2>3, <2>4, StepsFallStep DEF Next, RunStep, vars
<1> QED BY <1>1, <1>2 DEF Undisturbed

\* A run that has persisted, and will record its target.
Recording(r) == pc[r] = "save" \/ (r \in Workspaces /\ pc[r] = "unlock")

\* The commits that are, were or will be recorded as synced, by what is persisted now.
Claims ==
  {c \in Commits :
     \/ c = pointer
     \/ \E r \in Lockers : c = base[r] \/ (Recording(r) /\ c = target[r])}

\* The work tree holds at least what each commit brought, and nobody knows of
\* a commit before it is there.
TreeCurrent ==
  /\ \A n \in 1 .. MaxCommits : \A f \in touched[n] : n <= head /\ tree[f] >= n
  /\ \A f \in Files : store[f] <= tree[f] /\ tree[f] <= head
  /\ pointer \in 0 .. head
  /\ \A r \in Lockers : base[r] \in 0 .. head /\ target[r] \in 0 .. head

ClaimsCovered == \A c \in Claims : Covered(c)

\* What a run has parsed is no older than the index, is all that the claims and its
\* own target speak of, and it will persist every file that changed between its base
\* and its target.
ParsedNewer ==
  \A r \in Lockers : pc[r] = "persist" =>
    /\ \A f \in Files : store[f] <= parsed[r][f] /\ parsed[r][f] <= tree[f]
    /\ \A c \in Claims \cup {target[r]} : \A n \in 1 .. c : \A f \in touched[n] : parsed[r][f] >= n
    /\ \A n \in 1 .. target[r] : \A f \in touched[n] : n > base[r] => f \in scope[r]

CovInv == TreeCurrent /\ ClaimsCovered /\ ParsedNewer

\* A commit leaves every past commit as covered as it was.
LEMMA CovCommit ==
  ASSUME IInv, CovInv, NEW changed \in SUBSET Files, Commit(changed)
  PROVE  CovInv'
<1> USE SyncAssumption DEF IInv, TypeOK, Commits, CovInv
<1>1. /\ head' = head + 1 /\ head + 1 \in 1 .. MaxCommits
      /\ touched' = [touched EXCEPT ![head + 1] = changed]
      /\ tree' = [f \in Files |-> IF f \in changed THEN head + 1 ELSE tree[f]]
      /\ UNCHANGED <<store, behind, pointer, pc, base, target, parsed, scope>>
  BY DEF Commit, disk, run
<1>2. /\ head \in Commits /\ tree \in [Files -> Commits] /\ store \in [Files -> Commits]
      /\ touched \in [1 .. MaxCommits -> SUBSET Files]
      /\ parsed \in [Runs -> [Files -> Commits]]
      /\ \A f \in Files : tree[f] <= tree'[f] /\ tree'[f] <= head'
      /\ \A n \in 1 .. head : touched'[n] = touched[n]
  BY <1>1 DEF TreeCurrent
<1>3. TreeCurrent'
  <2>1. \A n \in 1 .. MaxCommits : \A f \in touched'[n] : n <= head' /\ tree'[f] >= n
    <3> SUFFICES ASSUME NEW n \in 1 .. MaxCommits, NEW f \in touched'[n]
                 PROVE  n <= head' /\ tree'[f] >= n
      OBVIOUS
    <3>1. CASE n = head + 1
      BY <1>1, <3>1
    <3>2. CASE n # head + 1
      BY <1>1, <1>2, <3>2 DEF TreeCurrent
    <3> QED BY <3>1, <3>2
  <2>2. \A f \in Files : store'[f] <= tree'[f] /\ tree'[f] <= head'
    BY <1>1, <1>2 DEF TreeCurrent
  <2>3. pointer' \in 0 .. head' /\ \A r \in Lockers : base'[r] \in 0 .. head' /\ target'[r] \in 0 .. head'
    BY <1>1 DEF TreeCurrent
  <2> QED BY <2>1, <2>2, <2>3 DEF TreeCurrent
<1>4. Claims' = Claims /\ Claims \subseteq 0 .. head
  BY <1>1 DEF Claims, Recording, TreeCurrent
<1>5. ClaimsCovered'
  BY <1>1, <1>2, <1>4 DEF ClaimsCovered, Covered
<1>6. ParsedNewer'
  <2> SUFFICES ASSUME NEW r \in Lockers, pc[r] = "persist"
               PROVE  /\ \A f \in Files : store[f] <= parsed[r][f] /\ parsed[r][f] <= tree'[f]
                      /\ \A c \in Claims \cup {target[r]} : \A n \in 1 .. c : \A f \in touched'[n] :
                           parsed[r][f] >= n
                      /\ \A n \in 1 .. target[r] : \A f \in touched'[n] :
                           n > base[r] => f \in scope[r]
    BY <1>1, <1>4 DEF ParsedNewer
  <2>1. \A f \in Files : store[f] <= parsed[r][f] /\ parsed[r][f] <= tree[f]
    BY DEF ParsedNewer
  <2>2. \A f \in Files : parsed[r][f] <= tree'[f]
    BY <1>1, <1>2, <2>1 DEF Runs
  <2>3. target[r] \in 0 .. head
    BY DEF TreeCurrent
  <2>4. \A c \in Claims \cup {target[r]} : \A n \in 1 .. c : touched'[n] = touched[n]
    <3>1. head \in Nat
      BY <1>2
    <3>2. Claims \cup {target[r]} \subseteq 0 .. head
      BY ONLY <1>4, <2>3
    <3>3. \A n \in 1 .. head : touched'[n] = touched[n]
      BY <1>2
    <3> QED BY ONLY <3>1, <3>2, <3>3
  <2>5. /\ \A c \in Claims \cup {target[r]} : \A n \in 1 .. c : \A f \in touched[n] : parsed[r][f] >= n
        /\ \A n \in 1 .. target[r] : \A f \in touched[n] : n > base[r] => f \in scope[r]
    BY DEF ParsedNewer
  <2>6. \A c \in Claims \cup {target[r]} : \A n \in 1 .. c : \A f \in touched'[n] : parsed[r][f] >= n
    BY ONLY <2>4, <2>5
  <2>7. \A n \in 1 .. target[r] : \A f \in touched'[n] : n > base[r] => f \in scope[r]
    BY ONLY <2>4, <2>5
  <2> QED BY <2>1, <2>2, <2>6, <2>7
<1> QED BY <1>3, <1>5, <1>6

\* While one update persists, no other does.
LEMMA PersistsAlone ==
  ASSUME IInv, MutualExclusion, NEW r \in Lockers, pc[r] = "persist",
         NEW stage \in Stage \ {"persist"}, Goto(r, stage)
  PROVE  \A s \in Lockers : pc'[s] # "persist"
<1> USE SyncAssumption
<1>1. \A s \in Lockers : pc[s] = "persist" => Inside(s)
  BY DEF IInv, UpdatesHaveWork, Inside, Lockers, Working
<1>2. \A s \in Lockers : pc[s] = "persist" => s = r
  BY <1>1 DEF MutualExclusion
<1> QED BY <1>2 DEF Goto, IInv, TypeOK, Runs

\* Nobody but the holder of the lock persists, and it has parsed nothing older
\* than the index.
LEMMA PersistNewer ==
  ASSUME IInv, CovInv, NEW r \in Lockers, Persist(r)
  PROVE  \A f \in Files : store[f] <= store'[f] /\ store'[f] <= tree[f]
<1>1. r \in Runs /\ pc[r] = "persist"
  BY DEF Persist, Runs
<1> QED BY <1>1, SyncAssumption
        DEF Persist, CovInv, ParsedNewer, TreeCurrent, IInv, TypeOK, Commits

\* What the run has just persisted covers the claims, and its target: up to its base
\* the index was covered before, and the rest was in its scope.
LEMMA CovPersist ==
  ASSUME IInv, MutualExclusion, CovInv, NEW r \in Lockers,
         Persist(r) \/ PersistsPartly(r)
  PROVE  CovInv'
<1> USE SyncAssumption
<1>1. /\ r \in Runs /\ pc[r] = "persist"
      /\ UNCHANGED <<head, touched, tree, pointer, base, target, parsed, scope>>
      /\ Goto(r, Persisted(r)) /\ Persisted(r) \in Stage \ {"persist"}
  BY DEF Persist, PersistsPartly, Persisted, git, run, Runs, Stage, Working
<1>2. /\ \A s \in Lockers : pc'[s] # "persist"
      /\ \A s \in Lockers \ {r} : pc'[s] = pc[s]
  BY <1>1, PersistsAlone DEF Goto, IInv, TypeOK, Runs
<1>3. /\ store \in [Files -> Commits] /\ touched \in [1 .. MaxCommits -> SUBSET Files]
      /\ target[r] \in 0 .. head /\ base[r] \in 0 .. head /\ head \in Commits
  BY <1>1 DEF IInv, TypeOK, CovInv, TreeCurrent
<1>4. \A f \in Files \ behind' :
        IF f \in scope[r] THEN store'[f] = parsed[r][f] ELSE f \notin behind /\ store'[f] = store[f]
  BY <1>3 DEF Persist, PersistsPartly
<1>5. \A c \in Claims : Covered(c)'
  <2> SUFFICES ASSUME NEW c \in Claims, NEW n \in 1 .. c, NEW f \in touched[n] \ behind'
               PROVE  store'[f] >= n
    BY <1>1 DEF Covered
  <2>1. f \in Files
    BY <1>3 DEF Claims, Commits
  <2>2. CASE f \in scope[r]
    BY <1>1, <1>4, <2>1, <2>2 DEF CovInv, ParsedNewer
  <2>3. CASE f \notin scope[r]
    BY <1>4, <2>1, <2>3 DEF CovInv, ClaimsCovered, Covered
  <2> QED BY <2>2, <2>3
<1>6. Covered(target[r])'
  <2> SUFFICES ASSUME NEW n \in 1 .. target[r], NEW f \in touched[n] \ behind'
               PROVE  store'[f] >= n
    BY <1>1 DEF Covered
  <2>1. f \in Files
    BY <1>3 DEF Commits
  <2>2. CASE f \in scope[r]
    BY <1>1, <1>4, <2>1, <2>2 DEF CovInv, ParsedNewer
  <2>3. CASE f \notin scope[r]
    <3>1. n \in 1 .. base[r]
      BY <1>1, <1>3, <2>3 DEF CovInv, ParsedNewer, Commits
    <3>2. base[r] \in Claims
      BY <1>1, <1>3 DEF Claims, Commits
    <3> QED BY <1>4, <2>1, <2>3, <3>1, <3>2 DEF CovInv, ClaimsCovered, Covered
  <2> QED BY <2>2, <2>3
<1>7. Claims' \subseteq Claims \cup {target[r]}
  BY <1>1, <1>2 DEF Claims, Recording
<1>8. \A f \in Files : store'[f] <= tree[f]
  BY <1>3, PersistNewer DEF PersistsPartly, CovInv, TreeCurrent
<1>9. TreeCurrent'
  BY <1>1, <1>8 DEF CovInv, TreeCurrent
<1>10. ClaimsCovered'
  BY <1>1, <1>5, <1>6, <1>7 DEF ClaimsCovered, Covered
<1>11. ParsedNewer'
  BY <1>2 DEF ParsedNewer
<1> QED BY <1>9, <1>10, <1>11 DEF CovInv

\* A step that changes nothing of the index: the run's base and target are
\* bounded by HEAD, its base is claimed already, and it comes to "persist", "unlock"
\* or "save" only with what those stages ask for.
LEMMA CovOther ==
  ASSUME IInv, CovInv, NEW r \in Lockers, NEW stage \in Stage, Goto(r, stage),
         UNCHANGED <<head, touched, tree, store, behind>>,
         pointer' = pointer \/ (pc[r] = "save" /\ pointer' = target[r]),
         \A s \in Lockers \ {r} :
           /\ base'[s] = base[s] /\ target'[s] = target[s]
           /\ parsed'[s] = parsed[s] /\ scope'[s] = scope[s],
         base'[r] \in {base[r], pointer}, target'[r] \in {target[r], head},
         stage # "persist",
         stage = "save" \/ (r \in Workspaces /\ stage = "unlock")
           => target'[r] = target[r] /\ Recording(r)
  PROVE  CovInv'
<1> USE SyncAssumption DEF CovInv
<1>1. head \in Commits /\ \A s \in Lockers : pc'[s] = IF s = r THEN stage ELSE pc[s]
  BY DEF IInv, TypeOK, Goto, Runs
<1>2. TreeCurrent'
  BY <1>1 DEF TreeCurrent, Commits
<1>3. Claims' \subseteq Claims
  BY <1>1 DEF Claims, Recording
<1>4. ClaimsCovered'
  BY <1>3 DEF ClaimsCovered, Covered
<1>5. ParsedNewer'
  BY <1>1, <1>3 DEF ParsedNewer
<1> QED BY <1>2, <1>4, <1>5

\* Parsing: the tree is no older than the index and holds all up to HEAD.
LEMMA CovParse ==
  ASSUME IInv, CovInv, NEW r \in Lockers, Parse(r)
  PROVE  CovInv'
<1> USE SyncAssumption DEF CovInv
<1>1. /\ head \in Commits /\ target[r] \in 0 .. head /\ base[r] \in 0 .. head
      /\ touched \in [1 .. MaxCommits -> SUBSET Files]
      /\ r \in Runs /\ tree \in [Files -> Commits] /\ Unreadable \notin Commits
  BY DEF IInv, TypeOK, TreeCurrent, Runs, Commits
<1>2. /\ UNCHANGED <<head, touched, tree, store, behind, pointer, base, target>>
      /\ parsed' = [parsed EXCEPT ![r] = tree]
      /\ Goto(r, "persist")
  BY DEF Parse, disk, git
<1>3. \A to \in {target[r], head} :
        \A n \in 1 .. to : \A f \in touched[n] : n > base[r] => f \in Changed(base[r], to)
  BY <1>1 DEF Changed, Commits
<1>4. \A s \in Lockers \ {r} : pc'[s] = pc[s] /\ scope'[s] = scope[s] /\ parsed'[s] = parsed[s]
  BY DEF Parse, Goto, IInv, TypeOK, Runs
<1>5. parsed'[r] = tree /\ pc'[r] = "persist" /\ scope'[r] \in Scopes(r)
  BY <1>1 DEF Parse, Goto, IInv, TypeOK
<1>6. \A n \in 1 .. target[r] : \A f \in touched[n] : n > base[r] => f \in scope'[r]
  <2> SUFFICES ASSUME NEW n \in 1 .. target[r], NEW f \in touched[n], n > base[r]
               PROVE  f \in scope'[r]
    OBVIOUS
  <2>1. f \in Files /\ f \in Changed(base[r], target[r]) /\ f \in Changed(base[r], head)
    BY <1>1, <1>3 DEF Commits
  <2> QED BY <1>5, <2>1 DEF Scopes
<1>7. Claims' \subseteq Claims /\ Claims \subseteq 0 .. head
  BY <1>2, <1>4, <1>5 DEF Claims, Recording, TreeCurrent
<1>8. ParsedNewer'
  <2> SUFFICES ASSUME NEW s \in Lockers, pc'[s] = "persist"
               PROVE  /\ \A f \in Files : store[f] <= parsed'[s][f] /\ parsed'[s][f] <= tree[f]
                      /\ \A c \in Claims \cup {target[s]} : \A n \in 1 .. c : \A f \in touched[n] :
                           parsed'[s][f] >= n
                      /\ \A n \in 1 .. target[s] : \A f \in touched[n] :
                           n > base[s] => f \in scope'[s]
    BY <1>2, <1>7 DEF ParsedNewer
  <2>1. CASE s # r
    BY <1>4, <2>1 DEF ParsedNewer
  <2>2. CASE s = r
    <3>1. \A f \in Files : store[f] <= tree[f] /\ tree[f] <= tree[f]
      BY <1>1 DEF TreeCurrent, Commits
    <3>2. \A c \in 0 .. head : \A n \in 1 .. c : \A f \in touched[n] : tree[f] >= n
      BY <1>1 DEF TreeCurrent, Commits
    <3>3. Claims \cup {target[r]} \subseteq 0 .. head
      BY <1>1, <1>7
    <3> QED BY <1>5, <1>6, <2>2, <3>1, <3>2, <3>3
  <2> QED BY <2>1, <2>2
<1>9. TreeCurrent' /\ ClaimsCovered'
  BY <1>2, <1>7 DEF TreeCurrent, ClaimsCovered, Covered
<1> QED BY <1>8, <1>9

\* The pointer is one of the claims.
LEMMA PointerClaimed == ASSUME IInv, CovInv PROVE Covered(pointer)
  BY SyncAssumption DEF IInv, TypeOK, Commits, CovInv, TreeCurrent, ClaimsCovered, Claims

\* Every step of a locker keeps the invariant.
LEMMA CovRunStep ==
  ASSUME IInv, MutualExclusion, CovInv, NEW r \in Lockers,
         \/ LoadState(r) \/ StartJob(r) \/ Fails(r) \/ Crash(r) \/ RunStep(r)
  PROVE  CovInv'
<1> USE SyncAssumption
<1>0. r \in Runs /\ Lockers \subseteq Runs /\ r \notin Jobs
  BY DEF Runs
<1>1. CASE LoadState(r)
  BY <1>0, <1>1, CovOther DEF LoadState, git, disk, Goto, IInv, TypeOK, Stage
<1>2. CASE ReadHead(r)
  BY <1>0, <1>2, CovOther DEF ReadHead, git, disk, Goto, IInv, TypeOK, Stage, Locking, Working
<1>3. CASE Link(r) \/ Probe(r) \/ ClearStale(r) \/ Recheck(r) \/ Defer(r)
  BY <1>0, <1>3, CovOther DEF Link, Probe, ClearStale, Recheck, Defer, Acquired, git, disk,
     run, Stage, Locking, Working
<1>4. CASE Rebase(r)
  BY <1>0, <1>4, CovOther DEF Rebase, git, disk, Goto, IInv, TypeOK, Stage, Working
<1>5. CASE Fails(r) \/ Save(r) \/ ConsumePending(r) \/ Crash(r)
  BY <1>0, <1>5, CovOther DEF Fails, Save, ConsumePending, Crash, git, disk,
     run, Stage, Working
<1>6. CASE Release(r)
  BY <1>0, <1>6, CovOther DEF Release, Recording, git, run, Stage, Working
<1>7. ~ (StartJob(r) \/ StampHead(r) \/ Truncate(r) \/ WriteState(r))
  BY <1>0 DEF IInv, JobStages, StartJob, StampHead, Truncate, WriteState
<1> QED BY <1>1, <1>2, <1>3, <1>4, <1>5, <1>6, <1>7, CovPersist, CovParse DEF RunStep

\* So does every step that leaves the jobs alone.
LEMMA CovStep ==
  ASSUME IInv, MutualExclusion, CovInv, Quiet, Quiet', [Next]_vars
  PROVE  CovInv'
<1>1. CASE UNCHANGED vars
  BY <1>1 DEF vars, CovInv, TreeCurrent, ClaimsCovered, Claims, Recording, ParsedNewer, Covered
<1>2. CASE Next
  BY <1>2, QuietStep, CovCommit, CovRunStep DEF Next, RunStep
<1> QED BY <1>1, <1>2

\* `repowise init` indexed commit 0, and there is no later one to cover.
LEMMA CovInit == Init => CovInv
  BY SyncAssumption DEF Init, CovInv, TreeCurrent, ClaimsCovered, Claims, Recording,
     ParsedNewer, Covered, Commits, Runs, Lockers

\* Whatever keeps the updates apart, the index is kept right by them.
LEMMA CovInvariance ==
  ASSUME Jobs = {} PROVE Spec /\ []MutualExclusion => [](IInv /\ CovInv)
<1>1. IInv /\ MutualExclusion /\ CovInv /\ [Next]_vars => CovInv'
  BY CovStep DEF Quiet
<1> QED BY <1>1, CovInit, Invariance, PTL DEF Spec

\* The lock does, until it is breached.
KeptInv == IInv /\ ExclusiveUnlessBreached /\ (Undisturbed => CovInv)

LEMMA KeptInvariance == Spec => []KeptInv
<1>1. KeptInv /\ ExclusiveUnlessBreached' /\ [Next]_vars => KeptInv'
  <2> SUFFICES ASSUME KeptInv, ExclusiveUnlessBreached', [Next]_vars
               PROVE  KeptInv'
    OBVIOUS
  <2>1. ASSUME Undisturbed' PROVE CovInv'
    <3>1. Undisturbed
      BY <2>1, DisturbedStays DEF KeptInv
    <3>2. MutualExclusion /\ CovInv /\ Quiet /\ Quiet'
      BY <2>1, <3>1 DEF KeptInv, ExclusiveUnlessBreached, Undisturbed, Quiet
    <3> QED BY <3>2, CovStep DEF KeptInv
  <2> QED BY <2>1, InvStep DEF KeptInv
<1>2. Init /\ ExclusiveUnlessBreached => KeptInv
  BY InvInit, CovInit DEF KeptInv
<1> QED BY <1>1, <1>2, LockExcludes, PTL DEF Spec

-----------------------------------------------------------------------------
(* The refinement of SyncedIndex, under the same conditions.                 *)

\* Whatever version of a file is indexed, parsed or in the tree, a commit brought it.
VersionsExist ==
  \A f \in Files :
    /\ {store[f], tree[f]} \subseteq Synced!Versions(f)
    /\ \A r \in Runs : parsed[r][f] \in Synced!Versions(f)

LEMMA VersionsStep ==
  ASSUME IInv, VersionsExist, [Next]_vars
  PROVE  VersionsExist'
<1> USE SyncAssumption DEF IInv, TypeOK, Commits
<1>1. ASSUME NEW changed \in SUBSET Files, Commit(changed)
      PROVE  VersionsExist'
  <2>1. /\ head' = head + 1 /\ head + 1 \in 1 .. MaxCommits
        /\ touched' = [touched EXCEPT ![head + 1] = changed]
        /\ tree' = [f \in Files |-> IF f \in changed THEN head + 1 ELSE tree[f]]
        /\ UNCHANGED <<store, parsed>>
    BY <1>1 DEF Commit, disk, run
  <2>2. /\ head \in Nat
        /\ \A n \in 1 .. head : touched'[n] = touched[n]
        /\ touched'[head + 1] = changed
    BY <2>1
  <2>3. \A f \in Files : Synced!Versions(f) \subseteq Synced!Versions(f)'
    BY <2>1, <2>2 DEF Synced!Versions
  <2>4. \A f \in changed : head + 1 \in Synced!Versions(f)'
    BY <2>1, <2>2 DEF Synced!Versions
  <2> QED BY <2>1, <2>3, <2>4 DEF VersionsExist
<1>2. ASSUME NEW r \in Runs, Parse(r)
      PROVE  VersionsExist'
  <2>1. parsed' = [parsed EXCEPT ![r] = tree] /\ UNCHANGED <<head, touched, tree, store>>
    BY <1>2 DEF Parse, git, disk
  <2> QED BY <2>1 DEF VersionsExist, Synced!Versions
<1>3. ASSUME NEW r \in Runs, Persist(r)
      PROVE  VersionsExist'
  <2>1. /\ store' = [f \in Files |-> IF f \in scope[r] THEN parsed[r][f] ELSE store[f]]
        /\ UNCHANGED <<head, touched, tree, parsed>>
    BY <1>3 DEF Persist, git, run
  <2> QED BY <2>1 DEF VersionsExist, Synced!Versions
<1>4. ASSUME UNCHANGED <<head, touched, tree, store, parsed>>
      PROVE  VersionsExist'
  BY <1>4 DEF VersionsExist, Synced!Versions
<1>5. ASSUME NEW r \in Runs,
             \/ LoadState(r) \/ StartJob(r) \/ Fails(r) \/ Crash(r) \/ ReadHead(r) \/ Link(r)
             \/ Probe(r) \/ ClearStale(r) \/ Recheck(r) \/ Defer(r) \/ Rebase(r) \/ Save(r)
             \/ ConsumePending(r) \/ Release(r) \/ StampHead(r) \/ Truncate(r) \/ WriteState(r)
             \/ PersistsPartly(r) \/ UNCHANGED vars
      PROVE  UNCHANGED <<head, touched, tree, store, parsed>>
  BY <1>5 DEF LoadState, StartJob, Fails, Crash, ReadHead, Link, Probe, ClearStale, Recheck,
     Defer, Rebase, Save, ConsumePending, Release, StampHead, Truncate, WriteState, PersistsPartly,
     git, disk, run, vars
<1>6. CASE UNCHANGED vars
  BY <1>4, <1>6 DEF vars
<1> QED BY <1>1, <1>2, <1>3, <1>4, <1>5, <1>6 DEF Next

\* A step of a run or of the history is a step of the abstract index, or none.
LEMMA SyncedStep ==
  ASSUME IInv, MutualExclusion, CovInv, VersionsExist, VersionsExist', Quiet, Quiet', [Next]_vars
  PROVE  [Synced!Next]_<<head, touched, store, behind, pointer>>
<1> USE SyncAssumption DEF IInv, TypeOK, Commits
<1>1. ASSUME NEW changed \in SUBSET Files, Commit(changed)
      PROVE  Synced!Commit
  <2>1. /\ head' = head + 1 /\ head + 1 \in 1 .. MaxCommits /\ changed # {}
        /\ touched' = [touched EXCEPT ![head + 1] = changed]
        /\ UNCHANGED <<store, behind, pointer>>
    BY <1>1 DEF Commit, disk
  <2>2. \A n \in 1 .. head : touched'[n] = touched[n]
    BY <2>1
  <2>3. touched'[head + 1] = changed
    BY <2>1
  <2>4. touched'[head + 1] \in (SUBSET Files) \ {{}}
    BY <1>1, <2>1, <2>3
  <2> QED BY <2>1, <2>2, <2>4 DEF Synced!Commit
<1>2. ASSUME NEW r \in Lockers, Persist(r) \/ PersistsPartly(r)
      PROVE  Synced!Refresh
  <2>1. /\ \A f \in Files : store[f] <= store'[f] /\ store'[f] <= tree[f] /\ tree[f] <= head
        /\ UNCHANGED <<head, touched, pointer>>
    <3>1. CASE Persist(r)
      BY <3>1, PersistNewer DEF Persist, git, CovInv, TreeCurrent
    <3>2. CASE PersistsPartly(r)
      BY <3>2 DEF PersistsPartly, git, CovInv, TreeCurrent
    <3> QED BY <1>2, <3>1, <3>2
  <2>2. /\ store' \in [Files -> Commits] /\ store \in [Files -> Commits] /\ head \in Commits
        /\ behind' \subseteq Files
    BY <1>2, InvStep
  <2>3. store' \in [Files -> 0 .. head]
    BY <2>1, <2>2
  <2>4. \A f \in Files : store'[f] \in Synced!Versions(f)
    BY <2>1 DEF VersionsExist, Synced!Versions
  <2>5. Covered(pointer)'
    <3>1. TreeCurrent' /\ ClaimsCovered'
      BY <1>2, CovPersist DEF CovInv
    <3>2. pointer' \in Commits
      BY <2>1, <2>2, <3>1 DEF TreeCurrent
    <3> QED BY <3>1, <3>2 DEF ClaimsCovered, Claims
  <2>6. Synced!Covers(pointer)'
    BY <2>5 DEF Synced!Covers, Covered
  <2> QED BY <2>1, <2>2, <2>3, <2>4, <2>6 DEF Synced!Refresh
<1>3. ASSUME NEW r \in Lockers, Save(r)
      PROVE  Synced!Record
  <2>1. pc[r] = "save"
    BY <1>3 DEF Save
  <2>2. target[r] \in 0 .. head /\ Covered(target[r])
    BY <2>1 DEF CovInv, TreeCurrent, ClaimsCovered, Claims, Recording
  <2>3. pointer' = target[r] /\ UNCHANGED <<head, touched, store, behind>>
    BY <1>3 DEF Save, git
  <2> QED BY <2>2, <2>3 DEF Synced!Record, Synced!Covers, Covered
<1>4. ASSUME NEW r \in Lockers
      PROVE  ~ (StartJob(r) \/ StampHead(r) \/ Truncate(r) \/ WriteState(r))
  BY DEF JobStages, StartJob, StampHead, Truncate, WriteState, Runs
<1>5. ASSUME NEW r \in Runs,
             \/ LoadState(r) \/ Fails(r) \/ Crash(r) \/ ReadHead(r) \/ Link(r) \/ Probe(r)
             \/ ClearStale(r) \/ Recheck(r) \/ Defer(r) \/ Rebase(r) \/ Parse(r)
             \/ ConsumePending(r) \/ Release(r)
      PROVE  UNCHANGED <<head, touched, store, behind, pointer>>
  BY <1>5 DEF LoadState, Fails, Crash, ReadHead, Link, Probe, ClearStale, Recheck, Defer,
     Rebase, Parse, ConsumePending, Release, git, disk
<1>6. CASE UNCHANGED vars
  BY <1>6 DEF vars
<1>7. ASSUME NEW r \in Runs,
             \/ LoadState(r) \/ StartJob(r) \/ Fails(r) \/ Crash(r) \/ RunStep(r)
      PROVE  r \in Lockers
  BY <1>7, QuietStep
<1> QED BY <1>1, <1>2, <1>3, <1>4, <1>5, <1>6, <1>7 DEF Next, RunStep, Synced!Next

\* What the lock is for: as long as it keeps the updates of a repository apart, however
\* many there are, however long they take and whoever of them is killed, the sync
\* pointer claims no more than the index holds, and every step indexes newer versions,
\* records a commit that the index covers, or changes neither.
THEOREM ExclusionSuffices ==
  ASSUME Jobs = {}
  PROVE  Spec /\ []MutualExclusion => []Covered(pointer) /\ Synced!Spec
<1>1. Init => VersionsExist /\ Synced!Init
  BY DEF Init, VersionsExist, Synced!Init, Synced!Versions
<1>2. IInv /\ VersionsExist /\ [Next]_vars => VersionsExist'
  BY VersionsStep
<1>3. IInv /\ MutualExclusion /\ CovInv /\ VersionsExist /\ VersionsExist' /\ [Next]_vars
        => [Synced!Next]_<<head, touched, store, behind, pointer>>
  BY SyncedStep DEF Quiet
<1>4. IInv /\ CovInv => Covered(pointer)
  BY PointerClaimed
<1> QED BY <1>1, <1>2, <1>3, <1>4, CovInvariance, PTL DEF Spec, Synced!Spec

\* With the lock as it is: the sync pointer never claims more than the index holds, for
\* any history, any files, any number of updates and any number of kills, until the lock
\* is breached or a server job writes beside them.
THEOREM PointerSafe == Spec => []PointerCovered
<1>1. KeptInv => PointerCovered
  BY PointerClaimed DEF KeptInv, PointerCovered
<1> QED BY <1>1, KeptInvariance, PTL

\* Under the same conditions the index only ever moves forward along the history, as
\* SyncedIndex promises whoever reads it.
THEOREM Refinement == Spec => IndexFollowsHistory
<1>1. Init => VersionsExist /\ Synced!Init
  BY DEF Init, VersionsExist, Synced!Init, Synced!Versions
<1>2. IInv /\ VersionsExist /\ [Next]_vars => VersionsExist'
  BY VersionsStep
<1>3. KeptInv /\ VersionsExist /\ VersionsExist' /\ [Next]_vars
        => [Undisturbed' => Synced!Next]_<<head, touched, store, behind, pointer>>
  <2> SUFFICES ASSUME KeptInv, VersionsExist, VersionsExist', [Next]_vars, Undisturbed'
               PROVE  [Synced!Next]_<<head, touched, store, behind, pointer>>
    OBVIOUS
  <2>1. Undisturbed
    BY DisturbedStays DEF KeptInv
  <2>2. MutualExclusion /\ CovInv /\ Quiet /\ Quiet'
    BY <2>1 DEF KeptInv, ExclusiveUnlessBreached, Undisturbed, Quiet
  <2> QED BY <2>2, SyncedStep DEF KeptInv
<1>4. KeptInv => IInv
  BY DEF KeptInv
<1> QED BY <1>1, <1>2, <1>3, <1>4, KeptInvariance, PTL DEF Spec, IndexFollowsHistory

\* Two updates, then, of which neither outlives the stale ceiling, with no jobs: the
\* index follows the history however they interleave, fail and are killed.
THEOREM TwoFollow ==
  ASSUME TwoLockers, ~ SlowRuns, Jobs = {} PROVE Spec => Synced!Spec
<1>1. KeptInv /\ ~ breached => MutualExclusion
  BY DEF KeptInv, ExclusiveUnlessBreached
<1> QED BY <1>1, TwoNeverBreach, KeptInvariance, ExclusionSuffices, PTL
=============================================================================
