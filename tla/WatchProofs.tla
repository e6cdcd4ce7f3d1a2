---------------------------- MODULE WatchProofs ----------------------------
(***************************************************************************)
(* The watcher forgets no change, and runs no two updates at once as long   *)
(* as none of the lock's openings is used, for every number of commits,     *)
(* events and failures.                                                     *)
(***************************************************************************)
EXTENDS Watch, TLAPS

-----------------------------------------------------------------------------
(* The invariant.                                                            *)

\* Timers are used in order.
TimersInv == running => \A t \in Timers : t > events => pc[t] = "unused"

\* An event is delivered after the commit it is about.
EventInv == delivered <= head

\* Whoever is inside holds the lock, and whoever is about to unlink a stale lock finds
\* nobody at work: between look and unlink a lock can only have gone.
Guarded ==
  running /\ ~ breached =>
    /\ \A a \in Actors : Inside(a) => lock = Owner(a)
    /\ \A a, b \in Actors : Inside(a) /\ Inside(b) => a = b
    /\ \A a, b \in Actors : pc[a] = "clear" => ~ Inside(b)

Inv ==
  /\ TypeOK
  /\ TimersInv
  /\ EventInv
  /\ Guarded
  /\ NothingForgotten
  /\ LockReleased

-----------------------------------------------------------------------------
LEMMA ZeroInRange == 0 \in Commits /\ 0 \in 0 .. MaxEvents /\ 0 \in 0 .. MaxFailures
BY WatchAssumption DEF Commits

LEMMA InitInv == Init => Inv
<1> SUFFICES ASSUME Init
             PROVE  Inv
  OBVIOUS
<1>1. TypeOK
  <2>1. running \in BOOLEAN /\ changed \in BOOLEAN
    BY DEF Init
  <2>2. aged \in BOOLEAN /\ breached \in BOOLEAN /\ armed \in BOOLEAN /\ ~ armed
    BY DEF Init
  <2> QED BY ZeroInRange, <2>1, <2>2 DEF Init, TypeOK, Stage
<1>2. TimersInv /\ EventInv
  BY DEF Init, TimersInv, EventInv, Actors
<1>3. Guarded
  BY DEF Init, Guarded, Inside
<1>4. LockReleased /\ NothingForgotten
  BY DEF Init, LockReleased, NothingForgotten
<1> QED BY <1>1, <1>2, <1>3, <1>4 DEF Inv

LEMMA ConsumedCommit ==
  ASSUME TypeOK, NEW commit
  PROVE  Consumed(commit) \in Commits
BY WatchAssumption DEF TypeOK, Consumed, Commits

\* Only the update command arms atexit.
LEMMA EnterArms ==
  ASSUME TypeOK, NEW a \in Actors, Enter(a), mode' = mode
  PROVE  armed' \in BOOLEAN /\ (armed' => mode' = "single")
<1>1. armed' = (armed \/ (a # Hook /\ mode = "single"))
  BY DEF Enter
<1>2. armed' \in BOOLEAN
  BY <1>1
<1>3. armed' => mode = "single"
  BY <1>1 DEF TypeOK
<1> QED BY <1>2, <1>3

\* The steps of the lock's system calls.
LEMMA LockTypes ==
  ASSUME TypeOK, NEW a \in Actors, LockStep(a)
  PROVE  TypeOK'
<1> USE DEF TypeOK, Goto, Stage, watcher, git, handler, file, locking, synced
<1>1. CASE Link(a)
  <2>1. /\ lock' \in {"none", "watch", "hook"}
        /\ pc' \in [Actors -> Stage]
    BY <1>1 DEF Link, Enter, Owner
  <2>2. armed' \in BOOLEAN /\ (armed' => mode' = "single")
    <3>1. mode' = mode
      BY <1>1 DEF Link
    <3>2. Enter(a) \/ UNCHANGED armed
      BY <1>1 DEF Link
    <3> QED BY ONLY <3>1, <3>2, TypeOK, a \in Actors, EnterArms DEF TypeOK
  <2>3. breached' \in BOOLEAN
    BY <1>1 DEF Link
  <2> QED BY <1>1, <2>1, <2>2, <2>3 DEF Link
<1>2. CASE Probe(a)
  <2>1. pc' \in [Actors -> Stage]
    BY <1>2 DEF Probe
  <2>2. breached' \in BOOLEAN
    BY <1>2 DEF Probe
  <2> QED BY <1>2, <2>1, <2>2 DEF Probe
<1>3. CASE ClearStale(a)
  <2>1. /\ pc' \in [Actors -> Stage] /\ tries' \in [Actors -> 1 .. 2]
        /\ lock' = "none" /\ aged' = FALSE
    BY <1>3 DEF ClearStale, Unlinked
  <2> QED BY <1>3, <2>1 DEF ClearStale
<1>4. CASE Recheck(a)
  <2>1. pc' \in [Actors -> Stage]
    BY <1>4 DEF Recheck, Enter
  <2>2. armed' \in BOOLEAN /\ (armed' => mode' = "single")
    <3>1. mode' = mode
      BY <1>4 DEF Recheck
    <3>2. Enter(a) \/ UNCHANGED armed
      BY <1>4 DEF Recheck
    <3> QED BY ONLY <3>1, <3>2, TypeOK, a \in Actors, EnterArms DEF TypeOK
  <2>3. breached' \in BOOLEAN
    BY <1>4 DEF Recheck
  <2> QED BY <1>4, <2>1, <2>2, <2>3 DEF Recheck
<1>5. CASE Defer(a)
  BY <1>5 DEF Defer
<1> QED BY <1>1, <1>2, <1>3, <1>4, <1>5 DEF LockStep

LEMMA TypeStep ==
  ASSUME TypeOK, [Next]_vars
  PROVE  TypeOK'
<1> USE WatchAssumption DEF TypeOK, watcher, git, handler, file, locking, synced
<1>h. Hook \in Actors /\ Timers \subseteq Actors
  BY DEF Actors
<1>0. CASE UNCHANGED vars
  BY <1>0 DEF vars
<1>1. CASE Commit
  BY <1>1 DEF Commit, Commits
<1>2. CASE Event
  <2>1. pc' \in [Actors -> Stage]
    BY <1>2 DEF Event, Stage
  <2> QED BY <1>2, <2>1 DEF Event
<1>3. CASE LockAges
  BY <1>3 DEF LockAges
<1>4. CASE HookStarts
  BY <1>h, <1>4 DEF HookStarts, Goto, Stage
<1>5. CASE HookEnds
  BY <1>h, <1>5, ConsumedCommit DEF HookEnds, Unlinked, Goto, Stage
<1>6. CASE Stop
  <2>1. pc' \in [Actors -> Stage]
    BY <1>6 DEF Stop, Stage
  <2> QED BY <1>6, <2>1 DEF Stop, Unlinked
<1>7. ASSUME NEW t \in Timers, Fire(t)
      PROVE  TypeOK'
  BY <1>h, <1>7 DEF Fire, Goto, Stage
<1>8. ASSUME NEW t \in Timers, Take(t)
      PROVE  TypeOK'
  BY <1>h, <1>8, ZeroInRange DEF Take, Goto, Stage
<1>9. ASSUME NEW t \in Timers, Look(t)
      PROVE  TypeOK'
  <2>1. pending' \in Commits
    BY <1>9, ConsumedCommit DEF Look
  <2>2. pc' \in [Actors -> Stage] /\ target' \in [Actors -> Commits] /\ tried' \in Commits
    BY <1>h, <1>9 DEF Look, Goto, Stage
  <2> QED BY <1>9, <2>1, <2>2 DEF Look
<1>10. ASSUME NEW t \in Timers, Finish(t)
       PROVE  TypeOK'
  BY <1>h, <1>10, ConsumedCommit DEF Finish, Goto, Stage
<1>11. ASSUME NEW t \in Timers, Release(t)
       PROVE  TypeOK'
  BY <1>h, <1>11 DEF Release, Unlinked, Goto, Stage
<1>12. ASSUME NEW t \in Timers, Save(t)
       PROVE  TypeOK'
  BY <1>h, <1>12 DEF Save, Goto, Stage
<1>13. ASSUME NEW t \in Timers, Fail(t)
       PROVE  TypeOK'
  <2>1. lock' \in {"none", "watch", "hook"} /\ aged' \in BOOLEAN
    BY <1>13 DEF Fail, Unlinked
  <2> QED BY <1>h, <1>13, <2>1 DEF Fail, Goto, Stage
<1> QED
  BY <1>0, <1>1, <1>2, <1>3, <1>4, <1>5, <1>6, <1>7, <1>8, <1>9, <1>10, <1>11, <1>12, <1>13,
     LockTypes
  DEF Next, LockStep

\* A handler only touches timers that wait or were not used yet.
LEMMA EventTouches ==
  ASSUME Inv, Event
  PROVE  /\ \A a \in Actors : a # events + 1 =>
              pc'[a] = pc[a] \/ (pc[a] = "waiting" /\ pc'[a] = "done")
         /\ events + 1 \in Timers
         /\ pc[events + 1] = "unused" /\ pc'[events + 1] = "waiting"
<1>1. events + 1 \in Timers /\ events + 1 > events
  BY WatchAssumption DEF Event, Inv, TypeOK, Timers
<1>2. pc[events + 1] = "unused"
  BY <1>1 DEF Event, Inv, TimersInv
<1> QED BY <1>1, <1>2 DEF Event, Inv, TypeOK, Actors

\* The steps of the lock's system calls move nobody but the actor, and are the business
\* neither of the handler nor of an unused timer.
LEMMA LockStepTouches ==
  ASSUME TypeOK, NEW a \in Actors, LockStep(a)
  PROVE  /\ UNCHANGED <<running, mode, events, head, delivered, tried, changed>>
         /\ pc[a] \in {"link", "probe", "clear", "recheck", "defer"}
         /\ \A b \in Actors \ {a} : pc'[b] = pc[b]
<1> USE DEF TypeOK, Goto, Enter, watcher, git, handler, LockStep
<1>1. CASE Link(a)
  BY <1>1 DEF Link
<1>2. CASE Probe(a) \/ ClearStale(a)
  BY <1>2 DEF Probe, ClearStale
<1>3. CASE Recheck(a) \/ Defer(a)
  BY <1>3 DEF Recheck, Defer
<1> QED BY <1>1, <1>2, <1>3

LEMMA OrderStep ==
  ASSUME Inv, [Next]_vars
  PROVE  TimersInv' /\ EventInv'
<1> USE WatchAssumption DEF Inv, TimersInv, EventInv, watcher
<1>h. Timers \subseteq Actors /\ Hook \in Actors /\ Hook \notin Timers
  BY DEF Actors, Hook, Timers
<1>1. CASE Event
  <2>1. ASSUME NEW t \in Timers, t > events'
        PROVE  pc'[t] = "unused"
    <3>1. t > events /\ t # events + 1
      BY <1>1, <2>1 DEF Event, TypeOK, Timers
    <3>2. pc[t] = "unused"
      BY <1>1, <3>1 DEF Event
    <3> QED BY <1>h, <1>1, <3>1, <3>2, EventTouches
  <2> QED BY <1>1, <2>1 DEF Event, TypeOK, Commits
<1>2. CASE Commit
  BY <1>2 DEF Commit, TypeOK, Commits, handler
<1>3. CASE Stop
  BY <1>3 DEF Stop, git
<1>4. CASE LockAges \/ UNCHANGED vars
  BY <1>4 DEF LockAges, vars, git, handler
<1>5. CASE HookStarts \/ HookEnds
  <2>1. /\ running' = running /\ events' = events /\ head' = head /\ delivered' = delivered
        /\ \A t \in Timers : pc'[t] = pc[t]
    BY <1>h, <1>5 DEF HookStarts, HookEnds, Goto, TypeOK, git, handler
  <2> QED BY <2>1
<1>6. ASSUME NEW t \in Timers,
             Fire(t) \/ Take(t) \/ Look(t) \/ Finish(t) \/ Release(t) \/ Save(t) \/ Fail(t)
      PROVE  TimersInv' /\ EventInv'
  <2>1. running' = running /\ events' = events /\ head' = head /\ delivered' = delivered
    BY <1>6 DEF Fire, Take, Look, Finish, Release, Save, Fail, git, handler
  <2>2. pc[t] # "unused" /\ \A u \in Timers \ {t} : pc'[u] = pc[u]
    BY <1>h, <1>6 DEF Fire, Take, Look, Finish, Release, Save, Fail, Inside, Goto, TypeOK
  <2> QED BY <2>1, <2>2
<1>7. ASSUME NEW a \in Actors, LockStep(a)
      PROVE  TimersInv' /\ EventInv'
  BY <1>h, <1>7, LockStepTouches
<1> QED BY <1>1, <1>2, <1>3, <1>4, <1>5, <1>6, <1>7 DEF Next, LockStep

LEMMA ForgottenStep ==
  ASSUME Inv, [Next]_vars
  PROVE  NothingForgotten'
<1> USE DEF Inv, NothingForgotten, Live, watcher
<1>h. Timers \subseteq Actors /\ Hook \in Actors /\ Hook \notin Timers
  BY DEF Actors, Hook, Timers
<1>1. CASE Event
  <2>1. changed' = TRUE /\ events + 1 \in Timers /\ pc'[events + 1] = "waiting"
    BY <1>1, EventTouches DEF Event
  <2> QED BY <2>1
<1>2. CASE Commit \/ LockAges \/ UNCHANGED vars
  BY <1>2 DEF Commit, LockAges, vars, git, handler
<1>3. CASE Stop
  BY <1>3 DEF Stop
<1>4. ASSUME NEW t \in Timers, Take(t)
      PROVE  NothingForgotten'
  <2>1. /\ running' = running /\ delivered' = delivered /\ tried' = tried
        /\ pc[t] = "fired" /\ pc'[t] = IF changed THEN "taken" ELSE "done"
        /\ \A u \in Timers \ {t} : pc'[u] = pc[u]
    BY <1>h, <1>4 DEF Take, Goto, TypeOK, git
  <2> QED BY <2>1
<1>5. ASSUME NEW t \in Timers, Look(t) \/ (Fail(t) /\ pc[t] = "taken")
      PROVE  NothingForgotten'
  <2>1. tried' = head /\ delivered' = delivered
    BY <1>5 DEF Look, Fail, git
  <2>2. ~ (delivered' > tried')
    BY <2>1, WatchAssumption DEF TypeOK, EventInv, Commits
  <2> QED BY <2>2
<1>6. ASSUME NEW a \in Actors,
             UNCHANGED <<running, delivered, tried, changed>>,
             \A b \in Actors \ {a} : pc'[b] = pc[b],
             pc[a] # "taken", pc[a] \in {"waiting", "fired"} => pc'[a] \in {"waiting", "fired"}
      PROVE  NothingForgotten'
  BY <1>h, <1>6
<1>7. ASSUME NEW t \in Timers,
             Fire(t) \/ Finish(t) \/ Release(t) \/ Save(t) \/ (Fail(t) /\ pc[t] # "taken")
      PROVE  NothingForgotten'
  <2>1. /\ running' = running /\ delivered' = delivered /\ tried' = tried
        /\ changed' = changed
    BY <1>7 DEF Fire, Finish, Release, Save, Fail, git, handler
  <2>2. /\ \A b \in Actors \ {t} : pc'[b] = pc[b]
        /\ pc[t] # "taken"
        /\ pc[t] \in {"waiting", "fired"} => pc'[t] \in {"waiting", "fired"}
    BY <1>h, <1>7 DEF Fire, Finish, Release, Save, Fail, Inside, Goto, TypeOK
  <2> QED BY <1>h, <1>6, <2>1, <2>2
<1>8. CASE HookStarts \/ HookEnds
  <2>1. /\ UNCHANGED <<running, delivered, tried, changed>>
        /\ \A b \in Actors \ {Hook} : pc'[b] = pc[b]
        /\ pc[Hook] \in {"unused", "inside"}
    BY <1>h, <1>8 DEF HookStarts, HookEnds, Inside, Goto, TypeOK, git, handler
  <2> QED BY <1>h, <1>6, <2>1
<1>9. ASSUME NEW a \in Actors, LockStep(a)
      PROVE  NothingForgotten'
  BY <1>6, <1>9, LockStepTouches
<1> QED BY <1>1, <1>2, <1>3, <1>4, <1>5, <1>7, <1>8, <1>9 DEF Next, LockStep

-----------------------------------------------------------------------------
(* The lock.                                                                 *)

\* The watcher's threads and the hook, from taking the lock on: whoever leaves its
\* section unlinks only its own lock, and whoever enters it found no lock there.
LEMMA GuardedLockStep ==
  ASSUME Inv, NEW a \in Actors, LockStep(a)
  PROVE  Guarded'
<1> USE DEF Inv, TypeOK, Guarded, Inside, Goto
<1>0. running' = running /\ \A b \in Actors \ {a} : pc'[b] = pc[b]
  BY LockStepTouches
<1>1. CASE Link(a)
  <2>1. CASE lock = "none"
    <3>1. /\ lock' = Owner(a) /\ pc'[a] = "inside"
          /\ ~ breached' => ~ breached /\ \A b \in Actors : pc[b] # "clear"
      BY <1>1, <2>1 DEF Link, Enter
    <3>2. running /\ ~ breached => \A b \in Actors : ~ Inside(b)
      BY <2>1 DEF Owner
    <3> QED BY <1>0, <3>1, <3>2
  <2>2. CASE lock # "none"
    <3>1. pc'[a] = "probe" /\ lock' = lock /\ (breached => breached')
      BY <1>1, <2>2 DEF Link
    <3> QED BY <1>0, <3>1
  <2> QED BY <2>1, <2>2
<1>2. CASE Probe(a)
  <2>1. lock' = lock /\ pc'[a] \in {"defer", "clear"} /\ (breached => breached')
    BY <1>2 DEF Probe, file
  <2>2. pc'[a] = "clear" /\ running /\ ~ breached' => \A b \in Actors : ~ Inside(b)
    BY <1>2, <2>1 DEF Probe, Stale, Owner
  <2> QED BY <1>0, <2>1, <2>2
<1>3. CASE ClearStale(a)
  <2>1. pc[a] = "clear" /\ pc'[a] \in {"link", "recheck"} /\ (breached => breached')
    BY <1>3 DEF ClearStale
  <2> QED BY <1>0, <2>1
<1>4. CASE Recheck(a)
  <2>1. breached' \/ (pc'[a] = "defer" /\ lock' = lock /\ (breached => breached'))
    BY <1>4 DEF Recheck, file
  <2> QED BY <1>0, <2>1
<1>5. CASE Defer(a)
  <2>1. lock' = lock /\ pc'[a] \in {"unused", "done"} /\ (breached => breached')
    BY <1>5 DEF Defer, locking, file
  <2> QED BY <1>0, <2>1
<1> QED BY <1>1, <1>2, <1>3, <1>4, <1>5 DEF LockStep

LEMMA GuardedStep ==
  ASSUME Inv, [Next]_vars
  PROVE  Guarded'
<1> USE DEF Inv, TypeOK, Guarded, Inside, watcher, locking, file
<1>h. Timers \subseteq Actors /\ Hook \in Actors /\ Hook \notin Timers
  BY DEF Actors, Hook, Timers
<1>1. CASE Event
  <2>1. \A a \in Actors : /\ pc'[a] = "inside" <=> pc[a] = "inside"
                          /\ pc'[a] = "clear" <=> pc[a] = "clear"
    BY <1>1, EventTouches
  <2>2. UNCHANGED <<running, lock, breached>>
    BY <1>1 DEF Event
  <2> QED BY <2>1, <2>2
<1>2. CASE Commit \/ LockAges \/ UNCHANGED vars
  <2>1. UNCHANGED <<running, lock, breached, pc>>
    BY <1>2 DEF Commit, LockAges, vars
  <2> QED BY <2>1
<1>3. CASE Stop
  BY <1>3 DEF Stop
<1>4. ASSUME NEW a \in Actors, UNCHANGED <<running, breached>>,
             \A b \in Actors \ {a} : pc'[b] = pc[b],
             pc'[a] \notin {"inside", "clear"},
             lock' = lock \/ Inside(a)
      PROVE  Guarded'
  BY <1>4
<1>5. CASE HookStarts \/ HookEnds
  <2>1. /\ UNCHANGED <<running, breached>>
        /\ \A b \in Actors \ {Hook} : pc'[b] = pc[b]
        /\ pc'[Hook] \notin {"inside", "clear"}
        /\ lock' = lock \/ Inside(Hook)
    BY <1>h, <1>5 DEF HookStarts, HookEnds, Goto
  <2> QED BY <1>h, <1>4, <2>1
<1>6. ASSUME NEW t \in Timers,
             Fire(t) \/ Take(t) \/ Look(t) \/ Finish(t) \/ Release(t) \/ Save(t) \/ Fail(t)
      PROVE  Guarded'
  <2>1. /\ \A b \in Actors \ {t} : pc'[b] = pc[b]
        /\ pc'[t] \notin {"inside", "clear"}
    BY <1>h, <1>6 DEF Fire, Take, Look, Finish, Release, Save, Fail, Goto
  <2>2. UNCHANGED <<running, breached>>
    BY <1>6 DEF Fire, Take, Look, Finish, Release, Save, Fail
  <2>3. lock' = lock \/ Inside(t)
    BY <1>6 DEF Fire, Take, Look, Finish, Release, Save, Fail
  <2> QED BY <1>h, <1>4, <2>1, <2>2, <2>3
<1>7. ASSUME NEW a \in Actors, LockStep(a)
      PROVE  Guarded'
  BY <1>7, GuardedLockStep
<1> QED BY <1>1, <1>2, <1>3, <1>5, <1>6, <1>7 DEF Next, LockStep

\* In a workspace, breached or not, the thread that wrote the lock is inside, because
\* every way out of there unlinks it.
LEMMA ReleasedStep ==
  ASSUME Inv, [Next]_vars
  PROVE  LockReleased'
<1> USE DEF Inv, TypeOK, LockReleased, Inside, watcher, locking, file, Goto, Unlinked
<1>h. Timers \subseteq Actors /\ Hook \in Actors /\ Hook \notin Timers
  BY DEF Actors, Hook, Timers
<1>1. CASE Event
  <2>1. \A t \in Timers : Inside(t) => Inside(t)'
    BY <1>h, <1>1, EventTouches
  <2> QED BY <1>1, <2>1 DEF Event
<1>2. CASE Commit \/ LockAges \/ UNCHANGED vars
  BY <1>2 DEF Commit, LockAges, vars
<1>3. CASE Stop
  BY <1>3 DEF Stop
<1>4. CASE HookStarts \/ HookEnds
  <2>1. /\ \A t \in Timers : pc'[t] = pc[t]
        /\ UNCHANGED <<mode, running>> /\ lock' \in {lock, "none"}
    BY <1>h, <1>4 DEF HookStarts, HookEnds
  <2> QED BY <2>1
<1>5. ASSUME NEW t \in Timers, Finish(t) \/ Release(t) \/ (Fail(t) /\ Inside(t))
      PROVE  LockReleased'
  <2>1. mode' = mode /\ (mode = "workspace" => lock' = "none")
    BY <1>5 DEF Finish, Release, Fail
  <2> QED BY <2>1
<1>6. ASSUME NEW a \in Actors, UNCHANGED <<mode, running>>, ~ Inside(a),
             \A b \in Actors \ {a} : pc'[b] = pc[b],
             lock' \in {lock, "none"} \/ (lock' = Owner(a) /\ pc'[a] = "inside")
      PROVE  LockReleased'
  BY <1>h, <1>6 DEF Owner, Actors
<1>7. ASSUME NEW t \in Timers,
             Fire(t) \/ Take(t) \/ Look(t) \/ Save(t) \/ (Fail(t) /\ ~ Inside(t))
      PROVE  LockReleased'
  <2>1. /\ ~ Inside(t) /\ \A b \in Actors \ {t} : pc'[b] = pc[b]
        /\ UNCHANGED <<mode, running>> /\ lock' = lock
    BY <1>h, <1>7 DEF Fire, Take, Look, Save, Fail
  <2> QED BY <1>h, <1>6, <2>1
<1>8. ASSUME NEW a \in Actors, LockStep(a)
      PROVE  LockReleased'
  <2>1. /\ ~ Inside(a) /\ \A b \in Actors \ {a} : pc'[b] = pc[b]
        /\ UNCHANGED <<mode, running>>
    BY <1>8, LockStepTouches
  <2>2. lock' \in {lock, "none"} \/ (lock' = Owner(a) /\ pc'[a] = "inside")
    BY <1>8 DEF LockStep, Link, Enter, Probe, ClearStale, Recheck, Defer
  <2> QED BY <1>6, <1>8, <2>1, <2>2
<1> QED BY <1>1, <1>2, <1>3, <1>4, <1>5, <1>7, <1>8 DEF Next, LockStep

-----------------------------------------------------------------------------
\* Inv holds in every reachable state.
THEOREM WatchInvariant == Spec => []Inv
<1>1. Inv /\ [Next]_vars => Inv'
  BY TypeStep, OrderStep, ForgottenStep, GuardedStep, ReleasedStep DEF Inv
<1> QED BY InitInv, <1>1, PTL DEF Spec

\* Every variable keeps its type, and only the update command arms atexit.
THEOREM WatchTypeCorrect == Spec => []TypeOK
BY WatchInvariant, PTL DEF Inv

\* A change that no update has seen is always on its way to one, whatever the
\* order in which timers fire, are cancelled too late, or die of exceptions.
THEOREM NoChangeForgotten == Spec => []NothingForgotten
BY WatchInvariant, PTL DEF Inv

\* The watcher's threads and the hook's process never update at once, as long as none
\* of the lock's openings is used.
THEOREM WatchersExclude == Spec => []OneUpdate
<1>1. Inv => OneUpdate
  BY DEF Inv, Guarded, OneUpdate
<1> QED BY WatchInvariant, <1>1, PTL

\* In a workspace the lock never outlives the update that took it.
THEOREM WorkspaceLockReleased == Spec => []LockReleased
BY WatchInvariant, PTL DEF Inv
=============================================================================
