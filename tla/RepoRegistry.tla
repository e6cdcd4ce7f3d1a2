---------------------------- MODULE RepoRegistry ----------------------------
(***************************************************************************)
(* The workspace registry: contexts of repositories (an engine, a full-text *)
(* index, a vector store), loaded on first use by concurrent tool calls,    *)
(* evicted least recently used first, disposed of at shutdown.              *)
(*                                                                          *)
(* Tool calls are coroutines of one event loop: a step is what one of them  *)
(* does between two awaits.  The load of a context ends by starting a       *)
(* background task, which opens the real vector store and then sets the     *)
(* event that searches of that repository wait for.  Contexts are numbered  *)
(* in the order they are made.                                              *)
(***************************************************************************)
EXTENDS Naturals, FiniteSets

CONSTANTS
  Clients,      \* concurrent tool calls
  Closer,       \* the shutdown of the server
  Aliases,      \* repositories of the workspace
  Default,      \* the one that is never evicted
  NoContext,
  MAX_LOADED,
  MaxContexts   \* bound: contexts made

ASSUME RegistryAssumption ==
  /\ IsFiniteSet(Clients) /\ IsFiniteSet(Aliases)
  /\ Closer \notin Clients
  /\ Default \in Aliases
  /\ NoContext \notin Nat
  /\ MAX_LOADED \in Nat \ {0}
  /\ MaxContexts \in Nat

VARIABLES
  contexts,    \* [Aliases -> context or NoContext]: _contexts
  order,       \* <<a, b>>: a was used before b, both loaded: _access_order
  vs_tasks,    \* [Aliases -> context whose task it is, or NoContext]
  made,        \* how many contexts there have been
  alias,       \* [Contexts -> Aliases]: whose context it is, once made
  task,        \* [Contexts -> TaskState]: its background load
  ready,       \* contexts whose vector_store_ready is set
  open,        \* contexts whose engine was not disposed of
  pc,          \* [Actors -> Stage]
  want,        \* [Actors -> Aliases]: what a miss is loading
  victim,      \* [Actors -> context it is disposing of, or NoContext]
  awaits,      \* [Actors -> context whose task it awaits, or NoContext]
  lost         \* history: contexts nobody will ever dispose of

cache   == <<contexts, order, vs_tasks>>
context == <<made, alias, ready, open>>
actor   == <<pc, want, victim, awaits>>
vars    == <<contexts, order, vs_tasks, made, alias, task, ready, open, pc, want, victim,
             awaits, lost>>

-----------------------------------------------------------------------------
Contexts  == 1 .. MaxContexts
Actors    == Clients \cup {Closer}
TaskState == {"none", "running", "cancelled", "done"}
Stage     == {"idle", "unload", "dispose", "load", "close", "closed"}
Evicting  == {"unload", "dispose"}

Cached    == {a \in Aliases : contexts[a] # NoContext}
Evictable == Cached \ {Default}

\* Calls that are to cache one evictable context more.
Loading == {c \in Clients : pc[c] \in Evicting \cup {"load"} /\ want[c] # Default}

TypeOK ==
  /\ contexts \in [Aliases -> Contexts \cup {NoContext}]
  /\ order \subseteq Cached \X Cached
  /\ vs_tasks \in [Aliases -> Contexts \cup {NoContext}]
  /\ made \in 0 .. MaxContexts
  /\ alias \in [Contexts -> Aliases]
  /\ task \in [Contexts -> TaskState]
  /\ ready \subseteq Contexts
  /\ open \subseteq Contexts
  /\ pc \in [Actors -> Stage]
  /\ want \in [Actors -> Aliases]
  /\ victim \in [Actors -> Contexts \cup {NoContext}]
  /\ awaits \in [Actors -> Contexts \cup {NoContext}]
  /\ lost \subseteq Contexts

Init ==
  /\ contexts = [a \in Aliases |-> NoContext]
  /\ order = {}
  /\ vs_tasks = [a \in Aliases |-> NoContext]
  /\ made = 0
  /\ alias = [x \in Contexts |-> Default]
  /\ task = [x \in Contexts |-> "none"]
  /\ ready = {}
  /\ open = {}
  /\ pc = [r \in Actors |-> "idle"]
  /\ want = [r \in Actors |-> Default]
  /\ victim = [r \in Actors |-> NoContext]
  /\ awaits = [r \in Actors |-> NoContext]
  /\ lost = {}

-----------------------------------------------------------------------------
(* _dispose_context.                                                         *)

\* Mutant: the access time outlives the context.
WithoutNone(a) == order

Without(a) == {p \in order : a \notin {p[1], p[2]}}

\* Mutant: the context leaves the cache once it has been disposed of.
PopLate(r, a) ==
  /\ order' = Without(a)
  /\ vs_tasks' = [vs_tasks EXCEPT ![a] = NoContext]
  /\ victim' = [victim EXCEPT ![r] = contexts[a]]
  /\ pc' = [pc EXCEPT ![r] = "dispose"]
  /\ UNCHANGED <<contexts, task, context, awaits, lost>>

\* Out of the cache, and its background task is cancelled.
Pop(r, a) ==
  /\ contexts' = [contexts EXCEPT ![a] = NoContext]
  /\ order' = Without(a)
  /\ vs_tasks' = [vs_tasks EXCEPT ![a] = NoContext]
  /\ victim' = [victim EXCEPT ![r] = contexts[a]]
  /\ IF vs_tasks[a] # NoContext /\ task[vs_tasks[a]] = "running"
       THEN /\ task' = [task EXCEPT ![vs_tasks[a]] = "cancelled"]
            /\ awaits' = [awaits EXCEPT ![r] = vs_tasks[a]]
            /\ pc' = [pc EXCEPT ![r] = "unload"]
       ELSE /\ pc' = [pc EXCEPT ![r] = "dispose"]
            /\ UNCHANGED <<task, awaits>>
  /\ UNCHANGED <<context, lost>>

\* Mutant: the eviction waits for the event the task is to set.
UnloadedReady(r) ==
  /\ pc[r] = "unload"
  /\ awaits[r] \in ready
  /\ pc' = [pc EXCEPT ![r] = "dispose"]
  /\ awaits' = [awaits EXCEPT ![r] = NoContext]
  /\ UNCHANGED <<cache, task, context, want, victim, lost>>

\* Mutant: what the cancelled task raises ends the disposal.
UnloadedRaises(r) ==
  /\ pc[r] = "unload"
  /\ task[awaits[r]] = "done"
  /\ pc' = [pc EXCEPT ![r] = IF r = Closer THEN "close" ELSE "load"]
  /\ victim' = [victim EXCEPT ![r] = NoContext]
  /\ awaits' = [awaits EXCEPT ![r] = NoContext]
  /\ UNCHANGED <<cache, task, context, want, lost>>

\* The cancelled task has ended.
Unloaded(r) ==
  /\ pc[r] = "unload"
  /\ task[awaits[r]] = "done"
  /\ pc' = [pc EXCEPT ![r] = "dispose"]
  /\ awaits' = [awaits EXCEPT ![r] = NoContext]
  /\ UNCHANGED <<cache, task, context, want, victim, lost>>

\* The engine is disposed of and the store closed.
Disposed(r) ==
  /\ pc[r] = "dispose"
  /\ open' = open \ {victim[r]}
  /\ victim' = [victim EXCEPT ![r] = NoContext]
  /\ pc' = [pc EXCEPT ![r] = IF r = Closer THEN "close" ELSE "load"]
  /\ UNCHANGED <<cache, task, made, alias, ready, want, awaits, lost>>

-----------------------------------------------------------------------------
(* get: a hit, or a miss that evicts if it must, loads, and caches.          *)

\* The server takes calls until it shuts down.
Calls(c) == pc[c] = "idle" /\ pc[Closer] = "idle"

Touched(a) == Without(a) \cup {<<b, a>> : b \in Cached \ {a}}

Return(c) ==
  /\ pc' = [pc EXCEPT ![c] = "idle"]
  /\ want' = [want EXCEPT ![c] = Default]

Hit(c, a) ==
  /\ Calls(c)
  /\ a \in Cached
  /\ order' = Touched(a)
  /\ UNCHANGED <<contexts, vs_tasks, task, context, actor, lost>>

\* Mutant: one context more is let in.
AtCapacityLate == Cardinality(Evictable) > MAX_LOADED

\* The default repository does not count against the cap.
AtCapacity == Cardinality(Evictable) >= MAX_LOADED

\* Mutant: the default repository is evicted like any other.
LruOfAll(a) == a \in Cached /\ \A b \in Cached \ {a} : <<a, b>> \in order

\* The least recently used alias but the default.
Lru(a) == a \in Evictable /\ \A b \in Evictable \ {a} : <<a, b>> \in order

Miss(c, a) ==
  /\ Calls(c)
  /\ a \notin Cached
  /\ want' = [want EXCEPT ![c] = a]
  /\ IF AtCapacity THEN \E b \in Aliases : Lru(b) /\ Pop(c, b)
     ELSE /\ pc' = [pc EXCEPT ![c] = "load"]
          /\ UNCHANGED <<cache, task, context, victim, awaits, lost>>

\* _load_context returns and its context is cached, with nothing awaited in
\* between.  Whatever another call cached under the alias meanwhile is
\* replaced.
Loaded(c) ==
  LET a == want[c]
      x == made + 1
  IN /\ pc[c] = "load"
     /\ made < MaxContexts
     /\ made' = x
     /\ alias' = [alias EXCEPT ![x] = a]
     /\ open' = open \cup {x}
     /\ task' = [task EXCEPT ![x] = "running"]
     /\ vs_tasks' = [vs_tasks EXCEPT ![a] = x]
     /\ contexts' = [contexts EXCEPT ![a] = x]
     /\ order' = Touched(a)
     /\ lost' = lost \cup ({contexts[a]} \ {NoContext})
     /\ Return(c)
     /\ UNCHANGED <<ready, victim, awaits>>

\* The database does not open, or the alias is unknown.
LoadFails(c) ==
  /\ pc[c] = "load"
  /\ Return(c)
  /\ UNCHANGED <<cache, task, context, victim, awaits, lost>>

\* The call is cancelled.  An eviction swallows that while it awaits the task,
\* not while it disposes.
Cancel(c) ==
  /\ pc[c] \in {"dispose", "load"}
  /\ lost' = lost \cup ({victim[c]} \ {NoContext})
  /\ victim' = [victim EXCEPT ![c] = NoContext]
  /\ Return(c)
  /\ UNCHANGED <<cache, task, context, awaits>>

-----------------------------------------------------------------------------
(* _load_vector_stores.                                                      *)

\* Mutant: the task that is registered sets its event.
TaskEndsRegistered(x) ==
  /\ task[x] \in {"running", "cancelled"}
  /\ task' = [task EXCEPT ![x] = "done"]
  /\ ready' = IF vs_tasks[alias[x]] = x THEN ready \cup {x} ELSE ready
  /\ vs_tasks' = [vs_tasks EXCEPT ![alias[x]] = NoContext]
  /\ UNCHANGED <<contexts, order, made, alias, open, actor, lost>>

\* The event is set if the context is still the cached one; the entry of the
\* alias is removed whosever it is.  A task cancelled before its first step
\* does neither.
TaskEnds(x) ==
  /\ task[x] \in {"running", "cancelled"}
  /\ task' = [task EXCEPT ![x] = "done"]
  /\ \/ /\ ready' = IF contexts[alias[x]] = x THEN ready \cup {x} ELSE ready
        /\ vs_tasks' = [vs_tasks EXCEPT ![alias[x]] = NoContext]
     \/ /\ task[x] = "cancelled"
        /\ UNCHANGED <<ready, vs_tasks>>
  /\ UNCHANGED <<contexts, order, made, alias, open, actor, lost>>

-----------------------------------------------------------------------------
(* close, when no call is inside get.                                        *)

Close ==
  /\ \A r \in Actors : pc[r] = "idle"
  /\ pc' = [pc EXCEPT ![Closer] = "close"]
  /\ UNCHANGED <<cache, task, context, want, victim, awaits, lost>>

CloseNext(a) ==
  /\ pc[Closer] = "close"
  /\ a \in Cached
  /\ Pop(Closer, a)
  /\ UNCHANGED want

Closed ==
  /\ pc[Closer] = "close"
  /\ Cached = {}
  /\ pc' = [pc EXCEPT ![Closer] = "closed"]
  /\ UNCHANGED <<cache, task, context, want, victim, awaits, lost>>

-----------------------------------------------------------------------------
Next ==
  \/ \E c \in Clients, a \in Aliases : Hit(c, a) \/ Miss(c, a)
  \/ \E c \in Clients : Loaded(c) \/ LoadFails(c) \/ Cancel(c)
  \/ \E r \in Actors : Unloaded(r) \/ Disposed(r)
  \/ \E x \in Contexts : TaskEnds(x)
  \/ Close
  \/ \E a \in Aliases : CloseNext(a)
  \/ Closed

Spec == Init /\ [][Next]_vars

\* The event loop runs what can run: tasks end, disposals and loads return.
\* Nobody has to call, or to shut the server down.
FairSpec ==
  /\ Spec
  /\ \A x \in Contexts : WF_vars(TaskEnds(x))
  /\ \A r \in Actors : WF_vars(Unloaded(r) \/ Disposed(r))
  /\ \A c \in Clients : WF_vars(Loaded(c) \/ LoadFails(c))

-----------------------------------------------------------------------------
(* Properties.                                                               *)

\* Concurrent misses may pass the cap, since get checks it before it awaits the
\* load: by one context for each call but one, and never by more, however long
\* the calls go on.
CapBound ==
  Cardinality(Evictable) + Cardinality(Loading) < MAX_LOADED + Cardinality(Clients)

\* What is cached can be handed out: it is open, and no eviction is on its way to
\* dispose of it.
CachedIsUsable ==
  \A a \in Cached : contexts[a] \in open /\ \A r \in Actors : victim[r] # contexts[a]

\* A context is disposed of unless two calls loaded its repository at once or its
\* eviction was cancelled: it is cached, or somebody is disposing of it, or lost.
EveryContextAccounted ==
  \A x \in open :
    contexts[alias[x]] = x \/ x \in lost \/ \E r \in Actors : victim[r] = x

\* While the server is up, the context of the default repository is never taken
\* away, only replaced: _server.py hands its parts to the single-repository tools.
DefaultStays ==
  [][contexts[Default] # NoContext /\ pc[Closer] = "idle" => contexts'[Default] # NoContext]_vars

\* The event of a cached context is set in the end (searches wait 30 seconds for
\* it), whatever became of the tasks of the contexts cached before it.
CachedGetsReady ==
  \A x \in Contexts, a \in Aliases : contexts[a] = x ~> x \in ready \/ contexts[a] # x

\* get returns or raises: an eviction does not wait for ever for a task it
\* cancelled.
GetReturns ==
  \A c \in Clients : pc[c] \in Evicting \cup {"load"} ~> pc[c] = "idle"

\* Nobody is kept waiting: not a search for its vector store, not a call for an
\* eviction.
NobodyWaitsForEver == CachedGetsReady /\ GetReturns
=============================================================================
