------------------------- MODULE RepoRegistryProofs -------------------------
(***************************************************************************)
(* What holds of the registry for any number of repositories, concurrent    *)
(* calls and contexts, and for every cap.                                   *)
(***************************************************************************)
EXTENDS RepoRegistry, FiniteSetTheorems, TLAPS

-----------------------------------------------------------------------------
(* Types.                                                                    *)

LEMMA TypeInit == Init => TypeOK
  BY RegistryAssumption DEF Init, TypeOK, TaskState, Stage

LEMMA PopTypes ==
  ASSUME TypeOK, NEW r \in Actors, NEW a \in Cached, Pop(r, a)
  PROVE  /\ contexts' \in [Aliases -> Contexts \cup {NoContext}]
         /\ order' \subseteq Cached' \X Cached'
         /\ vs_tasks' \in [Aliases -> Contexts \cup {NoContext}]
         /\ task' \in [Contexts -> TaskState]
         /\ pc' \in [Actors -> Stage]
         /\ victim' \in [Actors -> Contexts \cup {NoContext}]
         /\ awaits' \in [Actors -> Contexts \cup {NoContext}]
<1>1. Cached \ {a} \subseteq Cached'
  BY DEF TypeOK, Pop, Cached
<1>2. order' \subseteq (Cached \ {a}) \X (Cached \ {a})
  BY DEF TypeOK, Pop, Without
<1>3. task' \in [Contexts -> TaskState]
  BY DEF TypeOK, Pop, TaskState
<1>4. a \in Aliases /\ contexts[a] \in Contexts
  BY DEF TypeOK, Cached
<1> QED BY <1>1, <1>2, <1>3, <1>4 DEF TypeOK, Pop, Stage

LEMMA TypeStep == ASSUME TypeOK, [Next]_vars PROVE TypeOK'
<1> USE RegistryAssumption
<1>1. ASSUME NEW c \in Clients, NEW a \in Aliases, Hit(c, a) PROVE TypeOK'
  BY <1>1 DEF TypeOK, Hit, Touched, Without, Cached, context, actor
<1>2. ASSUME NEW c \in Clients, NEW a \in Aliases, Miss(c, a) PROVE TypeOK'
  <2>1. CASE AtCapacity
    <3>1. PICK b \in Aliases : Lru(b) /\ Pop(c, b)
      BY <1>2, <2>1 DEF Miss
    <3>2. b \in Cached /\ c \in Actors
      BY <3>1 DEF Lru, Evictable, Actors
    <3>3. want' \in [Actors -> Aliases] /\ UNCHANGED <<context, lost>>
      BY <1>2, <3>1 DEF TypeOK, Miss, Pop
    <3> QED BY <3>1, <3>2, <3>3, PopTypes DEF TypeOK, context
  <2>2. CASE ~AtCapacity
    BY <1>2, <2>2 DEF TypeOK, Miss, cache, context, Cached, Stage
  <2> QED BY <2>1, <2>2
<1>3. ASSUME NEW c \in Clients, Loaded(c) PROVE TypeOK'
  <2>1. made + 1 \in Contexts /\ want[c] \in Aliases /\ made + 1 # NoContext
    BY <1>3 DEF TypeOK, Loaded, Contexts, Actors
  <2>2. Cached' = Cached \cup {want[c]}
    BY <1>3, <2>1 DEF TypeOK, Loaded, Cached
  <2>3. order' \subseteq Cached' \X Cached'
    BY <1>3, <2>2 DEF TypeOK, Loaded, Touched, Without
  <2>4. lost' \subseteq Contexts
    BY <1>3, <2>1 DEF TypeOK, Loaded
  <2>5. made' \in 0 .. MaxContexts
    BY <1>3 DEF TypeOK, Loaded
  <2>6. pc' \in [Actors -> Stage] /\ want' \in [Actors -> Aliases]
    BY <1>3 DEF TypeOK, Loaded, Return, Stage
  <2>7. task' \in [Contexts -> TaskState]
    BY <1>3, <2>1 DEF TypeOK, Loaded, TaskState
  <2> QED BY <1>3, <2>1, <2>3, <2>4, <2>5, <2>6, <2>7 DEF TypeOK, Loaded
<1>4. ASSUME NEW c \in Clients, LoadFails(c) PROVE TypeOK'
  BY <1>4 DEF TypeOK, LoadFails, Return, cache, context, Cached, Stage
<1>5. ASSUME NEW c \in Clients, Cancel(c) PROVE TypeOK'
  <2>1. lost' \subseteq Contexts
    BY <1>5 DEF TypeOK, Cancel, Actors
  <2> QED BY <1>5, <2>1 DEF TypeOK, Cancel, Return, cache, context, Cached, Stage
<1>6. ASSUME NEW r \in Actors, Unloaded(r) PROVE TypeOK'
  BY <1>6 DEF TypeOK, Unloaded, cache, context, Cached, Stage
<1>7. ASSUME NEW r \in Actors, Disposed(r) PROVE TypeOK'
  BY <1>7 DEF TypeOK, Disposed, cache, Cached, Stage
<1>8. ASSUME NEW x \in Contexts, TaskEnds(x) PROVE TypeOK'
  BY <1>8 DEF TypeOK, TaskEnds, actor, Cached, TaskState
<1>9. CASE Close
  BY <1>9 DEF TypeOK, Close, cache, context, Cached, Stage
<1>10. ASSUME NEW a \in Aliases, CloseNext(a) PROVE TypeOK'
  <2>1. Closer \in Actors /\ Pop(Closer, a) /\ a \in Cached
    BY <1>10 DEF CloseNext, Actors
  <2>2. want' = want /\ UNCHANGED <<context, lost>>
    BY <1>10, <2>1 DEF CloseNext, Pop
  <2> QED BY <2>1, <2>2, PopTypes DEF TypeOK, context
<1>11. CASE Closed
  BY <1>11 DEF TypeOK, Closed, cache, context, Cached, Stage
<1>12. CASE UNCHANGED vars
  BY <1>12 DEF TypeOK, vars, Cached
<1> QED BY <1>1, <1>2, <1>3, <1>4, <1>5, <1>6, <1>7, <1>8, <1>9, <1>10, <1>11, <1>12
        DEF Next

\* Every variable has its type, and only loaded repositories have an access time:
\* what get stores and _dispose_context removes stays in step.
THEOREM RegistryTypeCorrect == Spec => []TypeOK
  BY TypeInit, TypeStep, PTL DEF Spec

-----------------------------------------------------------------------------
(* Who answers for a context.                                                *)

\* A context is numbered when it is cached, under the alias it was made for.
Numbered ==
  /\ open \subseteq 1 .. made
  /\ \A a \in Cached : contexts[a] \in 1 .. made /\ alias[contexts[a]] = a

\* An actor has a victim exactly while it evicts.
EvictsItsVictim == \A r \in Actors : victim[r] # NoContext <=> pc[r] \in Evicting

CareInv ==
  /\ TypeOK
  /\ Numbered
  /\ EvictsItsVictim
  /\ \A r \in Actors : victim[r] # NoContext => victim[r] \in 1 .. made
  /\ CachedIsUsable
  /\ EveryContextAccounted

LEMMA CareInit == Init => CareInv
<1> SUFFICES ASSUME Init PROVE CareInv
  OBVIOUS
<1>1. TypeOK
  BY TypeInit
<1> QED BY <1>1, RegistryAssumption
        DEF Init, CareInv, Numbered, EvictsItsVictim, Evicting, CachedIsUsable,
            EveryContextAccounted, Cached

\* Taking a context out of the cache hands it to the one who evicts it.
LEMMA PopCares ==
  ASSUME CareInv, TypeOK', NEW r \in Actors, NEW a \in Cached, Pop(r, a),
         pc[r] \notin Evicting
  PROVE  CareInv'
<1> USE RegistryAssumption
<1>1. /\ a \in Aliases /\ contexts[a] \in 1 .. made /\ contexts[a] # NoContext
      /\ victim[r] = NoContext
  BY DEF CareInv, Numbered, EvictsItsVictim, TypeOK, Cached
<1>2. /\ UNCHANGED <<made, alias, ready, open, lost>>
      /\ Cached' = Cached \ {a}
      /\ \A b \in Cached' : contexts'[b] = contexts[b]
  BY DEF CareInv, TypeOK, Pop, Cached, context
<1>3. /\ victim'[r] = contexts[a] /\ pc'[r] \in Evicting
      /\ \A q \in Actors \ {r} : victim'[q] = victim[q] /\ pc'[q] = pc[q]
  BY DEF CareInv, TypeOK, Pop, Evicting
<1>4. Numbered'
  BY <1>2 DEF CareInv, Numbered
<1>5. EvictsItsVictim' /\ \A q \in Actors : victim'[q] # NoContext => victim'[q] \in 1 .. made'
  BY <1>1, <1>2, <1>3 DEF CareInv, EvictsItsVictim
<1>6. CachedIsUsable'
  <2> SUFFICES ASSUME NEW b \in Cached'
               PROVE  contexts[b] \in open /\ \A q \in Actors : victim'[q] # contexts[b]
    BY <1>2 DEF CachedIsUsable
  <2>1. contexts[b] # contexts[a]
    BY <1>1, <1>2 DEF CareInv, Numbered
  <2> QED BY <1>2, <1>3, <2>1 DEF CareInv, CachedIsUsable
<1>7. EveryContextAccounted'
  <2> SUFFICES ASSUME NEW x \in open
               PROVE  contexts'[alias[x]] = x \/ x \in lost \/ \E q \in Actors : victim'[q] = x
    BY <1>2 DEF EveryContextAccounted
  <2>1. CASE contexts[alias[x]] = x
    <3>1. alias[x] \in Aliases /\ x # NoContext
      BY DEF CareInv, TypeOK, Contexts
    <3>2. CASE alias[x] = a
      BY <1>3, <2>1, <3>2
    <3>3. CASE alias[x] # a
      BY <1>2, <2>1, <3>1, <3>3 DEF Cached
    <3> QED BY <3>2, <3>3
  <2>2. CASE x \in lost
    BY <2>2
  <2>3. CASE \E q \in Actors : victim[q] = x
    <3>1. PICK q \in Actors : victim[q] = x
      BY <2>3
    <3>2. x # NoContext
      BY DEF CareInv, TypeOK, Contexts
    <3> QED BY <1>1, <1>3, <3>1, <3>2
  <2> QED BY <2>1, <2>2, <2>3 DEF CareInv, EveryContextAccounted
<1> QED BY <1>4, <1>5, <1>6, <1>7 DEF CareInv

LEMMA CareStep == ASSUME CareInv, [Next]_vars PROVE CareInv'
<1> USE RegistryAssumption
<1>t. TypeOK /\ TypeOK'
  BY TypeStep DEF CareInv
<1>1. ASSUME NEW c \in Clients, NEW a \in Aliases, Hit(c, a) PROVE CareInv'
  BY <1>1, <1>t DEF CareInv, Hit, Numbered, EvictsItsVictim, CachedIsUsable,
                    EveryContextAccounted, Cached, context, actor
<1>2. ASSUME NEW c \in Clients, NEW a \in Aliases, Miss(c, a) PROVE CareInv'
  <2>1. CASE AtCapacity
    <3>1. PICK b \in Aliases : Lru(b) /\ Pop(c, b)
      BY <1>2, <2>1 DEF Miss
    <3>2. b \in Cached /\ c \in Actors /\ pc[c] \notin Evicting
      BY <1>2, <3>1 DEF Lru, Evictable, Actors, Miss, Calls, Evicting
    <3> QED BY <1>t, <3>1, <3>2, PopCares
  <2>2. CASE ~AtCapacity
    <3>1. /\ UNCHANGED <<cache, task, context, victim, awaits, lost>>
          /\ pc[c] = "idle" /\ pc' = [pc EXCEPT ![c] = "load"]
      BY <1>2, <2>2 DEF Miss, Calls
    <3> QED BY <1>t, <3>1
            DEF CareInv, TypeOK, Numbered, EvictsItsVictim, CachedIsUsable,
                EveryContextAccounted, Cached, cache, context, Evicting
  <2> QED BY <2>1, <2>2
<1>3. ASSUME NEW c \in Clients, Loaded(c) PROVE CareInv'
  <2> DEFINE a == want[c]
             x == made + 1
  <2>1. /\ a \in Aliases /\ c \in Actors /\ x \in Contexts /\ x # NoContext
        /\ made \in Nat /\ x \notin 1 .. made /\ made' = x /\ x \in 1 .. made'
        /\ 1 .. made \subseteq 1 .. made'
    BY <1>3, <1>t DEF TypeOK, Loaded, Contexts, Actors
  <2>2. /\ contexts' = [contexts EXCEPT ![a] = x]
        /\ alias' = [alias EXCEPT ![x] = a]
        /\ open' = open \cup {x}
        /\ lost' = lost \cup ({contexts[a]} \ {NoContext})
        /\ victim' = victim
        /\ pc[c] = "load" /\ pc' = [pc EXCEPT ![c] = "idle"]
    BY <1>3 DEF Loaded, Return
  <2>3. Cached' = Cached \cup {a}
    BY <1>t, <2>1, <2>2 DEF TypeOK, Cached
  <2>4. Numbered'
    BY <1>t, <2>1, <2>2, <2>3 DEF CareInv, TypeOK, Numbered, Cached, Contexts
  <2>5. EvictsItsVictim' /\ \A r \in Actors : victim'[r] # NoContext => victim'[r] \in 1 .. made'
    BY <1>t, <2>1, <2>2 DEF CareInv, TypeOK, EvictsItsVictim, Evicting
  <2>6. CachedIsUsable'
    <3> SUFFICES ASSUME NEW b \in Cached'
                 PROVE  contexts'[b] \in open' /\ \A r \in Actors : victim[r] # contexts'[b]
      BY <2>2 DEF CachedIsUsable
    <3>1. CASE b = a
      BY <1>t, <2>1, <2>2, <3>1 DEF CareInv, TypeOK
    <3>2. CASE b # a
      BY <1>t, <2>2, <2>3, <3>2 DEF CareInv, CachedIsUsable, TypeOK
    <3> QED BY <3>1, <3>2
  <2>7. EveryContextAccounted'
    <3> SUFFICES ASSUME NEW y \in open'
                 PROVE  contexts'[alias'[y]] = y \/ y \in lost' \/ \E r \in Actors : victim[r] = y
      BY <2>2 DEF EveryContextAccounted
    <3>1. CASE y = x
      BY <1>t, <2>1, <2>2, <3>1 DEF TypeOK
    <3>2. CASE y # x
      <4>1. y \in open /\ alias'[y] = alias[y] /\ alias[y] \in Aliases /\ y # NoContext
        BY <1>t, <2>2, <3>2 DEF TypeOK, Contexts
      <4> QED BY <1>t, <2>2, <4>1 DEF CareInv, TypeOK, EveryContextAccounted
    <3> QED BY <3>1, <3>2
  <2> QED BY <1>t, <2>4, <2>5, <2>6, <2>7 DEF CareInv
<1>4. ASSUME NEW c \in Clients, LoadFails(c) PROVE CareInv'
  BY <1>4, <1>t DEF CareInv, TypeOK, LoadFails, Return, Numbered, EvictsItsVictim, CachedIsUsable,
                    EveryContextAccounted, Cached, cache, context, Evicting
<1>5. ASSUME NEW c \in Clients, Cancel(c) PROVE CareInv'
  <2>1. /\ c \in Actors
        /\ UNCHANGED <<contexts, made, alias, open>>
        /\ lost' = lost \cup ({victim[c]} \ {NoContext})
        /\ victim' = [victim EXCEPT ![c] = NoContext]
        /\ pc' = [pc EXCEPT ![c] = "idle"]
    BY <1>5 DEF Cancel, Return, cache, context, Actors
  <2>2. Numbered' /\ EvictsItsVictim' /\ CachedIsUsable'
    BY <1>t, <2>1 DEF CareInv, TypeOK, Numbered, EvictsItsVictim, CachedIsUsable, Cached, Evicting
  <2>3. EveryContextAccounted'
    <3> SUFFICES ASSUME NEW x \in open
                 PROVE  contexts[alias[x]] = x \/ x \in lost' \/ \E r \in Actors : victim'[r] = x
      BY <2>1 DEF EveryContextAccounted
    <3>1. x # NoContext
      BY <1>t DEF TypeOK, Contexts
    <3> QED BY <1>t, <2>1, <3>1 DEF CareInv, TypeOK, EveryContextAccounted
  <2>4. \A r \in Actors : victim'[r] # NoContext => victim'[r] \in 1 .. made'
    BY <1>t, <2>1 DEF CareInv, TypeOK
  <2> QED BY <1>t, <2>2, <2>3, <2>4 DEF CareInv
<1>6. ASSUME NEW r \in Actors, Unloaded(r) PROVE CareInv'
  BY <1>6, <1>t DEF CareInv, TypeOK, Unloaded, Numbered, EvictsItsVictim, CachedIsUsable,
                    EveryContextAccounted, Cached, cache, context, Evicting
<1>7. ASSUME NEW r \in Actors, Disposed(r) PROVE CareInv'
  <2>1. /\ UNCHANGED <<contexts, made, alias, lost>>
        /\ pc[r] = "dispose" /\ victim[r] # NoContext
        /\ open' = open \ {victim[r]}
        /\ victim' = [victim EXCEPT ![r] = NoContext]
        /\ pc'[r] \notin Evicting
        /\ \A q \in Actors \ {r} : pc'[q] = pc[q]
    BY <1>7, <1>t DEF CareInv, TypeOK, Disposed, EvictsItsVictim, Evicting, cache
  <2>2. Numbered' /\ EvictsItsVictim'
    BY <1>t, <2>1 DEF CareInv, TypeOK, Numbered, EvictsItsVictim, Cached
  <2>3. CachedIsUsable'
    BY <1>t, <2>1 DEF CareInv, TypeOK, CachedIsUsable, Cached
  <2>4. EveryContextAccounted'
    <3> SUFFICES ASSUME NEW x \in open, x # victim[r]
                 PROVE  contexts[alias[x]] = x \/ x \in lost \/ \E q \in Actors : victim'[q] = x
      BY <2>1 DEF EveryContextAccounted
    <3> QED BY <1>t, <2>1 DEF CareInv, TypeOK, EveryContextAccounted
  <2>5. \A q \in Actors : victim'[q] # NoContext => victim'[q] \in 1 .. made'
    BY <1>t, <2>1 DEF CareInv, TypeOK
  <2> QED BY <1>t, <2>2, <2>3, <2>4, <2>5 DEF CareInv
<1>8. ASSUME NEW x \in Contexts, TaskEnds(x) PROVE CareInv'
  BY <1>8, <1>t DEF CareInv, TaskEnds, Numbered, EvictsItsVictim, CachedIsUsable,
                    EveryContextAccounted, Cached, actor
<1>9. CASE Close
  BY <1>9, <1>t DEF CareInv, TypeOK, Close, Numbered, EvictsItsVictim, CachedIsUsable,
                    EveryContextAccounted, Cached, cache, context, Evicting, Actors
<1>10. ASSUME NEW a \in Aliases, CloseNext(a) PROVE CareInv'
  <2>1. Closer \in Actors /\ Pop(Closer, a) /\ a \in Cached /\ pc[Closer] \notin Evicting
    BY <1>10 DEF CloseNext, Actors, Evicting
  <2> QED BY <1>t, <2>1, PopCares
<1>11. CASE Closed
  BY <1>11, <1>t DEF CareInv, TypeOK, Closed, Numbered, EvictsItsVictim, CachedIsUsable,
                     EveryContextAccounted, Cached, cache, context, Evicting, Actors
<1>12. CASE UNCHANGED vars
  BY <1>12, <1>t DEF CareInv, vars, Numbered, EvictsItsVictim, CachedIsUsable,
                     EveryContextAccounted, Cached
<1> QED BY <1>1, <1>2, <1>3, <1>4, <1>5, <1>6, <1>7, <1>8, <1>9, <1>10, <1>11, <1>12
        DEF Next

\* What get hands out is open, and no eviction under way is about to dispose of it,
\* however misses, evictions and cancelled calls interleave.
THEOREM CachedContextsAreUsable == Spec => []CachedIsUsable
<1>1. CareInv => CachedIsUsable
  BY DEF CareInv
<1> QED BY <1>1, CareInit, CareStep, PTL DEF Spec

\* No context slips away but by the two ways that `lost` records: replaced by a
\* second load of its repository, or left by a cancelled eviction.
THEOREM ContextsAreAccounted == Spec => []EveryContextAccounted
<1>1. CareInv => EveryContextAccounted
  BY DEF CareInv
<1> QED BY <1>1, CareInit, CareStep, PTL DEF Spec

\* Evictions never take the default repository's context.
THEOREM DefaultIsKept == Spec => DefaultStays
<1>1. ASSUME TypeOK, [Next]_vars, contexts[Default] # NoContext, pc[Closer] = "idle"
      PROVE  contexts'[Default] # NoContext
  <2> USE RegistryAssumption, <1>1
  <2>1. ASSUME NEW c \in Clients, NEW a \in Aliases, Miss(c, a)
        PROVE  contexts'[Default] # NoContext
    <3>1. CASE AtCapacity
      <4>1. PICK b \in Aliases : Lru(b) /\ Pop(c, b)
        BY <2>1, <3>1 DEF Miss
      <4> QED BY <4>1 DEF TypeOK, Lru, Evictable, Pop
    <3>2. CASE ~AtCapacity
      BY <2>1, <3>2 DEF Miss, cache
    <3> QED BY <3>1, <3>2
  <2>2. ASSUME NEW c \in Clients, Loaded(c) PROVE contexts'[Default] # NoContext
    BY <2>2 DEF TypeOK, Loaded
  <2> QED BY <2>1, <2>2
          DEF Next, Hit, LoadFails, Cancel, Unloaded, Disposed, TaskEnds, Close, CloseNext,
              Closed, vars, cache
<1>2. TypeOK /\ [Next]_vars =>
        [contexts[Default] # NoContext /\ pc[Closer] = "idle" => contexts'[Default] # NoContext]_vars
  BY <1>1
<1> QED BY <1>2, RegistryTypeCorrect, PTL DEF Spec, DefaultStays

-----------------------------------------------------------------------------
(* The cap.                                                                  *)

LEMMA CapSets ==
  /\ IsFiniteSet(Evictable) /\ Cardinality(Evictable) \in Nat
  /\ IsFiniteSet(Loading) /\ Cardinality(Loading) \in Nat
  /\ Cardinality(Clients) \in Nat /\ Cardinality(Loading) <= Cardinality(Clients)
<1>1. Evictable \subseteq Aliases /\ Loading \subseteq Clients
  BY DEF Evictable, Cached, Loading
<1> QED BY <1>1, RegistryAssumption, FS_Subset, FS_CardinalityType

LEMMA CapSetsNext ==
  /\ IsFiniteSet(Evictable') /\ Cardinality(Evictable') \in Nat
  /\ IsFiniteSet(Loading') /\ Cardinality(Loading') \in Nat
<1>1. Evictable' \subseteq Aliases /\ Loading' \subseteq Clients
  BY DEF Evictable, Cached, Loading
<1> QED BY <1>1, RegistryAssumption, FS_Subset, FS_CardinalityType

\* A step that caches nothing and starts no load.
LEMMA CapKept ==
  ASSUME CapBound, Evictable' \subseteq Evictable, Loading' \subseteq Loading
  PROVE  CapBound'
<1>1. Cardinality(Evictable') <= Cardinality(Evictable)
  BY CapSets, FS_Subset
<1>2. Cardinality(Loading') <= Cardinality(Loading)
  BY CapSets, FS_Subset
<1> QED BY <1>1, <1>2, CapSets, CapSetsNext, RegistryAssumption DEF CapBound

LEMMA PopCaches ==
  ASSUME TypeOK, NEW r \in Actors, NEW a \in Aliases, Pop(r, a)
  PROVE  /\ Evictable' = Evictable \ {a}
         /\ pc'[r] \in Evicting
         /\ \A q \in Actors \ {r} : pc'[q] = pc[q]
  BY DEF TypeOK, Pop, Evictable, Cached, Evicting

LEMMA CapStep == ASSUME TypeOK, CapBound, [Next]_vars PROVE CapBound'
<1> USE RegistryAssumption
<1>1. ASSUME NEW c \in Clients, NEW a \in Aliases, Miss(c, a) PROVE CapBound'
  <2>1. /\ c \in Actors /\ c \notin Loading
        /\ want' = [want EXCEPT ![c] = a]
    BY <1>1 DEF Miss, Calls, Actors, Loading, Evicting
  <2>2. Cardinality(Loading) <= Cardinality(Clients) - 1
    <3>1. Loading \subseteq Clients \ {c}
      BY <2>1 DEF Loading
    <3>2. IsFiniteSet(Clients \ {c}) /\ Cardinality(Clients \ {c}) = Cardinality(Clients) - 1
      BY FS_RemoveElement
    <3> QED BY <3>1, <3>2, FS_Subset
  <2>3. ASSUME pc'[c] \in Evicting \cup {"load"}, \A q \in Actors \ {c} : pc'[q] = pc[q]
        PROVE  Cardinality(Loading') <= Cardinality(Loading) + 1
    <3>1. Loading' \subseteq Loading \cup {c}
      BY <2>1, <2>3 DEF TypeOK, Loading, Actors
    <3>2. /\ IsFiniteSet(Loading \cup {c})
          /\ Cardinality(Loading \cup {c}) = Cardinality(Loading) + 1
      BY <2>1, CapSets, FS_AddElement
    <3> QED BY <3>1, <3>2, FS_Subset
  <2>4. CASE AtCapacity
    <3>1. PICK b \in Aliases : Lru(b) /\ Pop(c, b)
      BY <1>1, <2>4 DEF Miss
    <3>2. Cardinality(Evictable') = Cardinality(Evictable) - 1
      BY <2>1, <3>1, PopCaches, CapSets, FS_RemoveElement DEF Lru
    <3>3. Cardinality(Loading') <= Cardinality(Loading) + 1
      BY <2>1, <2>3, <3>1, PopCaches
    <3> QED BY <3>2, <3>3, CapSets, CapSetsNext DEF CapBound
  <2>5. CASE ~AtCapacity
    <3>1. contexts' = contexts /\ pc' = [pc EXCEPT ![c] = "load"]
      BY <1>1, <2>5 DEF Miss, cache
    <3>2. Evictable' = Evictable
      BY <3>1 DEF Evictable, Cached
    <3>3. Cardinality(Loading') <= Cardinality(Loading) + 1
      BY <2>1, <2>3, <3>1 DEF TypeOK
    <3>4. Cardinality(Evictable) < MAX_LOADED
      BY <2>5, CapSets DEF AtCapacity
    <3> QED BY <2>2, <3>2, <3>3, <3>4, CapSets, CapSetsNext DEF CapBound
  <2> QED BY <2>4, <2>5
<1>2. ASSUME NEW c \in Clients, Loaded(c) PROVE CapBound'
  <2>1. /\ c \in Actors /\ pc[c] = "load" /\ made + 1 # NoContext
        /\ contexts' = [contexts EXCEPT ![want[c]] = made + 1]
        /\ pc' = [pc EXCEPT ![c] = "idle"]
        /\ want' = [want EXCEPT ![c] = Default]
    BY <1>2 DEF TypeOK, Loaded, Return, Actors
  <2>2. Loading' \subseteq Loading \ {c}
    BY <2>1 DEF TypeOK, Loading, Actors, Evicting
  <2>3. CASE want[c] = Default
    <3>1. Evictable' = Evictable
      BY <2>1, <2>3 DEF TypeOK, Evictable, Cached
    <3> QED BY <2>2, <3>1, CapKept
  <2>4. CASE want[c] # Default
    <3>1. c \in Loading
      BY <2>1, <2>4 DEF Loading
    <3>2. /\ IsFiniteSet(Loading \ {c})
          /\ Cardinality(Loading \ {c}) = Cardinality(Loading) - 1
      BY <3>1, CapSets, FS_RemoveElement
    <3>3. Cardinality(Loading') <= Cardinality(Loading) - 1
      BY <2>2, <3>2, FS_Subset
    <3>4. Evictable' \subseteq Evictable \cup {want[c]}
      BY <2>1 DEF TypeOK, Evictable, Cached
    <3>5. /\ IsFiniteSet(Evictable \cup {want[c]})
          /\ Cardinality(Evictable \cup {want[c]}) <= Cardinality(Evictable) + 1
      BY CapSets, FS_AddElement
    <3>6. Cardinality(Evictable') <= Cardinality(Evictable) + 1
      BY <3>4, <3>5, CapSets, CapSetsNext, FS_Subset, FS_CardinalityType
    <3> QED BY <3>3, <3>6, CapSets, CapSetsNext DEF CapBound
  <2> QED BY <2>3, <2>4
<1>3. ASSUME NEW a \in Aliases, CloseNext(a) PROVE CapBound'
  <2>1. Closer \in Actors /\ Pop(Closer, a) /\ want' = want
    BY <1>3 DEF CloseNext, Actors
  <2>2. Loading' = Loading /\ Evictable' \subseteq Evictable
    BY <2>1, PopCaches DEF Loading, Actors
  <2> QED BY <2>2, CapKept
<1>4. ASSUME contexts' = contexts, want' = want,
             \A c \in Clients : pc'[c] = pc[c] \/ {pc[c], pc'[c]} \subseteq Evicting \cup {"load"}
      PROVE  CapBound'
  <2>1. Evictable' = Evictable /\ Loading' = Loading
    BY <1>4 DEF Evictable, Cached, Loading
  <2> QED BY <2>1, CapKept
<1>5. ASSUME NEW c \in Clients, contexts' = contexts, Return(c) PROVE CapBound'
  <2>1. Evictable' = Evictable /\ Loading' \subseteq Loading
    BY <1>5 DEF TypeOK, Return, Evictable, Cached, Loading, Actors
  <2> QED BY <2>1, CapKept
<1>6. ASSUME NEW c \in Clients, NEW a \in Aliases, Hit(c, a) PROVE CapBound'
  BY <1>4, <1>6 DEF Hit, actor
<1>7. ASSUME NEW c \in Clients, LoadFails(c) \/ Cancel(c) PROVE CapBound'
  BY <1>5, <1>7 DEF LoadFails, Cancel, cache
<1>8. ASSUME NEW r \in Actors, Unloaded(r) \/ Disposed(r) PROVE CapBound'
  BY <1>4, <1>8 DEF TypeOK, Unloaded, Disposed, cache, Evicting, Actors
<1>9. ASSUME NEW x \in Contexts, TaskEnds(x) PROVE CapBound'
  BY <1>4, <1>9 DEF TaskEnds, actor
<1>10. CASE Close \/ Closed
  BY <1>4, <1>10 DEF TypeOK, Close, Closed, cache, Actors
<1>11. CASE UNCHANGED vars
  BY <1>4, <1>11 DEF vars
<1> QED BY <1>1, <1>2, <1>3, <1>6, <1>7, <1>8, <1>9, <1>10, <1>11 DEF Next

LEMMA CapInit == Init => CapBound
<1> SUFFICES ASSUME Init PROVE CapBound
  OBVIOUS
<1>1. Evictable = {} /\ Loading = {}
  BY DEF Init, Evictable, Cached, Loading, Evicting, Actors
<1>2. Cardinality({}) = 0
  BY FS_EmptySet
<1> QED BY <1>1, <1>2, CapSets, RegistryAssumption DEF CapBound

\* However long concurrent misses go on, what is loaded and what is being loaded
\* stays within the cap plus one context for each call but one.
THEOREM LoadedStayBounded == Spec => []CapBound
  BY CapInit, CapStep, RegistryTypeCorrect, PTL DEF Spec

-----------------------------------------------------------------------------
(* The background loads.                                                     *)

\* The task registered for an alias, if any, is that of the context cached there.
TasksAreCurrent == \A a \in Aliases : vs_tasks[a] \in {contexts[a], NoContext}

\* A search that waits for a cached context's event waits for a task that is at
\* work: the event is set, or the context's own load is running and has not been
\* cancelled.
ReadyOrLoading == \A a \in Cached : contexts[a] \in ready \/ task[contexts[a]] = "running"

\* An eviction only ever waits for a task that was cancelled or has ended.
AwaitsCancelled ==
  \A r \in Actors : pc[r] = "unload" =>
    awaits[r] \in 1 .. made /\ task[awaits[r]] \in {"cancelled", "done"}

LoadInv == TasksAreCurrent /\ ReadyOrLoading /\ AwaitsCancelled

\* Taking a context out of the cache cancels no other context's load.
LEMMA PopLoads ==
  ASSUME CareInv, LoadInv, NEW r \in Actors, NEW a \in Cached, Pop(r, a)
  PROVE  LoadInv'
<1> USE RegistryAssumption
<1>1. /\ a \in Aliases /\ contexts[a] \in 1 .. made /\ contexts[a] \in Contexts
      /\ contexts[a] # NoContext
  BY DEF CareInv, Numbered, TypeOK, Cached
<1>2. /\ UNCHANGED <<made, alias, ready>>
      /\ Cached' = Cached \ {a}
      /\ \A b \in Aliases \ {a} : contexts'[b] = contexts[b] /\ vs_tasks'[b] = vs_tasks[b]
      /\ contexts'[a] = NoContext /\ vs_tasks'[a] = NoContext
  BY <1>1 DEF CareInv, TypeOK, Pop, Cached, context
<1>3. \A x \in Contexts \ {contexts[a]} : task'[x] = task[x]
  BY DEF CareInv, TypeOK, Pop, LoadInv, TasksAreCurrent, Cached
<1>4. task'[contexts[a]] \in {task[contexts[a]], "cancelled"}
  BY <1>1 DEF CareInv, TypeOK, Pop, LoadInv, TasksAreCurrent
<1>5. TasksAreCurrent'
  BY <1>2 DEF LoadInv, TasksAreCurrent
<1>6. ReadyOrLoading'
  <2> SUFFICES ASSUME NEW b \in Cached, b # a
               PROVE  contexts[b] \in ready \/ task'[contexts[b]] = "running"
    BY <1>2 DEF ReadyOrLoading, Cached
  <2>1. contexts[b] # contexts[a] /\ contexts[b] \in Contexts
    BY <1>1 DEF CareInv, Numbered, TypeOK, Cached
  <2> QED BY <1>3, <2>1 DEF LoadInv, ReadyOrLoading
<1>7. AwaitsCancelled'
  <2> SUFFICES ASSUME NEW q \in Actors, pc'[q] = "unload"
               PROVE  awaits'[q] \in 1 .. made /\ task'[awaits'[q]] \in {"cancelled", "done"}
    BY <1>2 DEF AwaitsCancelled
  <2>1. CASE q = r
    <3>1. /\ pc \in [Actors -> Stage] /\ awaits \in [Actors -> Contexts \cup {NoContext}]
          /\ task \in [Contexts -> TaskState]
      BY DEF CareInv, TypeOK
    <3>2. vs_tasks[a] # NoContext /\ task[vs_tasks[a]] = "running"
      BY <2>1, <3>1 DEF Pop
    <3>3. vs_tasks[a] = contexts[a]
      BY <1>1, <3>2 DEF LoadInv, TasksAreCurrent
    <3>4. awaits'[r] = contexts[a] /\ task'[contexts[a]] = "cancelled"
      BY <1>1, <3>1, <3>2, <3>3 DEF Pop
    <3> QED BY <1>1, <2>1, <3>4
  <2>2. CASE q # r
    <3>1. pc[q] = "unload" /\ awaits'[q] = awaits[q]
      BY <2>2 DEF CareInv, TypeOK, Pop
    <3>2. awaits[q] \in Contexts /\ awaits[q] \in 1 .. made /\ task[awaits[q]] \in {"cancelled", "done"}
      BY <3>1 DEF LoadInv, AwaitsCancelled, CareInv, TypeOK
    <3> QED BY <1>3, <1>4, <3>1, <3>2
  <2> QED BY <2>1, <2>2
<1> QED BY <1>5, <1>6, <1>7 DEF LoadInv

\* Every step keeps the loads where they are waited for.
LEMMA LoadStep == ASSUME CareInv, LoadInv, [Next]_vars PROVE LoadInv'
<1> USE RegistryAssumption
<1>t. TypeOK
  BY DEF CareInv
<1>1. ASSUME NEW c \in Clients, NEW a \in Aliases, Hit(c, a) PROVE LoadInv'
  BY <1>1 DEF LoadInv, Hit, TasksAreCurrent, ReadyOrLoading, AwaitsCancelled, Cached, context,
     actor
<1>2. ASSUME NEW c \in Clients, NEW a \in Aliases, Miss(c, a) PROVE LoadInv'
  <2>1. CASE AtCapacity
    <3>1. PICK b \in Aliases : Lru(b) /\ Pop(c, b)
      BY <1>2, <2>1 DEF Miss
    <3> QED BY <3>1, PopLoads DEF Lru, Evictable, Actors
  <2>2. CASE ~AtCapacity
    BY <1>2, <1>t, <2>2 DEF LoadInv, TypeOK, Miss, TasksAreCurrent, ReadyOrLoading,
       AwaitsCancelled, Cached, cache, context
  <2> QED BY <2>1, <2>2
<1>3. ASSUME NEW c \in Clients, Loaded(c) PROVE LoadInv'
  <2> DEFINE a == want[c]
             x == made + 1
  <2>1. /\ a \in Aliases /\ c \in Actors /\ x \in Contexts /\ x # NoContext
        /\ made \in Nat /\ x \notin 1 .. made /\ made' = x
    BY <1>3, <1>t DEF TypeOK, Loaded, Contexts, Actors
  <2>2. /\ contexts' = [contexts EXCEPT ![a] = x]
        /\ vs_tasks' = [vs_tasks EXCEPT ![a] = x]
        /\ task' = [task EXCEPT ![x] = "running"]
        /\ pc' = [pc EXCEPT ![c] = "idle"]
        /\ UNCHANGED <<ready, awaits>>
    BY <1>3 DEF Loaded, Return
  <2>3. TasksAreCurrent'
    BY <1>t, <2>2 DEF LoadInv, TasksAreCurrent, TypeOK
  <2>4. ReadyOrLoading'
    <3> SUFFICES ASSUME NEW b \in Aliases, contexts'[b] # NoContext
                 PROVE  contexts'[b] \in ready \/ task'[contexts'[b]] = "running"
      BY <2>2 DEF ReadyOrLoading, Cached
    <3>1. CASE b = a
      BY <1>t, <2>1, <2>2, <3>1 DEF TypeOK
    <3>2. CASE b # a
      <4>1. contexts'[b] = contexts[b] /\ b \in Cached
        BY <1>t, <2>2, <3>2 DEF TypeOK, Cached
      <4>2. contexts[b] \in Contexts /\ contexts[b] # x
        BY <1>t, <2>1, <4>1 DEF CareInv, Numbered, TypeOK, Cached
      <4> QED BY <1>t, <2>2, <4>1, <4>2 DEF LoadInv, ReadyOrLoading, TypeOK
    <3> QED BY <3>1, <3>2
  <2>5. AwaitsCancelled'
    <3> SUFFICES ASSUME NEW q \in Actors, pc'[q] = "unload"
                 PROVE  awaits[q] \in 1 .. x /\ task'[awaits[q]] \in {"cancelled", "done"}
      BY <2>1, <2>2 DEF AwaitsCancelled
    <3>1. awaits[q] \in 1 .. made /\ task[awaits[q]] \in {"cancelled", "done"}
      BY <1>t, <2>2 DEF LoadInv, AwaitsCancelled, TypeOK
    <3>2. task'[awaits[q]] = task[awaits[q]]
      BY <1>t, <2>1, <2>2, <3>1 DEF TypeOK
    <3> QED BY <2>1, <3>1, <3>2
  <2> QED BY <2>3, <2>4, <2>5 DEF LoadInv
<1>4. ASSUME NEW c \in Clients, LoadFails(c) \/ Cancel(c) PROVE LoadInv'
  <2>1. UNCHANGED <<contexts, vs_tasks, task, made, ready, awaits>> /\ pc' = [pc EXCEPT ![c] = "idle"]
    BY <1>4 DEF LoadFails, Cancel, Return, cache, context
  <2> QED BY <1>t, <2>1 DEF LoadInv, TypeOK, TasksAreCurrent, ReadyOrLoading, AwaitsCancelled,
          Cached
<1>5. ASSUME NEW r \in Actors, Unloaded(r) \/ Disposed(r) PROVE LoadInv'
  <2>1. /\ UNCHANGED <<contexts, vs_tasks, task, made, ready>>
        /\ pc'[r] # "unload"
        /\ \A q \in Actors \ {r} : pc'[q] = pc[q] /\ awaits'[q] = awaits[q]
    BY <1>5, <1>t DEF Unloaded, Disposed, TypeOK, cache, context
  <2> QED BY <2>1 DEF LoadInv, TasksAreCurrent, ReadyOrLoading, AwaitsCancelled, Cached
<1>6. ASSUME NEW x \in Contexts, TaskEnds(x) PROVE LoadInv'
  <2>1. /\ UNCHANGED <<contexts, made, pc, awaits>>
        /\ task' = [task EXCEPT ![x] = "done"]
        /\ ready \subseteq ready'
        /\ \A a \in Aliases : vs_tasks'[a] \in {vs_tasks[a], NoContext}
    BY <1>6, <1>t DEF TaskEnds, TypeOK, actor
  <2>2. TasksAreCurrent'
    BY <2>1 DEF LoadInv, TasksAreCurrent
  <2>3. ReadyOrLoading'
    <3> SUFFICES ASSUME NEW b \in Cached
                 PROVE  contexts[b] \in ready' \/ task'[contexts[b]] = "running"
      BY <2>1 DEF ReadyOrLoading, Cached
    <3>1. contexts[b] \in Contexts /\ alias[contexts[b]] = b
      BY <1>t DEF CareInv, Numbered, TypeOK, Cached
    <3>2. CASE contexts[b] = x /\ task[x] = "running"
      BY <1>6, <3>1, <3>2 DEF TaskEnds
    <3>3. CASE contexts[b] = x /\ task[x] # "running"
      BY <2>1, <3>3 DEF LoadInv, ReadyOrLoading
    <3>4. CASE contexts[b] # x
      BY <1>t, <2>1, <3>1, <3>4 DEF LoadInv, ReadyOrLoading, TypeOK
    <3> QED BY <3>2, <3>3, <3>4
  <2>4. AwaitsCancelled'
    BY <1>t, <2>1 DEF LoadInv, AwaitsCancelled, TypeOK
  <2> QED BY <2>2, <2>3, <2>4 DEF LoadInv
<1>7. CASE Close \/ Closed
  BY <1>7, <1>t DEF LoadInv, TypeOK, Close, Closed, TasksAreCurrent, ReadyOrLoading,
     AwaitsCancelled, Cached, cache, context, Actors
<1>8. ASSUME NEW a \in Aliases, CloseNext(a) PROVE LoadInv'
  BY <1>8, PopLoads DEF CloseNext, Actors
<1>9. CASE UNCHANGED vars
  BY <1>9 DEF vars, LoadInv, TasksAreCurrent, ReadyOrLoading, AwaitsCancelled, Cached
<1> QED BY <1>1, <1>2, <1>3, <1>4, <1>5, <1>6, <1>7, <1>8, <1>9 DEF Next

\* No search waits for an event that nobody will set, and no eviction for a task
\* that nobody has cancelled: whoever waits, waits for a task that is about to end.
\* (That it ends is what fairness adds in NobodyWaitsForEver.)
THEOREM WaitsAreFounded == Spec => [](ReadyOrLoading /\ AwaitsCancelled)
<1>1. Init => LoadInv
  BY RegistryAssumption DEF Init, LoadInv, TasksAreCurrent, ReadyOrLoading, AwaitsCancelled, Cached
<1>2. CareInv /\ LoadInv /\ [Next]_vars => LoadInv'
  BY LoadStep
<1>3. LoadInv => ReadyOrLoading /\ AwaitsCancelled
  BY DEF LoadInv
<1> QED BY <1>1, <1>2, <1>3, CareInit, CareStep, PTL DEF Spec
-----------------------------------------------------------------------------
(* The order of use.                                                         *)

\* R orders S strictly: of two elements one is before the other.
Orders(R, S) ==
  /\ R \subseteq S \X S
  /\ \A a, b \in S : a # b => <<a, b>> \in R \/ <<b, a>> \in R
  /\ \A a, b \in S : <<a, b>> \in R => <<b, a>> \notin R
  /\ \A a, b, c \in S : <<a, b>> \in R /\ <<b, c>> \in R => <<a, c>> \in R

\* Every nonempty part of a finite ordered set has a first element.
LEMMA FirstElement ==
  ASSUME NEW S, IsFiniteSet(S), NEW R, Orders(R, S), NEW T \in SUBSET S, T # {}
  PROVE  \E a \in T : \A b \in T \ {a} : <<a, b>> \in R
<1> DEFINE Before(a) == {b \in S : <<b, a>> \in R}
           Befores == {Before(a) : a \in T}
<1>1. Befores \subseteq SUBSET S /\ Befores # {}
  OBVIOUS
<1>2. IsWellFoundedOn(StrictSubsetOrdering(S), SUBSET S)
  BY FS_StrictSubsetOrderingWellFounded, FS_FiniteSubsetsOfFinite
<1>3. PICK X \in Befores : \A Y \in Befores : <<Y, X>> \notin StrictSubsetOrdering(S)
  <2> HIDE DEF Befores
  <2> QED BY <1>1, <1>2, WFMin
<1>4. PICK a \in T : X = Before(a)
  BY <1>3
<1>5. SUFFICES ASSUME NEW b \in T, b # a, <<a, b>> \notin R PROVE FALSE
  BY <1>4
<1>6. <<b, a>> \in R
  BY <1>5 DEF Orders
<1>7. Before(b) \subseteq Before(a) /\ b \in Before(a) /\ b \notin Before(b)
  BY <1>6 DEF Orders
<1>8. <<Before(b), Before(a)>> \in StrictSubsetOrdering(S)
  BY <1>7 DEF StrictSubsetOrdering
<1> QED BY <1>3, <1>4, <1>8

\* Taking an alias out of the order, or to its end, leaves an order.
LEMMA WithoutOrders ==
  ASSUME Orders(order, Cached), NEW a PROVE Orders(Without(a), Cached \ {a})
  BY DEF Orders, Without

LEMMA TouchedOrders ==
  ASSUME Orders(order, Cached), NEW a \in Aliases PROVE Orders(Touched(a), Cached \cup {a})
<1>1. Orders(Without(a), Cached \ {a})
  BY WithoutOrders
<1>2. Touched(a) \subseteq (Cached \cup {a}) \X (Cached \cup {a})
  BY <1>1 DEF Orders, Touched
<1>3. \A b \in Cached \ {a} : <<b, a>> \in Touched(a) /\ <<a, b>> \notin Touched(a)
  BY <1>1 DEF Orders, Touched
<1>4. <<a, a>> \notin Touched(a)
  BY <1>1 DEF Orders, Touched
<1>5. \A b, c \in Cached \ {a} : <<b, c>> \in Touched(a) <=> <<b, c>> \in Without(a)
  BY DEF Touched
<1> DEFINE S == Cached \cup {a}
<1>6. \A b, c \in S : b # c => <<b, c>> \in Touched(a) \/ <<c, b>> \in Touched(a)
  <2> SUFFICES ASSUME NEW b \in S, NEW c \in S, b # c
               PROVE  <<b, c>> \in Touched(a) \/ <<c, b>> \in Touched(a)
    OBVIOUS
  <2>1. CASE a \in {b, c}
    BY <1>3, <2>1
  <2>2. CASE a \notin {b, c}
    BY <1>1, <1>5, <2>2 DEF Orders
  <2> QED BY <2>1, <2>2
<1>7. \A b, c \in S : <<b, c>> \in Touched(a) => <<c, b>> \notin Touched(a)
  BY <1>1, <1>3, <1>4, <1>5 DEF Orders
<1>8. \A b, c, d \in S :
        <<b, c>> \in Touched(a) /\ <<c, d>> \in Touched(a) => <<b, d>> \in Touched(a)
  BY <1>1, <1>3, <1>4, <1>5 DEF Orders
<1> QED BY <1>2, <1>6, <1>7, <1>8 DEF Orders

LEMMA OrderStep ==
  ASSUME TypeOK, Orders(order, Cached), [Next]_vars PROVE Orders(order, Cached)'
<1> USE RegistryAssumption
<1>1. ASSUME NEW a \in Aliases, order' = Touched(a), Cached' = Cached \cup {a}
      PROVE  Orders(order, Cached)'
  BY <1>1, TouchedOrders
<1>2. ASSUME NEW r \in Actors, NEW a \in Aliases, Pop(r, a) PROVE Orders(order, Cached)'
  <2>1. order' = Without(a) /\ Cached' = Cached \ {a}
    BY <1>2 DEF TypeOK, Pop, Cached
  <2> QED BY <2>1, WithoutOrders
<1>3. ASSUME UNCHANGED <<contexts, order>> PROVE Orders(order, Cached)'
  BY <1>3 DEF Cached
<1>4. ASSUME NEW c \in Clients, NEW a \in Aliases, Hit(c, a) PROVE Orders(order, Cached)'
  BY <1>1, <1>4 DEF Hit, Cached
<1>5. ASSUME NEW c \in Clients, NEW a \in Aliases, Miss(c, a) PROVE Orders(order, Cached)'
  BY <1>2, <1>3, <1>5 DEF Miss, Actors, cache
<1>6. ASSUME NEW c \in Clients, Loaded(c) PROVE Orders(order, Cached)'
  <2>1. want[c] \in Aliases /\ order' = Touched(want[c])
    BY <1>6 DEF TypeOK, Loaded, Actors
  <2>2. made + 1 # NoContext /\ contexts' = [contexts EXCEPT ![want[c]] = made + 1]
    BY <1>6 DEF TypeOK, Loaded
  <2>3. Cached' = Cached \cup {want[c]}
    BY <2>1, <2>2 DEF TypeOK, Cached
  <2> QED BY <1>1, <2>1, <2>3
<1>7. ASSUME NEW a \in Aliases, CloseNext(a) PROVE Orders(order, Cached)'
  BY <1>2, <1>7 DEF CloseNext, Actors
<1>8. ASSUME NEW c \in Clients, LoadFails(c) \/ Cancel(c) PROVE Orders(order, Cached)'
  BY <1>3, <1>8 DEF LoadFails, Cancel, cache
<1>9. ASSUME NEW r \in Actors, Unloaded(r) \/ Disposed(r) PROVE Orders(order, Cached)'
  BY <1>3, <1>9 DEF Unloaded, Disposed, cache
<1>10. ASSUME NEW x \in Contexts, TaskEnds(x) PROVE Orders(order, Cached)'
  BY <1>3, <1>10 DEF TaskEnds
<1>11. CASE Close \/ Closed \/ UNCHANGED vars
  BY <1>3, <1>11 DEF Close, Closed, vars, cache
<1> QED BY <1>4, <1>5, <1>6, <1>7, <1>8, <1>9, <1>10, <1>11 DEF Next

LEMMA OrderInvariant == Spec => []Orders(order, Cached)
<1>1. Init => Orders(order, Cached)
  BY DEF Init, Orders, Cached
<1> QED BY <1>1, OrderStep, RegistryTypeCorrect, PTL DEF Spec

\* Whenever the cap is reached there is exactly one alias to evict, and never the
\* default: the access times that get and _dispose_context keep always single it out,
\* so a miss at the cap evicts and goes on.
THEOREM EvictionFindsVictim ==
  Spec => [](AtCapacity => \E a \in Aliases \ {Default} :
                             Lru(a) /\ \A b \in Aliases : Lru(b) => b = a)
<1>1. ASSUME TypeOK, Orders(order, Cached), AtCapacity
      PROVE  \E a \in Aliases \ {Default} : Lru(a) /\ \A b \in Aliases : Lru(b) => b = a
  <2>1. IsFiniteSet(Cached) /\ Evictable \in SUBSET Cached
    BY RegistryAssumption, FS_Subset DEF Cached, Evictable
  <2>2. Evictable # {}
    BY <1>1, RegistryAssumption, FS_EmptySet DEF AtCapacity
  <2>3. PICK a \in Evictable : \A b \in Evictable \ {a} : <<a, b>> \in order
    BY <1>1, <2>1, <2>2, FirstElement
  <2>4. a \in Aliases \ {Default} /\ Lru(a)
    BY <2>3 DEF Evictable, Cached, Lru
  <2>5. ASSUME NEW b \in Aliases, Lru(b), b # a PROVE FALSE
    <3>1. <<a, b>> \in order /\ <<b, a>> \in order /\ {a, b} \subseteq Cached
      BY <2>3, <2>5 DEF Lru, Evictable
    <3> QED BY <1>1, <3>1 DEF Orders
  <2> QED BY <2>4, <2>5
<1> QED BY <1>1, OrderInvariant, RegistryTypeCorrect, PTL
=============================================================================
