-------------------------- MODULE InitResumeProofs --------------------------
(***************************************************************************)
(* What holds of `repowise init` for every set of pages, every history of   *)
(* edits and any number of runs, kills and failed writes: the ledger is     *)
(* backed by the database, --resume skips nothing that was not written, and *)
(* the page rows change as WikiPages promises.                              *)
(***************************************************************************)
EXTENDS InitResume, TLAPS

-----------------------------------------------------------------------------
(* Types.                                                                    *)

\* What a process that has not started remembers is well typed.
LEMMA FreshTypes ==
  /\ [ph \in Phases |-> NoVersion] \in [Phases -> Versions \cup {NoVersion}]
  /\ [p \in Pages |-> "none"] \in [Pages -> Outcome]
  /\ [p \in Pages |-> "none"] \in [Pages -> Row]
  /\ 1 \in 1 .. Levels
  /\ 0 \in 0 .. MaxRuns /\ 0 \in 0 .. MaxFaults /\ 0 \in Versions
  /\ "idle" \in Stage /\ "index" \in Phases
<1>1. "none" \in Outcome /\ "none" \in Row /\ "idle" \in Stage /\ "index" \in Phases
  BY DEF Outcome, Row, Stage, Phases
<1>2. /\ 1 \in 1 .. Levels
      /\ 0 \in 0 .. MaxRuns /\ 0 \in 0 .. MaxFaults /\ 0 \in Versions
  BY InitAssumption DEF Versions
<1>3. [ph \in Phases |-> NoVersion] \in [Phases -> Versions \cup {NoVersion}]
  OBVIOUS
<1> QED BY <1>1, <1>2, <1>3

LEMMA TypeInit == Init => TypeOK
  BY FreshTypes DEF Init, TypeOK

\* Nothing is left of a run that ends.
LEMMA ExitTypes ==
  ASSUME TypeOK, Exit, rows' \in [Pages -> Row], vectors' \subseteq Pages,
         fts' \subseteq Pages, UNCHANGED <<stored, completed>>,
         docsMode' \in {"none", "llm", "deterministic"}, unwritten' \subseteq Pages,
         faults' \in 0 .. MaxFaults
  PROVE  TypeOK'
  BY FreshTypes DEF Exit, TypeOK

LEMMA FaultTypes == ASSUME TypeOK, Fault PROVE faults' \in 0 .. MaxFaults
  BY InitAssumption DEF TypeOK, Fault

LEMMA SetTypes ==
  ASSUME TypeOK
  PROVE  /\ Planned \subseteq Pages
         /\ Preserved \subseteq Pages
         /\ Wave \subseteq Pages
         /\ ToEmbed \subseteq Pages
         /\ Produced \subseteq Pages
         /\ Stale \subseteq Pages
         /\ ToIndex \subseteq Pages
<1>1. Planned \subseteq Pages
  BY InitAssumption DEF TypeOK, Planned, Versions, Phases
<1> QED BY <1>1, InitAssumption
        DEF TypeOK, Preserved, Wave, ToEmbed, Produced, Stale, ToIndex

LEMMA TypeStep == ASSUME TypeOK, [Next]_vars PROVE TypeOK'
<1> USE InitAssumption, FaultTypes, SetTypes
    DEF TypeOK, Phases, Stage, Indexing, Draining, Persisting, Outcome, Row, Versions,
        pageStore, plan, phasing, writing, budget
<1>1. CASE Edit
  BY <1>1 DEF Edit
<1>2. ASSUME NEW m \in Modes, NEW r \in BOOLEAN, StartRun(m, r) PROVE TypeOK'
  BY <1>2 DEF StartRun
<1>3. CASE Skip
  BY <1>3 DEF Skip, NextPhase
<1>4. CASE SkipFails
  BY <1>4 DEF SkipFails
<1>5. CASE Compute
  BY <1>5 DEF Compute
<1>6. CASE StorePhase
  BY <1>6 DEF StorePhase
<1>7. CASE StoreFails
  BY <1>7 DEF StoreFails, NextPhase
<1>8. CASE MarkCompleted
  BY <1>8 DEF MarkCompleted, NextPhase
<1>9. CASE Seed
  BY <1>9 DEF Seed
<1>10. ASSUME NEW p \in Pages,
              \/ PageWritten(p) \/ PageReused(p) \/ PageFailed(p)
              \/ PageRendered(p) \/ PageRaises(p)
       PROVE  TypeOK'
  <2>1. PICK outcome \in {"prose", "reused", "failed", "stub", "raised"} : Finish(p, outcome)
    BY <1>10 DEF PageWritten, PageReused, PageFailed, PageRendered, PageRaises
  <2> QED BY <2>1 DEF Finish
<1>11. ASSUME NEW p \in Pages, Flush(p) PROVE TypeOK'
  BY <1>11 DEF Flush, Upsert
<1>12. ASSUME NEW p \in Pages, FlushFails(p) PROVE TypeOK'
  BY <1>12 DEF FlushFails
<1>13. ASSUME NEW ps \in SUBSET Pages, EmbedWave(ps) PROVE TypeOK'
  BY <1>13 DEF EmbedWave
<1>14. ASSUME NEW ps \in SUBSET Pages, EmbedCut(ps) \/ SearchCut(ps) PROVE TypeOK'
  BY <1>14, ExitTypes DEF EmbedCut, SearchCut
<1>15. CASE Drained \/ DrainTimeout
  <2>1. CASE pc = "unwind"
    BY <1>15, <2>1, ExitTypes DEF Drained, DrainTimeout, DrainEnds
  <2>2. CASE pc # "unwind"
    BY <1>15, <2>2 DEF Drained, DrainTimeout, DrainEnds
  <2> QED BY <2>1, <2>2
<1>16. CASE Interrupt
  BY <1>16 DEF Interrupt
<1>17. CASE Sweep
  BY <1>17 DEF Sweep
<1>18. CASE Commit
  BY <1>18 DEF Commit, Upsert
<1>19. CASE CommitFails
  BY <1>19, ExitTypes DEF CommitFails
<1>20. CASE IndexForSearch
  BY <1>20 DEF IndexForSearch
<1>21. CASE StampAnalysis
  BY <1>21 DEF StampAnalysis
<1>22. CASE SaveState
  BY <1>22, ExitTypes DEF SaveState
<1>23. CASE Kill
  BY <1>23, ExitTypes DEF Kill
<1>24. CASE UNCHANGED vars
  BY <1>24 DEF vars
<1> QED BY <1>1, <1>2, <1>3, <1>4, <1>5, <1>6, <1>7, <1>8, <1>9, <1>10, <1>11, <1>12,
          <1>13, <1>14, <1>15, <1>16, <1>17, <1>18, <1>19, <1>20, <1>21, <1>22, <1>23,
          <1>24 DEF Next

\* Every variable keeps its type, whatever fails and whenever the run is killed.
THEOREM InitTypeCorrect == Spec => []TypeOK
  BY TypeInit, TypeStep, PTL DEF Spec

-----------------------------------------------------------------------------
(* The ledger.                                                               *)

\* Behind LedgerBacked: what is skipped was completed, what is marked or saved
\* was stored, and what is stored was computed or rehydrated first.
PhaseInv ==
  /\ skippable \subseteq completed
  /\ \A ph \in skipped : stored[ph] # NoVersion
  /\ pc \in {"store", "mark"} => held[phase] # NoVersion
  /\ phase = "analysis" \/ pc \notin {"idle"} \cup Indexing => held["index"] # NoVersion
  /\ pc \notin {"idle"} \cup Indexing => held["analysis"] # NoVersion
  /\ pc = "mark" => stored[phase] # NoVersion
  /\ pc \in {"search", "stamp"} => stored["analysis"] # NoVersion

\* The steps that touch no phase.
GenerationStep ==
  \/ Seed
  \/ \E p \in Pages : PageStep(p) \/ Flush(p) \/ FlushFails(p)
  \/ \E ps \in SUBSET Pages : EmbedWave(ps)
  \/ (pc = "drain" /\ DrainEnds)
  \/ Interrupt \/ Sweep

\* The steps that end a run.
EndStep ==
  \/ \E ps \in SUBSET Pages : EmbedCut(ps) \/ SearchCut(ps)
  \/ (pc = "unwind" /\ DrainEnds)
  \/ CommitFails \/ SaveState \/ Kill

IndexingStep ==
  Skip \/ SkipFails \/ Compute \/ StorePhase \/ StoreFails \/ MarkCompleted

\* Every step is of one of these kinds, or one of five others.
LEMMA StepKinds ==
  ASSUME Next
  PROVE  \/ Edit
         \/ \E m \in Modes, r \in BOOLEAN : StartRun(m, r)
         \/ IndexingStep \/ GenerationStep \/ EndStep
         \/ Commit \/ IndexForSearch \/ StampAnalysis
  BY DEF Next, IndexingStep, GenerationStep, EndStep, PageStep, Drained, DrainTimeout,
         Draining

LEMMA EndFacts ==
  ASSUME EndStep
  PROVE  /\ Exit
         /\ UNCHANGED <<stored, completed, rows>>
         /\ vectors' \in {vectors} \cup {vectors \cup ps : ps \in SUBSET ToEmbed}
         /\ vectors' # vectors => pc = "pages"
         /\ unwritten' = unwritten \/ unwritten' = unwritten \cup queue
         /\ unwritten' = unwritten
              => pc \in {"search", "commit", "save"} \/ queue \subseteq unwritten
  BY DEF EndStep, EmbedCut, SearchCut, DrainEnds, CommitFails, SaveState, Kill, pageStore, Exit

LEMMA GenerationFacts ==
  ASSUME GenerationStep
  PROVE  /\ pc \in {"load", "pages", "drain", "unwind", "sweep"}
         /\ pc' \in {"pages", "drain", "unwind", "sweep", "commit"}
         /\ UNCHANGED <<head, stored, completed, phase, skipped, onDisk, held,
                        mode, resume, skippable, docsMode, fts>>
  BY DEF GenerationStep, PageStep, PageWritten, PageReused, PageFailed, PageRendered,
         PageRaises, Finish, Seed, Flush, FlushFails, EmbedWave, DrainEnds, Interrupt,
         Sweep, Draining, pageStore, plan, phasing

LEMMA LedgerStep ==
  ASSUME TypeOK, PhaseInv, LedgerBacked, [Next]_vars
  PROVE  PhaseInv' /\ LedgerBacked'
<1> USE DEF TypeOK, PhaseInv, LedgerBacked, Phases, Indexing, pageStore, plan,
            phasing, writing, budget
<1>1. CASE Edit
  BY <1>1 DEF Edit
<1>2. ASSUME NEW m \in Modes, NEW r \in BOOLEAN, StartRun(m, r)
      PROVE  PhaseInv' /\ LedgerBacked'
  BY <1>2 DEF StartRun
<1>3. CASE Skip
  BY <1>3 DEF Skip, NextPhase, CanSkip
<1>4. CASE SkipFails
  BY <1>4 DEF SkipFails
<1>5. CASE Compute
  BY <1>5, InitAssumption DEF Compute, Versions
<1>6. CASE StorePhase
  BY <1>6 DEF StorePhase
<1>7. CASE StoreFails
  BY <1>7 DEF StoreFails, NextPhase
<1>8. CASE MarkCompleted
  BY <1>8 DEF MarkCompleted, NextPhase
<1>9. CASE GenerationStep
  <2>1. /\ pc \in {"load", "pages", "drain", "unwind", "sweep"}
        /\ pc' \in {"pages", "drain", "unwind", "sweep", "commit"}
        /\ UNCHANGED <<head, stored, completed, phase, skipped, onDisk, held, resume,
                       skippable>>
    BY <1>9, GenerationFacts
  <2> QED BY <2>1
<1>10. CASE EndStep
  BY <1>10, EndFacts DEF Exit
<1>11. CASE Commit
  BY <1>11 DEF Commit
<1>12. CASE IndexForSearch
  BY <1>12 DEF IndexForSearch
<1>13. CASE StampAnalysis
  BY <1>13 DEF StampAnalysis
<1>14. CASE UNCHANGED vars
  BY <1>14 DEF vars
<1> QED BY <1>1, <1>2, <1>3, <1>4, <1>5, <1>6, <1>7, <1>8, <1>9, <1>10, <1>11, <1>12,
          <1>13, <1>14, StepKinds DEF IndexingStep

\* A phase that --resume may skip was persisted by a run that completed it: the
\* ledger is never ahead of the database.
THEOREM LedgerIsBacked == Spec => []LedgerBacked
<1>1. Init => PhaseInv /\ LedgerBacked
  BY DEF Init, PhaseInv, LedgerBacked, Indexing
<1> QED BY <1>1, InitTypeCorrect, LedgerStep, PTL DEF Spec

-----------------------------------------------------------------------------
(* A run without --resume.                                                   *)

\* Behind FreshRunSyncs: such a run skips nothing, so that it works on its own
\* index, and takes it for persisted only once it is.
FreshInv ==
  /\ pc = "idle" => ~ onDisk /\ phase = "index"
  /\ pc # "idle" /\ ~ resume =>
       /\ skippable = {}
       /\ phase = "analysis" \/ pc \notin {"decide", "compute"} => held["index"] = head
       /\ onDisk \/ pc \in {"search", "stamp", "save"} => stored["index"] = head

LEMMA FreshStep ==
  ASSUME TypeOK, FreshInv, [Next]_vars
  PROVE  FreshInv'
<1> USE DEF TypeOK, FreshInv, Phases, pageStore, plan, phasing, writing, budget
<1>1. CASE Edit
  BY <1>1 DEF Edit
<1>2. ASSUME NEW m \in Modes, NEW r \in BOOLEAN, StartRun(m, r) PROVE FreshInv'
  BY <1>2 DEF StartRun
<1>3. CASE Skip
  BY <1>3 DEF Skip, NextPhase, CanSkip
<1>4. CASE SkipFails
  BY <1>4 DEF SkipFails, CanSkip
<1>5. CASE Compute
  BY <1>5 DEF Compute
<1>6. CASE StorePhase
  BY <1>6 DEF StorePhase
<1>7. CASE StoreFails
  BY <1>7 DEF StoreFails, NextPhase
<1>8. CASE MarkCompleted
  BY <1>8 DEF MarkCompleted, NextPhase
<1>9. CASE GenerationStep
  <2>1. /\ pc \in {"load", "pages", "drain", "unwind", "sweep"}
        /\ pc' \in {"pages", "drain", "unwind", "sweep", "commit"}
        /\ UNCHANGED <<head, stored, completed, phase, skipped, onDisk, held, resume,
                       skippable>>
    BY <1>9, GenerationFacts
  <2> QED BY <2>1
<1>10. CASE EndStep
  BY <1>10, EndFacts DEF Exit
<1>11. CASE Commit
  BY <1>11 DEF Commit
<1>12. CASE IndexForSearch
  BY <1>12 DEF IndexForSearch
<1>13. CASE StampAnalysis
  BY <1>13 DEF StampAnalysis
<1>14. CASE UNCHANGED vars
  BY <1>14 DEF vars
<1> QED BY <1>1, <1>2, <1>3, <1>4, <1>5, <1>6, <1>7, <1>8, <1>9, <1>10, <1>11, <1>12,
          <1>13, <1>14, StepKinds DEF IndexingStep

\* Without --resume a run that reaches its end leaves the index of the sources
\* it saw, though any number of its checkpoints failed.
THEOREM FreshRunsSync == Spec => []FreshRunSyncs
<1>1. Init => FreshInv
  BY DEF Init, FreshInv
<1>2. FreshInv => FreshRunSyncs
  BY DEF FreshInv, FreshRunSyncs
<1> QED BY <1>1, <1>2, InitTypeCorrect, FreshStep, PTL DEF Spec

-----------------------------------------------------------------------------
(* Pages.                                                                    *)

\* Where a page's outcome comes from, and what follows from it.
OutcomeInv ==
  /\ pc \in {"idle", "load"} \cup Indexing => \A p \in Pages : out[p] = "none"
  /\ \A p \in Pages :
       /\ out[p] # "none" => p \in Planned \ done
       /\ out[p] \in {"prose", "reused", "failed"} => mode = "llm" /\ p \notin Templates
       /\ out[p] = "stub" => mode = "deterministic" \/ p \in Templates
       /\ out[p] = "reused" => rows[p] = "prose"
  /\ \A p \in Templates : rows[p] # "prose"

\* The flush has pages of this run only, and only until the drain has ended.
QueueInv ==
  /\ \A p \in queue : out[p] \notin {"none", "raised"}
  /\ queue # {} => pc \in {"pages", "drain", "unwind"}

\* A finished wave has no page without an outcome.
WaveInv ==
  /\ pc \in {"idle", "load"} \cup Indexing => level = 1
  /\ pc = "pages" => \A p \in Planned \ done : LevelOf[p] < level => out[p] # "none"
  /\ pc \in {"drain"} \cup Persisting => \A p \in Planned \ done : out[p] # "none"

\* The sweep spares what the run produced or skipped, and takes the vectors
\* along.
SweepInv ==
  pc \in {"commit", "search"} =>
    /\ swept \cap (Produced \cup Preserved \cup vectors) = {}
    /\ swept \subseteq Keyed

PageInv == OutcomeInv /\ QueueInv /\ WaveInv /\ SweepInv

LEMMA PageInit == Init => PageInv
  BY InitAssumption
  DEF Init, PageInv, OutcomeInv, QueueInv, WaveInv, SweepInv, Indexing, Persisting

\* No page outlives its run.
LEMMA PageExit ==
  ASSUME TypeOK, PageInv, Exit, UNCHANGED rows
  PROVE  PageInv'
  BY DEF PageInv, OutcomeInv, QueueInv, WaveInv, SweepInv, Exit, Persisting, TypeOK

LEMMA PlannedStays == ASSUME UNCHANGED <<head, held>> PROVE Planned' = Planned
  BY DEF Planned

\* The steps before generation do not touch pages.
LEMMA PageEarly ==
  ASSUME TypeOK, PageInv,
         \/ Edit
         \/ \E m \in Modes, r \in BOOLEAN : StartRun(m, r)
         \/ IndexingStep
  PROVE  PageInv'
<1>1. pc \in {"idle"} \cup Indexing /\ pc' \in {"idle", "load"} \cup Indexing
  BY DEF Edit, StartRun, IndexingStep, Skip, SkipFails, Compute, StorePhase, StoreFails,
         MarkCompleted, NextPhase, Indexing
<1>2. UNCHANGED <<out, rows, queue, level>>
  BY DEF Edit, StartRun, IndexingStep, Skip, SkipFails, Compute, StorePhase, StoreFails,
         MarkCompleted, writing, pageStore
<1> QED BY <1>1, <1>2
        DEF PageInv, OutcomeInv, QueueInv, WaveInv, SweepInv, Indexing, Persisting, TypeOK

\* A page is finished once, in its wave.
LEMMA PageFinish ==
  ASSUME TypeOK, PageInv, NEW p \in Pages, PageStep(p)
  PROVE  PageInv'
<1>1. PICK outcome \in {"prose", "reused", "failed", "stub", "raised"} :
        /\ Finish(p, outcome)
        /\ outcome \in {"prose", "reused", "failed"} => mode = "llm" /\ p \notin Templates
        /\ outcome = "stub" => mode = "deterministic" \/ p \in Templates
        /\ outcome = "reused" => rows[p] = "prose"
  BY DEF PageStep, PageWritten, PageReused, PageFailed, PageRendered, PageRaises, ByModel,
         TypeOK
<1>2. Planned' = Planned /\ p \in Planned \ done
  BY <1>1, PlannedStays DEF Finish, phasing, Wave
<1>3. /\ out' = [out EXCEPT ![p] = outcome]
      /\ queue' = IF outcome = "raised" THEN queue ELSE queue \cup {p}
      /\ UNCHANGED <<rows, mode, done, level, pc>>
      /\ pc = "pages" /\ out[p] = "none"
  BY <1>1 DEF Finish, pageStore, plan, writing
<1> QED BY <1>1, <1>2, <1>3
        DEF PageInv, OutcomeInv, QueueInv, WaveInv, SweepInv, Indexing, Persisting, TypeOK

\* The flush never leaves prose for a file page, nor a stub for a reused one.
LEMMA PageFlush ==
  ASSUME TypeOK, PageInv, NEW p \in Pages, Flush(p) \/ FlushFails(p)
  PROVE  PageInv'
<1>1. Planned' = Planned
  BY PlannedStays DEF Flush, FlushFails, phasing
<1>2. /\ p \in queue /\ queue' = queue \ {p}
      /\ rows' = rows \/ rows' = [rows EXCEPT ![p] = Upsert(rows[p], out[p])]
      /\ UNCHANGED <<mode, done, level, out, pc>>
      /\ pc \in {"pages", "drain", "unwind"}
  BY DEF Flush, FlushFails, pageStore, plan, writing, Draining
<1>3. \A q \in Pages : rows'[q] # rows[q] => q = p /\ rows'[q] = Upsert(rows[p], out[p])
  BY <1>2 DEF TypeOK
<1>4. OutcomeInv'
  BY <1>1, <1>2, <1>3, InitAssumption DEF PageInv, OutcomeInv, QueueInv, Indexing, Upsert
<1> QED BY <1>1, <1>2, <1>4 DEF PageInv, QueueInv, WaveInv, SweepInv, Persisting

LEMMA PageRest ==
  ASSUME TypeOK, PageInv,
         \/ Seed \/ (\E ps \in SUBSET Pages : EmbedWave(ps))
         \/ (pc = "drain" /\ DrainEnds) \/ Interrupt \/ Sweep
         \/ Commit \/ IndexForSearch \/ StampAnalysis
  PROVE  PageInv'
<1> USE InitAssumption
    DEF PageInv, OutcomeInv, QueueInv, WaveInv, SweepInv, Indexing, Persisting, TypeOK,
        pageStore, plan, phasing, writing
<1>1. Planned' = Planned
  <2>1. head' = head /\ held' = held
    BY DEF Seed, EmbedWave, DrainEnds, Interrupt, Sweep, Commit, IndexForSearch,
           StampAnalysis
  <2> QED BY <2>1, PlannedStays
<1>2. CASE Seed
  <2>1. \A p \in Planned : LevelOf[p] \in 1 .. Levels
    BY SetTypes
  <2> QED BY <1>1, <1>2, <2>1 DEF Seed
<1>3. ASSUME NEW ps \in SUBSET Pages, EmbedWave(ps) PROVE PageInv'
  <2>1. \A p \in Planned \ done : LevelOf[p] <= level => out[p] # "none"
    BY <1>3, SetTypes DEF EmbedWave, Wave
  <2>2. \A p \in Planned : LevelOf[p] \in 1 .. Levels
    BY SetTypes
  <2> QED BY <1>1, <1>3, <2>1, <2>2 DEF EmbedWave
<1>4. CASE pc = "drain" /\ DrainEnds
  BY <1>1, <1>4 DEF DrainEnds
<1>5. CASE Interrupt
  BY <1>1, <1>5 DEF Interrupt
<1>6. CASE Sweep
  BY <1>1, <1>6 DEF Sweep, Stale, Produced, Preserved
<1>7. CASE Commit
  BY <1>1, <1>7 DEF Commit, Produced, Preserved, Upsert
<1>8. CASE IndexForSearch
  BY <1>1, <1>8 DEF IndexForSearch
<1>9. CASE StampAnalysis
  BY <1>1, <1>9 DEF StampAnalysis
<1> QED BY <1>2, <1>3, <1>4, <1>5, <1>6, <1>7, <1>8, <1>9

LEMMA PageInvStep == ASSUME TypeOK, PageInv, [Next]_vars PROVE PageInv'
<1>1. CASE UNCHANGED vars
  BY <1>1 DEF vars, PageInv, OutcomeInv, QueueInv, WaveInv, SweepInv, Planned, Produced,
              Preserved
<1>2. CASE EndStep
  BY <1>2, EndFacts, PageExit
<1>3. CASE GenerationStep
  BY <1>3, PageFinish, PageFlush, PageRest DEF GenerationStep
<1> QED BY <1>1, <1>2, <1>3, StepKinds, PageEarly, PageRest

LEMMA PageInvariance == Spec => [](TypeOK /\ PageInv)
  BY PageInit, PageInvStep, InitTypeCorrect, PTL DEF Spec

-----------------------------------------------------------------------------
(* What --resume skips.                                                      *)

\* Behind SkippedIsWritten: what a page of this run owes to the row it will
\* have.
OwedInv ==
  \A p \in Pages \ Templates :
    /\ out[p] = "prose" => p \in queue \/ rows[p] = "prose" \/ p \in unwritten
    /\ out[p] = "stub" => p \in unwritten
    /\ out[p] = "failed" /\ p \in vectors => rows[p] = "prose" \/ p \in unwritten

WrittenInv == SkippedIsWritten /\ OwedInv

\* A page gets its outcome while it is not queued, and is queued with it.
LEMMA WrittenFinish ==
  ASSUME TypeOK, PageInv, WrittenInv, NEW p \in Pages, PageStep(p)
  PROVE  WrittenInv'
<1>1. PICK outcome \in {"prose", "reused", "failed", "stub", "raised"} :
        /\ Finish(p, outcome)
        /\ outcome = "reused" => rows[p] = "prose"
  BY DEF PageStep, PageWritten, PageReused, PageFailed, PageRendered, PageRaises
<1>2. /\ out' = [out EXCEPT ![p] = outcome] /\ out[p] = "none"
      /\ queue' = IF outcome = "raised" THEN queue ELSE queue \cup {p}
      /\ unwritten' = IF outcome = "stub" /\ p \notin Templates THEN unwritten \cup {p}
                      ELSE unwritten
      /\ rows' = rows /\ vectors' = vectors
  BY <1>1 DEF Finish, pageStore
<1>3. p \notin queue
  BY <1>2 DEF PageInv, QueueInv
<1> QED BY <1>2, <1>3 DEF WrittenInv, OwedInv, SkippedIsWritten, TypeOK

LEMMA WrittenFlush ==
  ASSUME TypeOK, PageInv, WrittenInv, NEW p \in Pages, Flush(p) \/ FlushFails(p)
  PROVE  WrittenInv'
<1>1. CASE FlushFails(p)
  BY <1>1 DEF FlushFails, pageStore, writing, WrittenInv, OwedInv, SkippedIsWritten, TypeOK
<1>2. CASE Flush(p)
  <2>1. /\ \A q \in Pages : q # p => rows'[q] = rows[q]
        /\ rows'[p] = Upsert(rows[p], out[p])
        /\ out[p] \in {"prose", "reused", "stub", "failed"}
        /\ queue' = queue \ {p} /\ out' = out /\ vectors' = vectors
        /\ unwritten' = IF rows'[p] = "prose" THEN unwritten \ {p} ELSE unwritten
    BY <1>2 DEF Flush, writing, TypeOK, PageInv, QueueInv, Outcome
  <2>2. OwedInv'
    BY <2>1 DEF WrittenInv, OwedInv, Upsert
  <2>3. SkippedIsWritten'
    BY <2>1 DEF WrittenInv, OwedInv, SkippedIsWritten, Upsert, TypeOK
  <2> QED BY <2>2, <2>3 DEF WrittenInv
<1> QED BY <1>1, <1>2

LEMMA WrittenEnd ==
  ASSUME TypeOK, PageInv, WrittenInv, EndStep
  PROVE  WrittenInv'
<1>1. OwedInv'
  BY EndFacts DEF OwedInv, Exit, TypeOK
<1>2. queue \subseteq unwritten' /\ unwritten \subseteq unwritten'
  BY EndFacts DEF PageInv, QueueInv
<1>3. \A p \in vectors' \ vectors : out[p] \in {"prose", "stub"} /\ p \in Pages
  BY EndFacts, SetTypes DEF ToEmbed
<1> QED BY <1>1, <1>2, <1>3, EndFacts DEF WrittenInv, OwedInv, SkippedIsWritten, TypeOK, Exit

LEMMA WrittenCommit ==
  ASSUME TypeOK, PageInv, WrittenInv, Commit
  PROVE  WrittenInv'
<1>1. /\ queue = {} /\ queue' = {} /\ out' = out /\ vectors' = vectors
      /\ unwritten' = {p \in unwritten : rows'[p] # "prose"}
      /\ \A p \in Pages :
           rows'[p] = IF p \in Produced THEN Upsert(rows[p], out[p])
                      ELSE IF p \in swept THEN "none" ELSE rows[p]
      /\ swept \cap vectors = {}
  BY DEF Commit, writing, PageInv, QueueInv, SweepInv
<1>2. OwedInv'
  BY <1>1 DEF WrittenInv, OwedInv, Upsert, Produced
<1>3. \A p \in vectors \ (Templates \cup unwritten) : rows'[p] = "prose"
  <2> SUFFICES ASSUME NEW p \in vectors \ (Templates \cup unwritten)
               PROVE  rows'[p] = "prose"
    OBVIOUS
  <2>1. p \in Pages /\ rows[p] = "prose" /\ out[p] # "stub"
    BY <1>1 DEF WrittenInv, OwedInv, SkippedIsWritten, TypeOK
  <2>2. p \in Produced => out[p] \in {"prose", "reused", "failed"}
    BY <2>1 DEF Produced, TypeOK, Outcome
  <2> QED BY <1>1, <2>1, <2>2 DEF Upsert
<1>4. SkippedIsWritten'
  BY <1>1, <1>3 DEF SkippedIsWritten
<1> QED BY <1>2, <1>4 DEF WrittenInv

LEMMA WrittenRest ==
  ASSUME TypeOK, PageInv, WrittenInv,
         \/ Edit
         \/ \E m \in Modes, r \in BOOLEAN : StartRun(m, r)
         \/ IndexingStep \/ Seed \/ Interrupt \/ Sweep
         \/ (pc = "drain" /\ DrainEnds)
         \/ IndexForSearch \/ StampAnalysis
  PROVE  WrittenInv'
<1>1. /\ rows' = rows /\ out' = out /\ vectors' \subseteq vectors
      /\ unwritten \subseteq unwritten'
      /\ queue' = queue \/ queue \subseteq unwritten'
  BY DEF Edit, StartRun, IndexingStep, Skip, SkipFails, Compute, StorePhase, StoreFails,
         MarkCompleted, Seed, Interrupt, Sweep, DrainEnds, IndexForSearch, StampAnalysis,
         pageStore, writing
<1> QED BY <1>1 DEF WrittenInv, OwedInv, SkippedIsWritten

LEMMA WrittenStep ==
  ASSUME TypeOK, PageInv, WrittenInv, [Next]_vars
  PROVE  WrittenInv'
<1>1. CASE UNCHANGED vars
  BY <1>1 DEF vars, WrittenInv, OwedInv, SkippedIsWritten
<1>2. ASSUME NEW ps \in SUBSET Pages, EmbedWave(ps) PROVE WrittenInv'
  <2>1. /\ UNCHANGED <<rows, out, queue, unwritten>> /\ vectors' = vectors \cup ps
        /\ \A p \in ps : out[p] \in {"prose", "stub"}
    BY <1>2 DEF EmbedWave, writing, ToEmbed
  <2> QED BY <2>1 DEF WrittenInv, OwedInv, SkippedIsWritten, TypeOK
<1>3. CASE GenerationStep
  BY <1>2, <1>3, WrittenFinish, WrittenFlush, WrittenRest DEF GenerationStep
<1> QED BY <1>1, <1>3, StepKinds, WrittenEnd, WrittenCommit, WrittenRest

\* What --resume finds in the vector store and skips was written by a model, is
\* about to be, or is accounted for: no page that failed is ever among it for
\* having been embedded as its own stand-in.
THEOREM SkippedPagesAreWritten == Spec => []SkippedIsWritten
<1>1. Init => WrittenInv
  BY DEF Init, WrittenInv, OwedInv, SkippedIsWritten
<1>2. WrittenInv => SkippedIsWritten
  BY DEF WrittenInv
<1> QED BY <1>1, <1>2, PageInvariance, WrittenStep, PTL DEF Spec

-----------------------------------------------------------------------------
(* Search.                                                                   *)

SearchInv ==
  pc \in {"stamp", "save"} /\ Produced # {}
    => {p \in Planned : rows[p] # "none" /\ out[p] # "raised"} \subseteq fts \cup unread

LEMMA SearchStep ==
  ASSUME TypeOK, PageInv, SearchInv, [Next]_vars
  PROVE  SearchInv'
<1>1. CASE UNCHANGED vars
  BY <1>1 DEF vars, SearchInv, Produced, Planned
<1>2. CASE IndexForSearch
  <2>1. /\ pc = "search" /\ fts' = (fts \ swept) \cup (ToIndex \ unread')
        /\ UNCHANGED <<rows, out>> /\ Planned' = Planned
    BY <1>2, PlannedStays DEF IndexForSearch, phasing
  <2>2. \A p \in Planned : out[p] # "raised" /\ rows[p] # "none"
                           => p \in Produced \cup {q \in Preserved : rows[q] # "none"}
    BY <2>1, SetTypes DEF PageInv, WaveInv, Persisting, Preserved, Produced
  <2> QED BY <2>1, <2>2 DEF SearchInv, ToIndex, Produced
<1>3. CASE StampAnalysis
  BY <1>3, PlannedStays
  DEF StampAnalysis, SearchInv, Produced, writing, phasing, pageStore
<1>4. CASE EndStep
  BY <1>4, EndFacts DEF Exit, SearchInv
<1>5. CASE GenerationStep
  BY <1>5, GenerationFacts DEF SearchInv
<1>6. CASE Edit \/ (\E m \in Modes, r \in BOOLEAN : StartRun(m, r)) \/ IndexingStep \/ Commit
  <2>1. pc' \notin {"stamp", "save"}
    BY <1>6 DEF Edit, StartRun, IndexingStep, Skip, SkipFails, Compute, StorePhase,
                StoreFails, MarkCompleted, NextPhase, Commit
  <2> QED BY <2>1 DEF SearchInv
<1> QED BY <1>1, <1>2, <1>3, <1>4, <1>5, <1>6, StepKinds

\* A run that produced pages leaves no page of its wiki out of the search: not
\* those it kept from a run that died before it indexed them either.
THEOREM SearchFindsThePages == Spec => []FtsCovers
<1>1. Init => SearchInv
  BY DEF Init, SearchInv
<1>2. SearchInv => FtsCovers
  BY DEF SearchInv, FtsCovers
<1> QED BY <1>1, <1>2, PageInvariance, SearchStep, PTL DEF Spec

-----------------------------------------------------------------------------
(* The page rows, as WikiPages has them.                                     *)

LEMMA RowStep ==
  ASSUME TypeOK, PageInv, [Next]_vars
  PROVE  [Wiki!Next]_rows
<1> USE DEF Wiki!Next, Wiki!MayBecome, Wiki!Moves, Wiki!Row, Row
<1>1. ASSUME NEW p \in Pages, Flush(p) PROVE Wiki!Next
  <2>1. /\ rows' = [rows EXCEPT ![p] = Upsert(rows[p], out[p])]
        /\ out[p] \in {"prose", "reused", "stub", "failed"} /\ pc # "idle"
        /\ out[p] = "stub" => mode = "deterministic" \/ rows[p] # "prose"
    BY <1>1 DEF Flush, TypeOK, PageInv, QueueInv, OutcomeInv, Outcome, Draining
  <2> QED BY <2>1 DEF Upsert, TypeOK
<1>2. CASE Commit
  <2>1. /\ rows' = [p \in Pages |-> IF p \in Produced THEN Upsert(rows[p], out[p])
                                    ELSE IF p \in swept THEN "none" ELSE rows[p]]
        /\ pc = "commit"
    BY <1>2 DEF Commit
  <2>2. rows' \in [Pages -> Row]
    BY <2>1 DEF Upsert, TypeOK
  <2>3. ASSUME NEW p \in Produced, rows'[p] # rows[p] PROVE Wiki!MayBecome(p, rows'[p])
    <3>1. /\ p \in Pages /\ out[p] \in {"prose", "reused", "stub", "failed"}
          /\ out[p] = "stub" => mode = "deterministic" \/ rows[p] # "prose"
      BY DEF Produced, TypeOK, Outcome, PageInv, OutcomeInv
    <3> QED BY <2>1, <2>3, <3>1 DEF Upsert, TypeOK
  <2>4. ASSUME NEW p \in swept, p \notin Produced PROVE Wiki!MayBecome(p, "none")
    <3>1. p \in Keyed /\ p \in Pages /\ p \notin Preserved
      BY <2>1 DEF PageInv, SweepInv, TypeOK
    <3>2. p \in Planned => out[p] = "raised"
      BY <2>1, <2>4, <3>1 DEF PageInv, WaveInv, Persisting, Preserved, Produced
    <3> QED BY <3>1, <3>2
  <2>5. \A p \in Pages : rows'[p] # rows[p] => Wiki!MayBecome(p, rows'[p])
    BY <2>1, <2>3, <2>4
  <2> QED BY <2>2, <2>5
<1>3. CASE GenerationStep /\ ~ (\E p \in Pages : Flush(p))
  BY <1>3 DEF GenerationStep, PageStep, PageWritten, PageReused, PageFailed, PageRendered,
          PageRaises, Finish, Seed, FlushFails, EmbedWave, DrainEnds, Interrupt, Sweep,
          pageStore
<1>4. CASE \/ Edit \/ (\E m \in Modes, r \in BOOLEAN : StartRun(m, r)) \/ IndexingStep
           \/ IndexForSearch \/ StampAnalysis
  BY <1>4 DEF Edit, StartRun, IndexingStep, Skip, SkipFails, Compute, StorePhase,
              StoreFails, MarkCompleted, IndexForSearch, StampAnalysis, pageStore
<1>5. CASE EndStep
  BY <1>5, EndFacts
<1>6. CASE UNCHANGED vars
  BY <1>6 DEF vars
<1> QED BY <1>1, <1>2, <1>3, <1>4, <1>5, <1>6, StepKinds

\* `repowise init`, killed and resumed at will, implements WikiPages: no step
\* turns prose into a stub outside a template run, none deletes the row of a page
\* the run produced or skipped.
THEOREM RowsImplementWiki == Spec => RowsFollowWiki
<1>1. Init => Wiki!Init
  BY DEF Init, Wiki!Init
<1> QED BY <1>1, PageInvariance, RowStep, PTL DEF Spec, RowsFollowWiki, Wiki!Spec
=============================================================================
