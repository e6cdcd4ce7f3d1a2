----------------------------- MODULE InitResume -----------------------------
(***************************************************************************)
(* `repowise init` on one repository, killed and resumed: the phases and    *)
(* their ledger, the page generator, the background flush of its pages, the *)
(* last persist, and the three stores a page lives in: the wiki_pages       *)
(* table, the vector store and the full-text index.                         *)
(*                                                                          *)
(* Runs follow one another; a run reads everything it needs from disk, so   *)
(* all that survives a kill is the stores, the ledger and state.json.       *)
(*                                                                          *)
(* An edit of the repository is a new version; which pages the repository   *)
(* calls for depends on the version that was indexed.  What a page says is  *)
(* abstracted to who wrote it: nobody, a template, or a model.  The vector  *)
(* store is LanceDB (it survives the process) and every run embeds with     *)
(* the same embedder.                                                       *)
(***************************************************************************)
EXTENDS Naturals

CONSTANTS
  Pages,          \* page ids
  Templates,      \* the file pages: no model ever writes one
  Keyed,          \* structurally keyed pages: swept when a run drops them
  LevelOf,        \* [Pages -> 1 .. Levels]: the wave a page is generated in
  Levels,
  CallsFor,       \* [versions of the repository -> SUBSET Pages]: the pages it calls for
  Modes,          \* the kinds of run a user makes: "llm", "deterministic"
  NoVersion,      \* nothing stored yet
  MaxEdits,       \* bound: edits of the repository
  MaxRuns,        \* bound: runs
  MaxFaults       \* bound: database writes, read-backs and embeddings that fail

ASSUME InitAssumption ==
  /\ Templates \subseteq Pages
  /\ Keyed \subseteq Pages
  /\ Levels \in Nat \ {0}
  /\ LevelOf \in [Pages -> 1 .. Levels]
  /\ Modes \subseteq {"llm", "deterministic"}
  /\ MaxEdits \in Nat
  /\ CallsFor \in [0 .. MaxEdits -> SUBSET Pages]
  /\ NoVersion \notin Nat
  /\ MaxRuns \in Nat
  /\ MaxFaults \in Nat

VARIABLES
  head,       \* the version of the repository
  \* on disk
  rows,       \* [Pages -> Row]: wiki_pages
  vectors,    \* pages in the vector store
  fts,        \* pages in page_fts
  stored,     \* [Phases -> version]: what the persisted phase was made from
  completed,  \* phases with a COMPLETED row in pipeline_jobs
  docsMode,   \* docs_mode in state.json
  \* the run in progress
  pc,
  phase,      \* the phase it is in, while pc is in Indexing
  mode,       \* who writes its pages
  resume,     \* --resume
  skippable,  \* the ledger as the controller cached it
  skipped,    \* phases it rehydrated instead of computing
  onDisk,     \* ResumeController.index_persisted
  held,       \* [Phases -> version]: what it works with
  done,       \* completed_ids: pages it will not generate
  level,
  out,        \* [Pages -> Outcome]: what became of each page
  queue,      \* pages waiting for the flush
  swept,      \* pages the last persist retires
  unread,     \* pages a resume kept that could not be read back for the search
  \* history
  unwritten,  \* pages without prose: their flush never happened, or a
              \* template run rendered them
  runs,
  faults

pageStore == <<rows, vectors, fts>>
plan      == <<mode, resume, skippable>>
phasing   == <<phase, skipped, onDisk, held>>
writing   == <<done, level, out, unread>>
budget    == <<runs, faults>>
vars == <<head, rows, vectors, fts, stored, completed, docsMode, pc,
          phase, mode, resume, skippable, skipped, onDisk, held, done, level, out,
          queue, swept, unread, unwritten, runs, faults>>

-----------------------------------------------------------------------------
Versions   == 0 .. MaxEdits
Phases     == {"index", "analysis"}
Row        == {"none", "stub", "prose"}
Outcome    == {"none", "prose", "reused", "stub", "failed", "raised"}
Indexing   == {"decide", "compute", "store", "mark"}
Draining   == {"drain", "unwind"}
Persisting == {"sweep", "commit", "search", "stamp", "save"}
Stage      == {"idle", "load", "pages"} \cup Indexing \cup Draining \cup Persisting

\* The pages of this run: file pages follow the sources, which every run
\* parses; the others follow its graph, which it may have rehydrated.
Planned ==
  IF held["index"] = NoVersion THEN {}
  ELSE (CallsFor[head] \cap Templates) \cup (CallsFor[held["index"]] \ Templates)

\* Skipped because the vector store has them already.
Preserved == Planned \cap done

Produced == {p \in Pages : out[p] \notin {"none", "raised"}}

\* The pages of the current wave that were not filtered out.
Wave == {p \in Planned \ done : LevelOf[p] = level}

TypeOK ==
  /\ head \in Versions
  /\ rows \in [Pages -> Row]
  /\ vectors \subseteq Pages
  /\ fts \subseteq Pages
  /\ stored \in [Phases -> Versions \cup {NoVersion}]
  /\ completed \subseteq Phases
  /\ docsMode \in {"none", "llm", "deterministic"}
  /\ pc \in Stage
  /\ phase \in Phases
  /\ mode \in {"llm", "deterministic"}
  /\ resume \in BOOLEAN
  /\ skippable \subseteq Phases
  /\ skipped \subseteq Phases
  /\ onDisk \in BOOLEAN
  /\ held \in [Phases -> Versions \cup {NoVersion}]
  /\ done \subseteq Pages
  /\ level \in 1 .. Levels
  /\ out \in [Pages -> Outcome]
  /\ queue \subseteq Pages
  /\ swept \subseteq Pages
  /\ unread \subseteq Pages
  /\ unwritten \subseteq Pages
  /\ runs \in 0 .. MaxRuns
  /\ faults \in 0 .. MaxFaults

Init ==
  /\ head = 0
  /\ rows = [p \in Pages |-> "none"]
  /\ vectors = {}
  /\ fts = {}
  /\ stored = [ph \in Phases |-> NoVersion]
  /\ completed = {}
  /\ docsMode = "none"
  /\ pc = "idle"
  /\ phase = "index"
  /\ mode = "llm"
  /\ resume = FALSE
  /\ skippable = {}
  /\ skipped = {}
  /\ onDisk = FALSE
  /\ held = [ph \in Phases |-> NoVersion]
  /\ done = {}
  /\ level = 1
  /\ out = [p \in Pages |-> "none"]
  /\ queue = {}
  /\ swept = {}
  /\ unread = {}
  /\ unwritten = {}
  /\ runs = 0
  /\ faults = 0

-----------------------------------------------------------------------------
(* Between runs.                                                             *)

\* Commits; the pages called for may change, as concepts are regrouped.
Edit ==
  /\ pc = "idle"
  /\ head < MaxEdits
  /\ head' = head + 1
  /\ UNCHANGED <<pageStore, stored, completed, docsMode, pc, plan, phasing, writing, queue,
                 swept, unwritten, budget>>

\* `repowise init [--resume] [--index-only]`.
StartRun(m, r) ==
  /\ pc = "idle"
  /\ runs < MaxRuns
  /\ runs' = runs + 1
  /\ mode' = m
  /\ resume' = r
  /\ skippable' = IF r THEN completed ELSE {}
  /\ pc' = "decide"
  /\ UNCHANGED <<head, pageStore, stored, completed, docsMode, phasing, writing, queue,
                 swept, unwritten, faults>>

\* One more write fails.
Fault == faults < MaxFaults /\ faults' = faults + 1

\* The process ends, by itself or not; its memory goes with it.
Exit ==
  /\ pc' = "idle"
  /\ phase' = "index"
  /\ mode' = "llm"
  /\ resume' = FALSE
  /\ skippable' = {}
  /\ skipped' = {}
  /\ onDisk' = FALSE
  /\ held' = [ph \in Phases |-> NoVersion]
  /\ done' = {}
  /\ level' = 1
  /\ out' = [p \in Pages |-> "none"]
  /\ queue' = {}
  /\ swept' = {}
  /\ unread' = {}
  /\ UNCHANGED <<head, runs>>

-----------------------------------------------------------------------------
(* INDEX, then ANALYSIS: skip, or compute and checkpoint.                    *)

\* This phase and every phase before it completed in an earlier run.
CanSkip(ph) == (IF ph = "index" THEN {"index"} ELSE Phases) \subseteq skippable

NextPhase ==
  IF phase = "index" THEN phase' = "analysis" /\ pc' = "decide"
  ELSE pc' = "load" /\ UNCHANGED phase

\* Rehydrate the phase from the database.
Skip ==
  /\ pc = "decide"
  /\ CanSkip(phase)
  /\ held' = [held EXCEPT ![phase] = stored[phase]]
  /\ skipped' = skipped \cup {phase}
  /\ onDisk' = (onDisk \/ phase = "index")
  /\ NextPhase
  /\ UNCHANGED <<head, pageStore, stored, completed, docsMode, plan, writing, queue,
                 swept, unwritten, budget>>

\* It failed, or, for the index, the re-parse after it did: the flag is set.
SkipFails ==
  /\ pc = "decide"
  /\ CanSkip(phase)
  /\ Fault
  /\ onDisk' \in {onDisk, onDisk \/ phase = "index"}
  /\ pc' = "compute"
  /\ UNCHANGED <<head, pageStore, stored, completed, docsMode, plan, phase, skipped, held,
                 writing, queue, swept, unwritten, runs>>

\* Traverse, parse, git history; or dead code, health, decisions.  The row
\* mark_started leaves is read by nobody.
Compute ==
  /\ pc = "compute" \/ (pc = "decide" /\ ~ CanSkip(phase))
  /\ held' = [held EXCEPT ![phase] = IF phase = "index" THEN head ELSE held["index"]]
  /\ pc' = "store"
  /\ UNCHANGED <<head, pageStore, stored, completed, docsMode, plan, phase, skipped,
                 onDisk, writing, queue, swept, unwritten, budget>>

\* checkpoint_index, checkpoint_analysis: one transaction.
StorePhase ==
  /\ pc = "store"
  /\ stored' = [stored EXCEPT ![phase] = held[phase]]
  /\ onDisk' = (onDisk \/ phase = "index")
  /\ pc' = "mark"
  /\ UNCHANGED <<head, pageStore, completed, docsMode, plan, phase, skipped, held, writing,
                 queue, swept, unwritten, budget>>

\* Mutant: the failed checkpoint is marked completed.
StoreFailsMarked ==
  /\ pc = "store"
  /\ Fault
  /\ pc' = "mark"
  /\ UNCHANGED <<head, pageStore, stored, completed, docsMode, plan, phasing, writing, queue,
                 swept, unwritten, runs>>

\* Mutant: the index is taken for persisted although its checkpoint failed.
StoreFailsFlagged ==
  /\ pc = "store"
  /\ Fault
  /\ onDisk' = (onDisk \/ phase = "index")
  /\ NextPhase
  /\ UNCHANGED <<head, pageStore, stored, completed, docsMode, plan, skipped, held,
                 writing, queue, swept, unwritten, runs>>

\* The checkpoint fails: the run goes on, the phase stays unmarked.
StoreFails ==
  /\ pc = "store"
  /\ Fault
  /\ NextPhase
  /\ UNCHANGED <<head, pageStore, stored, completed, docsMode, plan, skipped, onDisk, held,
                 writing, queue, swept, unwritten, runs>>

MarkCompleted ==
  /\ pc = "mark"
  /\ \/ completed' = completed \cup {phase} /\ UNCHANGED faults
     \/ Fault /\ UNCHANGED completed
  /\ NextPhase
  /\ UNCHANGED <<head, pageStore, stored, docsMode, plan, skipped, onDisk, held, writing,
                 queue, swept, unwritten, runs>>

-----------------------------------------------------------------------------
(* Generation: waves of pages, each embedded as a whole when it has ended.   *)

\* On a resume the vector store says which pages are done.  A template wiki is
\* not a run for a model to continue, as far as state.json knows.
Seed ==
  /\ pc = "load"
  /\ done' = IF resume /\ (mode = "llm" => docsMode # "deterministic") THEN vectors ELSE {}
  /\ pc' = "pages"
  /\ UNCHANGED <<head, pageStore, stored, completed, docsMode, plan, phasing, level, out,
                 queue, swept, unread, unwritten, budget>>

\* The page's outcome; a page, whatever its text, goes to the flush.
Finish(p, outcome) ==
  /\ pc = "pages"
  /\ p \in Wave
  /\ out[p] = "none"
  /\ out' = [out EXCEPT ![p] = outcome]
  /\ queue' = IF outcome = "raised" THEN queue ELSE queue \cup {p}
  /\ unwritten' = IF outcome = "stub" /\ p \notin Templates THEN unwritten \cup {p}
                  ELSE unwritten
  /\ UNCHANGED <<head, pageStore, stored, completed, docsMode, pc, plan, phasing,
                 done, level, swept, unread, budget>>

ByModel(p) == mode = "llm" /\ p \notin Templates

PageWritten(p) == ByModel(p) /\ Finish(p, "prose")

\* The prompt hashes to the one the stored prose was written from.  (A run
\* whose prior pages failed to load writes them all.)
PageReused(p) == ByModel(p) /\ rows[p] = "prose" /\ Finish(p, "reused")

\* The provider failed: the page's stub stands in for it, marked as such.
PageFailed(p) == ByModel(p) /\ Finish(p, "failed")

PageRendered(p) == ~ ByModel(p) /\ Finish(p, "stub")

\* Assembling or rendering it raised: no page.
PageRaises(p) == Finish(p, "raised")

\* Mutant: a page that failed is embedded like any other.
EmbedStandIns == {p \in Wave : out[p] \in {"prose", "stub", "failed"}}

\* What a finished wave embeds: a reused page has its vector, a stand-in must
\* not get one.
ToEmbed == {p \in Wave : out[p] \in {"prose", "stub"}}

\* The batch goes in chunks, each of which may fail; its failure is logged.
EmbedWave(embedded) ==
  /\ pc = "pages"
  /\ \A p \in Wave : out[p] # "none"
  /\ embedded \in SUBSET ToEmbed
  /\ IF embedded = ToEmbed THEN UNCHANGED faults ELSE Fault
  /\ vectors' = vectors \cup embedded
  /\ IF level < Levels THEN level' = level + 1 /\ UNCHANGED pc
     ELSE pc' = "drain" /\ UNCHANGED level
  /\ UNCHANGED <<head, rows, fts, stored, completed, docsMode, plan, phasing, done, out,
                 queue, swept, unread, unwritten, runs>>

\* A kill between two chunks.
EmbedCut(embedded) ==
  /\ pc = "pages"
  /\ \A p \in Wave : out[p] # "none"
  /\ embedded \in SUBSET ToEmbed
  /\ vectors' = vectors \cup embedded
  /\ unwritten' = unwritten \cup queue
  /\ Exit
  /\ UNCHANGED <<rows, fts, stored, completed, docsMode, faults>>

-----------------------------------------------------------------------------
(* The flush: a consumer task writes each finished page in its own session.  *)

\* Mutant: the row says what the generator said.
UpsertVerbatim(row, outcome) == outcome

\* What an upsert leaves in the row: a stand-in never buries prose.
Upsert(row, outcome) ==
  IF outcome \in {"prose", "reused"} \/ (outcome = "failed" /\ row = "prose")
    THEN "prose" ELSE "stub"

Flush(p) ==
  /\ pc \in {"pages"} \cup Draining
  /\ p \in queue
  /\ queue' = queue \ {p}
  /\ rows' = [rows EXCEPT ![p] = Upsert(rows[p], out[p])]
  /\ unwritten' = IF rows'[p] = "prose" THEN unwritten \ {p} ELSE unwritten
  /\ UNCHANGED <<head, vectors, fts, stored, completed, docsMode, pc, plan, phasing, writing,
                 swept, budget>>

\* Logged at debug level.
FlushFails(p) ==
  /\ Fault
  /\ pc \in {"pages"} \cup Draining
  /\ p \in queue
  /\ queue' = queue \ {p}
  /\ unwritten' = unwritten \cup {p}
  /\ UNCHANGED <<head, pageStore, stored, completed, docsMode, pc, plan, phasing, writing,
                 swept, runs>>

\* The sentinel was reached, or 60 seconds have passed.
DrainEnds ==
  /\ unwritten' = unwritten \cup queue
  /\ IF pc = "unwind" THEN Exit
     ELSE /\ pc' = "sweep"
          /\ queue' = {}
          /\ UNCHANGED <<head, plan, phasing, writing, swept, budget>>
  /\ UNCHANGED <<pageStore, stored, completed, docsMode, faults>>

Drained == pc \in Draining /\ queue = {} /\ DrainEnds

\* Mutant: the drain waits for the consumer.
NoTimeout == Drained

DrainTimeout == pc \in Draining /\ queue # {} /\ DrainEnds

\* Ctrl-C while pages are generated: the flush is drained, nothing else.
Interrupt ==
  /\ pc = "pages"
  /\ pc' = "unwind"
  /\ UNCHANGED <<head, pageStore, stored, completed, docsMode, plan, phasing, writing,
                 queue, swept, unwritten, budget>>

-----------------------------------------------------------------------------
(* persist_result.                                                           *)

\* Mutant: what a resume skipped is stale.
StalePreserved ==
  IF Produced \cap Keyed = {} THEN {} ELSE {p \in Keyed \ Produced : rows[p] # "none"}

\* Keyed rows the run neither produced nor preserved, if it produced any.
Stale ==
  IF Produced \cap Keyed = {} THEN {}
  ELSE {p \in Keyed \ (Produced \cup Preserved) : rows[p] # "none"}

\* Their vectors go first, while the SQL session is still open.
Sweep ==
  /\ pc = "sweep"
  /\ swept' = Stale
  /\ vectors' = vectors \ Stale
  /\ pc' = "commit"
  /\ UNCHANGED <<head, rows, fts, stored, completed, docsMode, plan, phasing, writing, queue,
                 unwritten, budget>>

\* The session commits: pages, sweep, and every phase not on disk already.
Commit ==
  /\ pc = "commit"
  /\ rows' = [p \in Pages |-> IF p \in Produced THEN Upsert(rows[p], out[p])
                              ELSE IF p \in swept THEN "none" ELSE rows[p]]
  /\ stored' = [ph \in Phases |->
                 IF (ph = "index" /\ onDisk) \/ (ph = "analysis" /\ "analysis" \in skipped)
                   THEN stored[ph] ELSE held[ph]]
  /\ unwritten' = {p \in unwritten : rows'[p] # "prose"}
  /\ pc' = "search"
  /\ UNCHANGED <<head, vectors, fts, completed, docsMode, plan, phasing, writing, queue,
                 swept, budget>>

\* "database is locked": the run ends with the exception.
CommitFails ==
  /\ pc = "commit"
  /\ Fault
  /\ Exit
  /\ UNCHANGED <<pageStore, stored, completed, docsMode, unwritten>>

\* Mutant: only the pages of this run are indexed.
IndexProduced == Produced

\* Full-text search follows after the commit; the pages a resume preserved
\* are read back and indexed too, unless the run produced none.  A read-back
\* that fails is logged at debug level.
ToIndex ==
  IF Produced = {} THEN {} ELSE Produced \cup {p \in Preserved : rows[p] # "none"}

IndexForSearch ==
  /\ pc = "search"
  /\ unread' \in SUBSET (ToIndex \ Produced)
  /\ IF unread' = {} THEN UNCHANGED faults ELSE Fault
  /\ fts' = (fts \ swept) \cup (ToIndex \ unread')
  /\ pc' = IF onDisk THEN "stamp" ELSE "save"
  /\ UNCHANGED <<head, rows, vectors, stored, completed, docsMode, plan, phasing, done, level,
                 out, queue, swept, unwritten, runs>>

\* An exception, or a kill, after some of the pages.
SearchCut(indexed) ==
  /\ pc = "search"
  /\ indexed \in SUBSET ToIndex
  /\ fts' = (fts \ swept) \cup indexed
  /\ Exit
  /\ UNCHANGED <<rows, vectors, stored, completed, docsMode, unwritten, faults>>

\* mark_completed(ANALYSIS), again as well as that goes.
StampAnalysis ==
  /\ pc = "stamp"
  /\ \/ completed' = completed \cup {"analysis"} /\ UNCHANGED faults
     \/ Fault /\ UNCHANGED completed
  /\ pc' = "save"
  /\ UNCHANGED <<head, pageStore, stored, docsMode, plan, phasing, writing, queue,
                 swept, unwritten, runs>>

\* state.json, and the process exits.
SaveState ==
  /\ pc = "save"
  /\ docsMode' = mode
  /\ Exit
  /\ UNCHANGED <<pageStore, stored, completed, unwritten, faults>>

-----------------------------------------------------------------------------
\* SIGKILL, power loss, a second Ctrl-C; also a first one outside generation.
Kill ==
  /\ pc # "idle"
  /\ unwritten' = unwritten \cup queue
  /\ Exit
  /\ UNCHANGED <<pageStore, stored, completed, docsMode, faults>>

PageStep(p) ==
  \/ PageWritten(p) \/ PageReused(p) \/ PageFailed(p) \/ PageRendered(p) \/ PageRaises(p)

RunStep ==
  \/ Skip \/ Compute \/ StorePhase \/ MarkCompleted \/ Seed
  \/ \E p \in Pages : PageStep(p)
  \/ \E ps \in SUBSET Pages : EmbedWave(ps)
  \/ Drained \/ DrainTimeout
  \/ Sweep \/ Commit \/ IndexForSearch \/ StampAnalysis \/ SaveState

Next ==
  \/ Edit
  \/ \E m \in Modes, r \in BOOLEAN : StartRun(m, r)
  \/ Skip \/ SkipFails \/ Compute \/ StorePhase \/ StoreFails
  \/ MarkCompleted \/ Seed
  \/ \E p \in Pages :
       \/ PageWritten(p) \/ PageReused(p) \/ PageFailed(p) \/ PageRendered(p)
       \/ PageRaises(p) \/ Flush(p) \/ FlushFails(p)
  \/ \E ps \in SUBSET Pages : EmbedWave(ps) \/ EmbedCut(ps) \/ SearchCut(ps)
  \/ Drained \/ DrainTimeout \/ Interrupt
  \/ Sweep \/ Commit \/ CommitFails \/ IndexForSearch \/ StampAnalysis \/ SaveState
  \/ Kill

Spec == Init /\ [][Next]_vars

\* The process works on and the drain's clock runs; the database may hang, so
\* nothing is asked of the flush, and nobody has to start a run.
FairSpec == Spec /\ WF_vars(RunStep)

-----------------------------------------------------------------------------
(* Properties.                                                               *)

\* A phase the ledger calls COMPLETED is on disk.  Skipping a phase on --resume
\* trusts the ledger alone (can_skip, controller.py).
LedgerBacked == \A ph \in completed : stored[ph] # NoVersion

\* The pages --resume would not generate have been written: a vector is there
\* because a model wrote the page (its row is there or on its way), or because
\* of a template run or a lost flush.  Held back are the stand-ins of failed
\* pages (run_level, orchestrate.py).
SkippedIsWritten ==
  \A p \in vectors \ (Templates \cup unwritten) : rows[p] = "prose" \/ p \in queue

\* When a run that produced pages is over, every page of its wiki with a row
\* can be searched for, unless it failed to be read back: those it kept on a
\* resume were indexed by nobody else if the earlier run was killed
\* (_index_preserved_pages).
FtsCovers ==
  pc = "save" /\ Produced # {}
    => {p \in Planned : rows[p] # "none" /\ out[p] # "raised"} \subseteq fts \cup unread

\* A run without --resume that gets to its end leaves the index of the sources
\* it saw, whichever of its checkpoints failed.
FreshRunSyncs == pc = "save" /\ ~ resume => stored["index"] = head

\* Rows change as WikiPages promises: prose gives way to a stub in a template
\* run only, and the only rows deleted are those of keyed pages the run neither
\* produced nor skipped.
Wiki == INSTANCE WikiPages WITH
          rows <- rows,
          rebuilding <- pc # "idle" /\ mode = "deterministic",
          retired <- Keyed \ {p \in Planned : out[p] # "raised"}
RowsFollowWiki == Wiki!Spec

\* A run ends although a database write of the flush may never return: the
\* drain gives up after _DRAIN_TIMEOUT_SECS.
RunsEnd == pc # "idle" ~> pc = "idle"
=============================================================================
