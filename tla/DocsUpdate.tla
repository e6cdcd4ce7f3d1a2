----------------------------- MODULE DocsUpdate -----------------------------
(***************************************************************************)
(* The file pages of one wiki and the two pointers `repowise update` keeps  *)
(* for them: last_sync_commit, what the index has been brought to, and      *)
(* last_docs_commit, what the pages have been brought to.  An update diffs  *)
(* from one of the two, depending on how it was asked; a page it does not   *)
(* rewrite it may mark stale; and a page nobody rewrote or marked still     *)
(* says "fresh".                                                            *)
(*                                                                          *)
(* IndexSync has the index, the lock and overlapping processes; here        *)
(* updates follow one another, which is what the lock is for, and commits   *)
(* and edits of the configuration land at any moment.  A page is abstracted *)
(* to the version of its file that was rendered and the release of the      *)
(* renderer; its render key is the pair.  Every file has a page, history is *)
(* linear, no file is deleted.                                              *)
(***************************************************************************)
EXTENDS Naturals, Sequences, FiniteSets

CONSTANTS
  Files,
  Modes,        \* docs_mode of the repositories considered
  Unset,        \* a field state.json does not have yet
  Budget,       \* the cascade budget: pages an update rewrites for a diff
  MaxCommits,   \* bound: commits
  MaxConfigs,   \* bound: edits of config.yaml or health-rules.json
  MaxReleases,  \* bound: upgrades of repowise
  MaxFaults     \* bound: steps of updates that fail, and kills

ASSUME DocsAssumption ==
  /\ IsFiniteSet(Files)
  /\ Modes \subseteq {"llm", "deterministic"}
  /\ Unset \notin Nat
  /\ Budget \in Nat \ {0}
  /\ MaxCommits \in Nat
  /\ MaxConfigs \in Nat
  /\ MaxReleases \in Nat
  /\ MaxFaults \in Nat

VARIABLES
  \* outside
  history,   \* Seq(SUBSET Files): the files each commit changed
  tree,      \* [Files -> commit]: the version of each file at HEAD
  config,    \* the configuration on disk
  release,   \* the release installed
  \* wiki_pages
  version,   \* [Files -> commit]: the version each page was rendered from
  by,        \* [Files -> release]: the renderer it was rendered by
  stale,     \* pages whose freshness_status is "stale"
  \* state.json
  mode,      \* docs_mode
  sync,      \* last_sync_commit
  docs,      \* last_docs_commit
  seenConfig,    \* config_fingerprint
  seenRelease,   \* renderer_fingerprint
  \* the update in progress
  run,
  \* history
  missed,    \* pages some update asked for, or meant to mark, in vain
  dropped,   \* commits a configuration run moved the pointer over
  faults

outside == <<history, tree, config, release>>
pages   == <<version, by, stale, missed>>
saved   == <<sync, docs, seenConfig, seenRelease, dropped>>
vars    == <<outside, pages, mode, saved, run, faults>>

HEAD == Len(history)
Commits == 0 .. MaxCommits

Idle ==
  [pc |-> "idle", writes |-> FALSE, base |-> 0, target |-> 0, config |-> 0,
   seen |-> [f \in Files |-> 0], regen |-> {}, decay |-> {}, landed |-> {},
   hurt |-> FALSE]

Run ==
  [pc : {"idle", "plan", "render", "save"}, writes : BOOLEAN, base : Commits,
   target : Commits, config : 0 .. MaxConfigs, seen : [Files -> Commits],
   regen : SUBSET Files, decay : SUBSET Files, landed : SUBSET Files,
   hurt : BOOLEAN]

TypeOK ==
  /\ history \in Seq(SUBSET Files)
  /\ HEAD \in Commits
  /\ tree \in [Files -> Commits]
  /\ config \in 0 .. MaxConfigs
  /\ release \in 0 .. MaxReleases
  /\ version \in [Files -> Commits]
  /\ by \in [Files -> 0 .. MaxReleases]
  /\ stale \subseteq Files
  /\ mode \in Modes
  /\ sync \in Commits
  /\ docs \in Commits \cup {Unset}
  /\ seenConfig \in 0 .. MaxConfigs
  /\ seenRelease \in (0 .. MaxReleases) \cup {Unset}
  /\ run \in Run
  /\ missed \subseteq Files
  /\ dropped \subseteq Commits
  /\ faults \in 0 .. MaxFaults

\* `repowise init` has just rendered every page; it writes neither
\* last_docs_commit nor renderer_fingerprint.
Init ==
  /\ history = << >>
  /\ tree = [f \in Files |-> 0]
  /\ config = 0
  /\ release = 0
  /\ version = [f \in Files |-> 0]
  /\ by = [f \in Files |-> 0]
  /\ stale = {}
  /\ mode \in Modes
  /\ sync = 0
  /\ docs = Unset
  /\ seenConfig = 0
  /\ seenRelease = Unset
  /\ run = Idle
  /\ missed = {}
  /\ dropped = {}
  /\ faults = 0

-----------------------------------------------------------------------------
(* The repository, its configuration and the installation.  A commit may    *)
(* change nothing (a merge); an upgrade waits for the update in progress.   *)

Commit ==
  /\ HEAD < MaxCommits
  /\ \E changed \in SUBSET Files :
       /\ history' = Append(history, changed)
       /\ tree' = [f \in Files |-> IF f \in changed THEN HEAD + 1 ELSE tree[f]]
  /\ UNCHANGED <<config, release, pages, mode, saved, run, faults>>

EditConfig ==
  /\ config < MaxConfigs
  /\ config' = config + 1
  /\ UNCHANGED <<history, tree, release, pages, mode, saved, run, faults>>

Upgrade ==
  /\ release < MaxReleases
  /\ run.pc = "idle"
  /\ release' = release + 1
  /\ UNCHANGED <<history, tree, config, pages, mode, saved, run, faults>>

-----------------------------------------------------------------------------
(* An update up to its plan.                                                *)

\* Mutant: no fallback for a repository that has never updated its pages.
BaseOfMode(writes) == IF writes THEN docs ELSE sync

\* The commit a run diffs from: the docs pointer for a run that writes pages
\* with a model, the sync pointer for every other, and for want of the first.
Base(writes) == IF writes /\ docs # Unset THEN docs ELSE sync

\* What the repository's own kind of run will not look at again.
NextBase == Base(mode = "llm")

ConfigChanged == config # seenConfig
RendererChanged == seenRelease # Unset /\ seenRelease # release

Diff(base, target) == UNION {history[c] : c \in base + 1 .. target}

\* Whether a run writes with a model: as asked, or as the repository does.
Writes(asked) == asked = "docs" \/ (asked = "plain" /\ mode = "llm")

UpToDate(writes) ==
  HEAD = Base(writes) /\ ~ ConfigChanged /\ ~ RendererChanged

Begin(asked) ==
  /\ run.pc = "idle"
  /\ ~ UpToDate(Writes(asked))
  /\ run' = [Idle EXCEPT !.pc = "plan", !.writes = Writes(asked),
                         !.base = Base(Writes(asked)), !.target = HEAD,
                         !.config = config]
  /\ UNCHANGED <<outside, pages, mode, saved, faults>>

\* "Already up to date": all it writes is a fingerprint that was never there.
Backfill(asked) ==
  /\ run.pc = "idle"
  /\ UpToDate(Writes(asked))
  /\ seenRelease = Unset
  /\ seenRelease' = release
  /\ UNCHANGED <<outside, pages, mode, sync, docs, seenConfig, dropped, run, faults>>

RunDiff == Diff(run.base, run.target)

\* Mutant: only the sync pointer moves.
NoChangesSyncOnly ==
  /\ run.pc = "plan"
  /\ RunDiff = {}
  /\ run.config = seenConfig
  /\ ~ RendererChanged
  /\ sync' = run.target
  /\ seenConfig' = run.config
  /\ seenRelease' = release
  /\ run' = Idle
  /\ UNCHANGED <<outside, pages, mode, docs, dropped, faults>>

NoChanges ==
  /\ run.pc = "plan"
  /\ RunDiff = {}
  /\ run.config = seenConfig
  /\ ~ RendererChanged
  /\ sync' = run.target
  /\ docs' = IF run.writes THEN run.target ELSE docs
  /\ seenConfig' = run.config
  /\ seenRelease' = release
  /\ run' = Idle
  /\ UNCHANGED <<outside, pages, mode, dropped, faults>>

\* A changed configuration: the run re-scores health and nothing else, and
\* moves the sync pointer. When the re-scoring fails it ends like Aborts.
Rescore ==
  /\ run.pc = "plan"
  /\ run.config # seenConfig
  /\ sync' = run.target
  /\ seenConfig' = run.config
  /\ dropped' = IF mode = "llm" /\ docs # Unset
                THEN dropped ELSE dropped \cup (sync + 1 .. run.target)
  /\ run' = Idle
  /\ UNCHANGED <<outside, pages, mode, docs, seenRelease, faults>>

-----------------------------------------------------------------------------
(* The plan: changed files and their importers within the budget, what is   *)
(* left of them and weaker neighbours to be marked, and, whatever the       *)
(* budget, every page whose render key is not the one it would get now.     *)

\* Mutant: the render key has no salt.
OutdatedSource == {f \in Files : version[f] # tree[f]}

Outdated == {f \in Files : version[f] # tree[f] \/ by[f] # release}

\* A step of an update that fails is counted, and ends in the degraded list
\* or in the log.
Fault(clean) ==
  \/ clean /\ UNCHANGED faults
  \/ ~ clean /\ faults < MaxFaults /\ faults' = faults + 1

\* Within the budget the whole of `near`, beyond it the files ranked first.
Within(near) ==
  LET size == Cardinality(near)
  IN  {kept \in SUBSET near :
         Cardinality(kept) = IF size <= Budget THEN size ELSE Budget}

\* What the diff reaches: `near` may be rewritten, `weak` is only to be marked.
Reach(importers, weak, governed) ==
  /\ RunDiff = {} => importers = {} /\ weak = {} /\ governed = {}
  /\ ~ run.writes => governed = {}
  /\ weak \cap importers = {}

Plan ==
  /\ run.pc = "plan"
  /\ run.config = seenConfig
  /\ RunDiff # {} \/ RendererChanged
  /\ \E importers \in SUBSET (Files \ RunDiff), weak \in SUBSET (Files \ RunDiff),
        governed \in SUBSET Files :
       /\ Reach(importers, weak, governed)
       /\ \E kept \in Within(RunDiff \cup importers), swept \in {Outdated, {}} :
            /\ Fault(swept = Outdated)
            /\ run' = [run EXCEPT
                 !.pc = "render", !.seen = tree, !.hurt = (swept # Outdated),
                 !.regen = kept \cup swept \cup governed,
                 !.decay = ((RunDiff \cup importers) \ kept) \cup weak]
  /\ UNCHANGED <<outside, pages, mode, saved>>

-----------------------------------------------------------------------------
(* The pages.                                                               *)

\* One transaction: the pages that were rendered, then the marks.
Wave(drawn, decayed) ==
  /\ version' = [f \in Files |-> IF f \in drawn THEN run.seen[f] ELSE version[f]]
  /\ by' = [f \in Files |-> IF f \in drawn THEN release ELSE by[f]]
  /\ stale' = (stale \ drawn) \cup decayed
  /\ missed' = (missed \cup run.regen \cup (run.decay \ decayed)) \ drawn
  /\ LET clean == drawn = run.regen /\ decayed = run.decay IN
       /\ Fault(clean)
       /\ run' = [run EXCEPT !.pc = "save", !.landed = drawn,
                             !.hurt = (run.hurt \/ ~ clean)]
  /\ UNCHANGED <<outside, mode, saved>>

\* A template wiki on an index-only run: without a page there is no
\* transaction, and no mark either.
RenderTemplates ==
  /\ run.pc = "render"
  /\ ~ run.writes
  /\ mode = "deterministic"
  /\ \E drawn \in SUBSET run.regen, decayed \in {run.decay, {}} :
       /\ drawn = {} => decayed = {}
       /\ Wave(drawn, decayed)

\* A model-written wiki on an index-only run.
LeavePages ==
  /\ run.pc = "render"
  /\ ~ run.writes
  /\ mode = "llm"
  /\ run' = [run EXCEPT !.pc = "save"]
  /\ UNCHANGED <<outside, pages, mode, saved, faults>>

\* PageCheckpointer: pages are persisted one by one as they are rendered.
Checkpoint(f) ==
  /\ run.pc = "render"
  /\ run.writes
  /\ f \in run.regen \ run.landed
  /\ version' = [version EXCEPT ![f] = run.seen[f]]
  /\ by' = [by EXCEPT ![f] = release]
  /\ stale' = stale \ {f}
  /\ missed' = missed \ {f}
  /\ run' = [run EXCEPT !.landed = @ \cup {f}]
  /\ UNCHANGED <<outside, mode, saved, faults>>

PersistPages ==
  /\ run.pc = "render"
  /\ run.writes
  /\ \E drawn \in SUBSET run.regen, decayed \in {run.decay, {}} :
       /\ run.landed \subseteq drawn
       /\ Wave(drawn, decayed)

-----------------------------------------------------------------------------
(* The end of a run.                                                        *)

\* Mutant: the docs pointer that was never there is not pinned.
SaveIndexUnpinned ==
  /\ run.pc = "save"
  /\ ~ run.writes
  /\ sync' = run.target
  /\ docs' = IF run.landed # {} THEN run.target ELSE docs
  /\ seenConfig' = config
  /\ seenRelease' = release
  /\ run' = Idle
  /\ UNCHANGED <<outside, pages, mode, dropped, faults>>

\* An index-only run moves the docs pointer when it rendered something, and
\* pins it where it implicitly was when it had none.
SaveIndex ==
  /\ run.pc = "save"
  /\ ~ run.writes
  /\ sync' = run.target
  /\ docs' = CASE run.landed # {} -> run.target
               [] run.landed = {} /\ docs = Unset -> sync
               [] OTHER -> docs
  /\ seenConfig' = config
  /\ seenRelease' = release
  /\ run' = Idle
  /\ UNCHANGED <<outside, pages, mode, dropped, faults>>

SaveDocs ==
  /\ run.pc = "save"
  /\ run.writes
  /\ sync' = run.target
  /\ docs' = run.target
  /\ seenConfig' = config
  /\ seenRelease' = release
  /\ run' = Idle
  /\ UNCHANGED <<outside, pages, mode, dropped, faults>>

\* Killed, or an exception ends it: nothing is saved.
Aborts ==
  /\ run.pc # "idle"
  /\ faults < MaxFaults
  /\ faults' = faults + 1
  /\ run' = Idle
  /\ UNCHANGED <<outside, pages, mode, saved>>

-----------------------------------------------------------------------------
Advance ==
  \/ NoChanges \/ Rescore \/ Plan
  \/ RenderTemplates \/ LeavePages \/ PersistPages
  \/ \E f \in Files : Checkpoint(f)
  \/ SaveIndex \/ SaveDocs

Next ==
  \/ Commit \/ EditConfig \/ Upgrade
  \/ \E asked \in {"plain", "docs", "index"} : Begin(asked) \/ Backfill(asked)
  \/ Advance
  \/ Aborts

Spec == Init /\ [][Next]_vars

\* A run that is not killed goes on, and the repository's own kind of update
\* keeps being run, as the post-commit hook and `repowise watch` do. Commits,
\* edits, upgrades and faults are bounded, so they stop.
FairSpec == Spec /\ WF_vars(Advance) /\ WF_vars(Begin("plain"))

-----------------------------------------------------------------------------
(* Properties.                                                              *)

\* No silent lag: for every commit the repository's own kind of update will
\* not diff again, the page of each file it changed has been rendered since,
\* is marked stale, or failed in a run that reported it; commits a
\* configuration run moved the pointer over are the one exception (Rescore).
DocsCovered ==
  \A c \in 1 .. NextBase : \A f \in history[c] :
    version[f] >= c \/ f \in stale \cup missed \/ c \in dropped

\* A run that reaches its save without a fault leaves every page, not only
\* those of its diff, as its own parse and renderer have it; so it repairs
\* what earlier runs dropped or missed.
PlannedRunHeals ==
  run.pc = "save" /\ ~ run.hurt /\ (run.writes \/ mode = "deterministic")
    => version = run.seen /\ \A f \in Files : by[f] = release

\* However index-only, docs and configuration runs, kills and commits mix,
\* the pointer of the repository's own kind of update reaches HEAD for good.
CatchesUp == <>[](NextBase = HEAD)
=============================================================================
