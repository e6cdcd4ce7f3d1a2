-------------------------- MODULE DocsUpdateProofs --------------------------
(***************************************************************************)
(* Proofs about DocsUpdate for any files, modes, budget and bounds: the     *)
(* types, that the pointers never leave a page behind unseen (DocsCovered)  *)
(* and that a planned run brings every page up to date (PlannedRunHeals).   *)
(* What DocsCovered needs beside itself: a run diffs from the pointer it    *)
(* will overwrite (RunInv), what it has parsed is no older than any commit  *)
(* it answers for (SeenInv), and it has disposed of its diff, page by page, *)
(* before it saves (PlanInv, WaveInv).                                      *)
(***************************************************************************)
EXTENDS DocsUpdate, TLAPS

\* The docs pointer is never ahead of the sync pointer, nor that of HEAD, and
\* the source of a file is as new as every commit that changed it.
PointerInv ==
  /\ sync <= HEAD
  /\ docs # Unset => docs <= sync
  /\ \A c \in 1 .. HEAD : \A f \in history[c] : tree[f] >= c

\* A run diffs from the pointer of its kind as it still is, up to a commit no
\* older than either pointer.
RunInv ==
  run.pc # "idle" =>
    /\ run.base = Base(run.writes)
    /\ sync <= run.target
    /\ run.target <= HEAD
    /\ run.pc = "plan" => run.landed = {}

\* Planned: what was parsed has every commit of the diff, and the diff is
\* among the pages to be drawn or marked.
PlanInv ==
  run.pc \in {"render", "save"} =>
    /\ \A c \in 1 .. run.target : \A f \in history[c] : run.seen[f] >= c
    /\ \A c \in run.base + 1 .. run.target : history[c] \subseteq run.regen \cup run.decay
    /\ ~ run.writes /\ (run.pc = "render" \/ mode = "llm") => run.landed = {}

\* Drawn: every commit of the diff is in the pages it touches, or they say not.
WaveInv ==
  run.pc = "save" /\ (run.writes \/ mode = "deterministic") =>
    \A c \in run.base + 1 .. run.target : \A f \in history[c] :
      version[f] >= c \/ f \in stale \cup missed

DocsInv == TypeOK /\ PointerInv /\ RunInv /\ PlanInv /\ WaveInv /\ DocsCovered

-----------------------------------------------------------------------------
(* Types.                                                                    *)

\* The commit a run diffs from exists.
LEMMA BaseType ==
  ASSUME TypeOK, NEW writes \in BOOLEAN
  PROVE  Base(writes) \in Commits
  BY DEF Base, TypeOK

\* A commit of the diff changed only files of the diff.
LEMMA DiffMember ==
  ASSUME NEW c \in run.base + 1 .. run.target
  PROVE  history[c] \subseteq RunDiff
  BY DEF RunDiff, Diff

\* What a plan amounts to: every file of the diff is drawn or marked, and every
\* outdated page is drawn, unless the sweep failed and the run knows.
LEMMA PlanShape ==
  ASSUME TypeOK, PointerInv, RunInv, Plan
  PROVE  \E regen, decay \in SUBSET Files, hurt \in BOOLEAN :
           /\ RunDiff \subseteq regen \cup decay
           /\ ~ hurt => Outdated \subseteq regen
           /\ run' = [run EXCEPT !.pc = "render", !.seen = tree, !.hurt = hurt,
                                 !.regen = regen, !.decay = decay]
  <1>1. RunDiff \in SUBSET Files
    <2>1. run \in Run
      BY DEF TypeOK
    <2>2. run.base \in Nat /\ run.target \in Nat /\ run.target <= HEAD /\ HEAD \in Nat
      BY <2>1 DEF RunInv, Plan, Run, Commits, TypeOK
    <2>3. \A c \in run.base + 1 .. run.target : history[c] \subseteq Files
      BY <2>2 DEF TypeOK, HEAD
    <2> QED
      BY <2>3 DEF RunDiff, Diff
  <1>2. PICK importers \in SUBSET (Files \ RunDiff), weak \in SUBSET (Files \ RunDiff),
             governed \in SUBSET Files :
          /\ Reach(importers, weak, governed)
          /\ \E kept \in Within(RunDiff \cup importers), swept \in {Outdated, {}} :
               /\ Fault(swept = Outdated)
               /\ run' = [run EXCEPT
                    !.pc = "render", !.seen = tree, !.hurt = (swept # Outdated),
                    !.regen = kept \cup swept \cup governed,
                    !.decay = ((RunDiff \cup importers) \ kept) \cup weak]
    BY Zenon DEF Plan
  <1>3. PICK kept \in Within(RunDiff \cup importers), swept \in {Outdated, {}} :
          run' = [run EXCEPT
                 !.pc = "render", !.seen = tree, !.hurt = (swept # Outdated),
                 !.regen = kept \cup swept \cup governed,
                 !.decay = ((RunDiff \cup importers) \ kept) \cup weak]
    BY <1>2
  <1>4. kept \subseteq RunDiff \cup importers
    BY <1>1, <1>3 DEF Within
  <1>5. swept \subseteq Files
    BY <1>3 DEF Outdated
  <1> DEFINE regen == kept \cup swept \cup governed
             decay == ((RunDiff \cup importers) \ kept) \cup weak
             hurt == swept # Outdated
  <1>6. regen \in SUBSET Files /\ decay \in SUBSET Files /\ hurt \in BOOLEAN
    BY <1>1, <1>2, <1>4, <1>5
  <1>7. RunDiff \subseteq regen \cup decay
    OBVIOUS
  <1>8. ~ hurt => Outdated \subseteq regen
    OBVIOUS
  <1>9. run' = [run EXCEPT !.pc = "render", !.seen = tree, !.hurt = hurt,
                           !.regen = regen, !.decay = decay]
    BY <1>3
  <1> HIDE DEF regen, decay, hurt
  <1> QED
    BY <1>6, <1>7, <1>8, <1>9

\* A wave keeps the types.
LEMMA WaveType ==
  ASSUME TypeOK, DocsAssumption, NEW drawn \in SUBSET run.regen,
         NEW decayed \in {run.decay, {}}, Wave(drawn, decayed)
  PROVE  TypeOK'
  <1> USE DEF TypeOK, Commits, HEAD
  <1>1. run \in Run
    OBVIOUS
  <1>2. drawn \subseteq Files /\ decayed \subseteq Files /\ run.decay \subseteq Files
        /\ run.regen \subseteq Files /\ run.seen \in [Files -> Commits]
    BY <1>1 DEF Run
  <1>3. UNCHANGED <<outside, mode, saved>>
    BY DEF Wave
  <1>4. version' \in [Files -> Commits]
    BY <1>2 DEF Wave
  <1>5. by' \in [Files -> 0 .. MaxReleases]
    BY DEF Wave
  <1>6. stale' \subseteq Files /\ missed' \subseteq Files
    BY <1>2 DEF Wave
  <1>7. faults' \in 0 .. MaxFaults
    BY DEF Wave, Fault, DocsAssumption
  <1>8. run' \in Run
    BY <1>1, <1>2 DEF Wave, Run
  <1> QED
    BY <1>3, <1>4, <1>5, <1>6, <1>7, <1>8 DEF outside, saved

\* Every step keeps the types.
LEMMA TypeStep ==
  ASSUME TypeOK, PointerInv, RunInv, DocsAssumption, [Next]_vars
  PROVE  TypeOK'
  <1> USE DEF DocsAssumption
  <1>0. run \in Run
    BY DEF TypeOK
  <1>1. CASE Commit
    <2>1. HEAD' = HEAD + 1 /\ HEAD' \in Commits /\ history' \in Seq(SUBSET Files)
      BY <1>1 DEF Commit, TypeOK, HEAD, Commits
    <2>2. tree' \in [Files -> Commits]
      BY <1>1 DEF Commit, TypeOK, HEAD, Commits
    <2> QED
      BY <1>1, <2>1, <2>2 DEF Commit, TypeOK, pages, saved
  <1>2. CASE EditConfig
    BY <1>2 DEF EditConfig, TypeOK, pages, saved, HEAD
  <1>3. CASE Upgrade
    BY <1>3 DEF Upgrade, TypeOK, pages, saved, HEAD
  <1>4. ASSUME NEW asked \in {"plain", "docs", "index"}, Begin(asked)
        PROVE  TypeOK'
    <2>1. Writes(asked) \in BOOLEAN
      BY DEF Writes
    <2>2. Base(Writes(asked)) \in Commits
      BY <2>1, BaseType
    <2>3. 0 \in Commits /\ HEAD \in Commits /\ config \in 0 .. MaxConfigs
      BY DEF TypeOK, Commits
    <2>4. run' \in Run
      BY <1>4, <2>1, <2>2, <2>3 DEF Begin, Run, Idle
    <2> QED
      BY <1>4, <2>4 DEF Begin, TypeOK, outside, pages, saved, HEAD
  <1>5. ASSUME NEW asked \in {"plain", "docs", "index"}, Backfill(asked)
        PROVE  TypeOK'
    BY <1>5 DEF Backfill, TypeOK, outside, pages, HEAD
  <1>6. Idle \in Run
    BY DEF Idle, Run, Commits
  <1>7. run.target \in Commits /\ run.base \in Commits /\ run.config \in 0 .. MaxConfigs
    BY <1>0 DEF Run
  <1>8. CASE NoChanges
    BY <1>6, <1>7, <1>8 DEF NoChanges, TypeOK, outside, pages, HEAD
  <1>9. CASE Rescore
    <2>1. sync + 1 .. run.target \subseteq Commits
      BY <1>7 DEF TypeOK, Commits
    <2> QED
      BY <1>6, <1>7, <1>9, <2>1 DEF Rescore, TypeOK, outside, pages, HEAD
  <1>10. CASE Plan
    <2>1. PICK regen \in SUBSET Files, decay \in SUBSET Files, hurt \in BOOLEAN :
            run' = [run EXCEPT !.pc = "render", !.seen = tree, !.hurt = hurt,
                               !.regen = regen, !.decay = decay]
      BY <1>10, PlanShape
    <2>2. run' \in Run
      BY <1>0, <2>1 DEF Run, TypeOK
    <2>3. faults' \in 0 .. MaxFaults
      BY <1>10 DEF Plan, Fault, TypeOK
    <2> QED
      BY <1>10, <2>2, <2>3 DEF Plan, TypeOK, outside, pages, saved, HEAD
  <1>11. run.regen \subseteq Files /\ run.decay \subseteq Files /\ run.landed \subseteq Files
         /\ run.seen \in [Files -> Commits]
    BY <1>0 DEF Run
  <1>12. CASE RenderTemplates
    BY <1>12, WaveType DEF RenderTemplates
  <1>13. CASE PersistPages
    BY <1>13, WaveType DEF PersistPages
  <1>14. CASE LeavePages
    <2>1. run' \in Run
      BY <1>0, <1>14 DEF LeavePages, Run
    <2> QED
      BY <1>14, <2>1 DEF LeavePages, TypeOK, outside, pages, saved, HEAD
  <1>15. ASSUME NEW f \in Files, Checkpoint(f)
         PROVE  TypeOK'
    <2>1. run' \in Run
      BY <1>0, <1>15 DEF Checkpoint, Run
    <2>2. version' \in [Files -> Commits] /\ by' \in [Files -> 0 .. MaxReleases]
      BY <1>11, <1>15 DEF Checkpoint, TypeOK
    <2>3. stale' \subseteq Files /\ missed' \subseteq Files
      BY <1>15 DEF Checkpoint, TypeOK
    <2> QED
      BY <1>15, <2>1, <2>2, <2>3 DEF Checkpoint, TypeOK, outside, saved, HEAD
  <1>16. CASE SaveIndex
    BY <1>6, <1>7, <1>16 DEF SaveIndex, TypeOK, outside, pages, HEAD
  <1>17. CASE SaveDocs
    BY <1>6, <1>7, <1>17 DEF SaveDocs, TypeOK, outside, pages, HEAD
  <1>18. CASE Aborts
    BY <1>6, <1>18 DEF Aborts, TypeOK, outside, pages, saved, HEAD
  <1>19. CASE UNCHANGED vars
    BY <1>19 DEF vars, TypeOK, outside, pages, saved, HEAD
  <1> QED
    BY <1>1, <1>2, <1>3, <1>4, <1>5, <1>8, <1>9, <1>10, <1>12, <1>13, <1>14, <1>15,
       <1>16, <1>17, <1>18, <1>19 DEF Next, Advance
-----------------------------------------------------------------------------
(* The pointers.                                                             *)

\* What the types say of the numbers in them.
LEMMA Numbers ==
  ASSUME TypeOK
  PROVE  /\ HEAD \in Nat /\ sync \in Nat /\ (docs # Unset => docs \in Nat)
         /\ run.base \in Nat /\ run.target \in Nat
         /\ run.pc \in {"idle", "plan", "render", "save"} /\ run.writes \in BOOLEAN
         /\ run.seen \in [Files -> Commits] /\ run.regen \in SUBSET Files
         /\ run.decay \in SUBSET Files /\ run.landed \in SUBSET Files
         /\ run.hurt \in BOOLEAN
         /\ mode \in {"llm", "deterministic"}
         /\ \A c \in 1 .. HEAD : history[c] \in SUBSET Files
         /\ \A f \in Files : tree[f] \in Nat /\ version[f] \in Nat /\ run.seen[f] \in Nat
  <1>1. run \in Run
    BY DEF TypeOK
  <1> QED
    BY <1>1, DocsAssumption DEF TypeOK, Run, Commits, HEAD

\* A commit leaves the older ones as they were.
LEMMA CommitShape ==
  ASSUME TypeOK, Commit
  PROVE  /\ HEAD' = HEAD + 1
         /\ \A c \in 1 .. HEAD : history'[c] = history[c]
         /\ history'[HEAD'] \in SUBSET Files
         /\ \A f \in Files : tree'[f] = (IF f \in history'[HEAD'] THEN HEAD' ELSE tree[f])
         /\ UNCHANGED <<config, release, version, by, stale, missed, mode, sync, docs,
                        seenConfig, seenRelease, dropped, run, faults>>
  <1>1. PICK changed \in SUBSET Files :
          /\ history' = Append(history, changed)
          /\ tree' = [f \in Files |-> IF f \in changed THEN HEAD + 1 ELSE tree[f]]
    BY DEF Commit
  <1>2. history \in Seq(SUBSET Files)
    BY DEF TypeOK
  <1>3. HEAD' = HEAD + 1 /\ history'[HEAD + 1] = changed
        /\ \A c \in 1 .. HEAD : history'[c] = history[c]
    BY <1>1, <1>2 DEF HEAD
  <1> QED
    BY <1>1, <1>3 DEF Commit, pages, saved

\* Every other step leaves the history and the sources alone.
LEMMA StepShape ==
  ASSUME [Next]_vars, ~ Commit
  PROVE  UNCHANGED <<history, tree>>
  BY Zenon DEF Next, Advance, vars, outside, EditConfig, Upgrade, Begin, Backfill, NoChanges,
     Rescore, Plan, RenderTemplates, PersistPages, Wave, LeavePages, Checkpoint,
     SaveIndex, SaveDocs, Aborts

\* Only the end of a run moves a pointer, to its target or not past the sync
\* pointer.
LEMMA PointerMoves ==
  ASSUME TypeOK, [Next]_vars
  PROVE  \/ UNCHANGED <<sync, docs>>
         \/ /\ run.pc # "idle" /\ run' = Idle
            /\ sync' = run.target
            /\ docs' \in {docs, sync, run.target}
  <1> USE DEF vars, saved
  <1>1. CASE NoChanges
    BY <1>1 DEF NoChanges
  <1>2. CASE Rescore
    BY <1>2 DEF Rescore
  <1>3. CASE SaveIndex
    BY <1>3 DEF SaveIndex
  <1>4. CASE SaveDocs
    BY <1>4 DEF SaveDocs
  <1>5. CASE ~ (NoChanges \/ Rescore \/ SaveIndex \/ SaveDocs)
    BY <1>5, Zenon DEF Next, Advance, Commit, EditConfig, Upgrade, Begin, Backfill, Plan,
       RenderTemplates, PersistPages, Wave, LeavePages, Checkpoint, Aborts
  <1> QED
    BY <1>1, <1>2, <1>3, <1>4, <1>5

LEMMA PointerStep ==
  ASSUME TypeOK, PointerInv, RunInv, [Next]_vars
  PROVE  PointerInv'
  <1>1. sync <= HEAD /\ (docs # Unset => docs <= sync) /\ HEAD \in Nat /\ sync \in Nat
        /\ (docs # Unset => docs \in Nat) /\ run.target \in Nat
    BY Numbers DEF PointerInv
  <1>2. HEAD <= HEAD' /\ HEAD' \in Nat
    <2>1. CASE Commit
      BY <1>1, <2>1, CommitShape
    <2>2. CASE ~ Commit
      BY <1>1, <2>2, StepShape DEF HEAD
    <2> QED
      BY <2>1, <2>2
  <1>3. sync' <= HEAD' /\ (docs' # Unset => docs' <= sync')
    <2>1. CASE UNCHANGED <<sync, docs>>
      BY <1>1, <1>2, <2>1
    <2>2. CASE /\ run.pc # "idle"
               /\ sync' = run.target
               /\ docs' \in {docs, sync, run.target}
      <3>1. sync <= run.target /\ run.target <= HEAD
        BY <2>2 DEF RunInv
      <3> QED
        BY <1>1, <1>2, <2>2, <3>1
    <2> QED
      BY <2>1, <2>2, PointerMoves
  <1>4. \A c \in 1 .. HEAD' : \A f \in history'[c] : tree'[f] >= c
    <2>1. CASE Commit
      <3> SUFFICES ASSUME NEW c \in 1 .. HEAD', NEW f \in history'[c]
                   PROVE  tree'[f] >= c
        OBVIOUS
      <3>1. CASE c = HEAD'
        BY <1>2, <2>1, <3>1, CommitShape
      <3>2. CASE c \in 1 .. HEAD
        <4>1. f \in history[c] /\ f \in Files /\ tree[f] >= c /\ tree[f] \in Nat
          BY <2>1, <3>2, CommitShape, Numbers DEF PointerInv
        <4> QED
          BY <1>1, <2>1, <3>2, <4>1, CommitShape
      <3> QED
        BY <1>1, <2>1, <3>1, <3>2, CommitShape
    <2>2. CASE ~ Commit
      BY <2>2, StepShape DEF PointerInv, HEAD
    <2> QED
      BY <2>1, <2>2
  <1> QED
    BY <1>3, <1>4 DEF PointerInv

-----------------------------------------------------------------------------
(* What the steps of a run do, as far as the invariant is concerned.         *)

\* The history only grows.
LEMMA HistoryGrows ==
  ASSUME TypeOK, [Next]_vars
  PROVE  /\ HEAD \in Nat /\ HEAD' \in Nat /\ HEAD <= HEAD'
         /\ \A c \in 1 .. HEAD : history'[c] = history[c]
  <1>1. HEAD \in Nat
    BY Numbers
  <1>2. CASE Commit
    BY <1>1, <1>2, CommitShape
  <1>3. CASE ~ Commit
    BY <1>1, <1>3, StepShape DEF HEAD
  <1> QED
    BY <1>2, <1>3

\* A run begins, ends, or goes on with what it began with.
LEMMA RunMoves ==
  ASSUME TypeOK, [Next]_vars
  PROVE  \/ run' = Idle
         \/ \E asked \in {"plain", "docs", "index"} : Begin(asked)
         \/ run' = run /\ UNCHANGED <<sync, docs, mode>>
         \/ /\ run.pc # "idle" /\ run'.landed \in SUBSET Files
            /\ run'.base = run.base /\ run'.target = run.target /\ run'.writes = run.writes
            /\ run'.pc \in {"render", "save"}
            /\ UNCHANGED <<sync, docs, mode>>
  <1>0. run \in Run
    BY DEF TypeOK
  <1> USE DEF vars, saved, Run
  <1>1. CASE Plan
    <2>1. PICK importers \in SUBSET (Files \ RunDiff), weak \in SUBSET (Files \ RunDiff),
               governed \in SUBSET Files :
            /\ Reach(importers, weak, governed)
            /\ \E kept \in Within(RunDiff \cup importers), swept \in {Outdated, {}} :
                 /\ Fault(swept = Outdated)
                 /\ run' = [run EXCEPT
                      !.pc = "render", !.seen = tree, !.hurt = (swept # Outdated),
                      !.regen = kept \cup swept \cup governed,
                      !.decay = ((RunDiff \cup importers) \ kept) \cup weak]
      BY <1>1, Zenon DEF Plan
    <2>2. run'.pc = "render" /\ run'.base = run.base /\ run'.target = run.target
          /\ run'.writes = run.writes /\ run'.landed = run.landed
      BY <1>0, <2>1
    <2> QED
      BY <1>0, <1>1, <2>2 DEF Plan
  <1>2. ASSUME NEW drawn \in SUBSET run.regen, NEW decayed \in {run.decay, {}},
               Wave(drawn, decayed)
        PROVE  /\ run'.pc = "save" /\ run'.landed \in SUBSET Files
               /\ run'.base = run.base /\ run'.target = run.target
               /\ run'.writes = run.writes /\ UNCHANGED <<sync, docs, mode>>
    BY <1>0, <1>2 DEF Wave
  <1>3. CASE RenderTemplates
    BY <1>2, <1>3 DEF RenderTemplates
  <1>4. CASE PersistPages
    BY <1>2, <1>4 DEF PersistPages
  <1>5. CASE LeavePages
    BY <1>0, <1>5 DEF LeavePages
  <1>6. ASSUME NEW f \in Files, Checkpoint(f)
        PROVE  /\ run.pc # "idle" /\ run'.pc = "render" /\ run'.landed \in SUBSET Files
               /\ run'.base = run.base /\ run'.target = run.target
               /\ run'.writes = run.writes /\ UNCHANGED <<sync, docs, mode>>
    BY <1>0, <1>6 DEF Checkpoint
  <1>7. CASE \/ \E asked \in {"plain", "docs", "index"} : Begin(asked)
             \/ NoChanges \/ Rescore \/ SaveIndex \/ SaveDocs \/ Aborts
    BY <1>7 DEF NoChanges, Rescore, SaveIndex, SaveDocs, Aborts
  <1>8. CASE \/ \E asked \in {"plain", "docs", "index"} : Backfill(asked)
             \/ Commit \/ EditConfig \/ Upgrade \/ UNCHANGED vars
    BY <1>8 DEF Backfill, Commit, EditConfig, Upgrade
  <1> QED
    BY <1>1, <1>3, <1>4, <1>5, <1>6, <1>7, <1>8 DEF Next, Advance

\* A page stays as covered as it was, or is drawn from what the run parsed.
LEMMA PagesMove ==
  ASSUME TypeOK, [Next]_vars, NEW f \in Files
  PROVE  \/ /\ version'[f] = version[f]
            /\ f \in stale \cup missed => f \in stale' \cup missed'
         \/ run.pc = "render" /\ version'[f] = run.seen[f]
  <1>0. run \in Run /\ version \in [Files -> Commits]
    BY DEF TypeOK
  <1> USE DEF vars, pages
  <1>1. ASSUME NEW drawn \in SUBSET run.regen, NEW decayed \in {run.decay, {}},
               Wave(drawn, decayed), run.pc = "render"
        PROVE  \/ /\ version'[f] = version[f]
                  /\ f \in stale \cup missed => f \in stale' \cup missed'
               \/ run.pc = "render" /\ version'[f] = run.seen[f]
    <2>1. /\ version' = [g \in Files |-> IF g \in drawn THEN run.seen[g] ELSE version[g]]
          /\ stale' = (stale \ drawn) \cup decayed
          /\ missed' = (missed \cup run.regen \cup (run.decay \ decayed)) \ drawn
      BY <1>1 DEF Wave
    <2> QED
      BY <1>1, <2>1
  <1>2. CASE RenderTemplates
    BY <1>1, <1>2 DEF RenderTemplates
  <1>3. CASE PersistPages
    BY <1>1, <1>3 DEF PersistPages
  <1>4. ASSUME NEW g \in Files, Checkpoint(g)
        PROVE  \/ /\ version'[f] = version[f]
                  /\ f \in stale \cup missed => f \in stale' \cup missed'
               \/ run.pc = "render" /\ version'[f] = run.seen[f]
    <2>1. /\ run.pc = "render" /\ version' = [version EXCEPT ![g] = run.seen[g]]
          /\ stale' = stale \ {g} /\ missed' = missed \ {g}
      BY <1>4 DEF Checkpoint
    <2> QED
      BY <1>0, <2>1
  <1>5. CASE ~ (RenderTemplates \/ PersistPages \/ \E g \in Files : Checkpoint(g))
    <2>1. UNCHANGED <<version, stale, missed>>
      BY <1>5, Zenon DEF Next, Advance, Commit, EditConfig, Upgrade, Begin, Backfill,
         NoChanges, Rescore, Plan, LeavePages, SaveIndex, SaveDocs, Aborts
    <2> QED
      BY <2>1
  <1> QED
    BY <1>2, <1>3, <1>4, <1>5

-----------------------------------------------------------------------------
(* The run.                                                                  *)

LEMMA RunStep ==
  ASSUME TypeOK, PointerInv, RunInv, [Next]_vars
  PROVE  RunInv'
  <1>1. CASE run' = Idle
    BY <1>1 DEF RunInv, Idle
  <1>2. ASSUME NEW asked \in {"plain", "docs", "index"}, Begin(asked)
        PROVE  RunInv'
    <2>1. UNCHANGED <<sync, docs, mode, history>>
      BY <1>2 DEF Begin, saved, outside
    <2>2. /\ run'.base = Base(Writes(asked)) /\ run'.writes = Writes(asked)
          /\ run'.target = HEAD /\ run'.landed = {}
      BY <1>2 DEF Begin, Idle
    <2>3. Base(run.writes)' = Base(Writes(asked)) /\ HEAD' = HEAD /\ sync' <= HEAD
          /\ HEAD \in Nat
      BY <2>1, <2>2, Numbers DEF Base, HEAD, PointerInv
    <2> QED
      BY <2>2, <2>3 DEF RunInv
  <1>3. CASE run' = run /\ UNCHANGED <<sync, docs, mode>>
    <2>1. Base(run.writes)' = Base(run.writes)
      BY <1>3 DEF Base
    <2> QED
      BY <1>3, <2>1, HistoryGrows, Numbers DEF RunInv
  <1>4. CASE /\ run.pc # "idle" /\ run'.base = run.base /\ run'.target = run.target
             /\ run'.writes = run.writes /\ run'.pc \in {"render", "save"}
             /\ UNCHANGED <<sync, docs, mode>>
    <2>1. Base(run.writes)' = Base(run.writes)
      BY <1>4 DEF Base
    <2> QED
      BY <1>4, <2>1, HistoryGrows, Numbers DEF RunInv
  <1> QED
    BY <1>1, <1>2, <1>3, <1>4, RunMoves

-----------------------------------------------------------------------------
(* The plan and the wave.                                                    *)

\* A wave disposes of everything the plan named.
LEMMA WaveCovers ==
  ASSUME TypeOK, PlanInv, run.pc = "render", NEW drawn \in SUBSET run.regen,
         NEW decayed \in {run.decay, {}}, Wave(drawn, decayed),
         NEW c \in run.base + 1 .. run.target, c <= HEAD, NEW f \in history[c]
  PROVE  version'[f] >= c \/ f \in stale' \cup missed'
  <1>1. c \in 1 .. run.target /\ c \in 1 .. HEAD
    BY Numbers
  <1>2. f \in Files /\ run.seen[f] >= c /\ f \in run.regen \cup run.decay
    BY <1>1, Numbers DEF PlanInv
  <1>3. /\ version' = [g \in Files |-> IF g \in drawn THEN run.seen[g] ELSE version[g]]
        /\ stale' = (stale \ drawn) \cup decayed
        /\ missed' = (missed \cup run.regen \cup (run.decay \ decayed)) \ drawn
    BY DEF Wave
  <1> QED
    BY <1>2, <1>3

LEMMA PlanStep ==
  ASSUME TypeOK, PointerInv, RunInv, PlanInv, [Next]_vars
  PROVE  PlanInv'
  <1> USE DEF PlanInv
  <1>0. run \in Run
    BY DEF TypeOK
  <1>1. ASSUME run.pc \in {"render", "save"}, run'.pc \in {"render", "save"},
               run'.base = run.base, run'.target = run.target, run'.writes = run.writes,
               run'.seen = run.seen, run'.regen = run.regen, run'.decay = run.decay,
               ~ run'.writes /\ (run'.pc = "render" \/ mode' = "llm") => run'.landed = {}
        PROVE  PlanInv'
    <2>1. \A c \in 1 .. run.target : history'[c] = history[c]
      BY <1>1, HistoryGrows, Numbers DEF RunInv
    <2>2. run.base + 1 .. run.target \subseteq 1 .. run.target
      BY Numbers
    <2> QED
      BY <1>1, <2>1, <2>2
  <1>2. CASE Plan
    <2>1. PICK regen \in SUBSET Files, decay \in SUBSET Files, hurt \in BOOLEAN :
            /\ RunDiff \subseteq regen \cup decay
            /\ run' = [run EXCEPT !.pc = "render", !.seen = tree, !.hurt = hurt,
                                  !.regen = regen, !.decay = decay]
      BY <1>2, PlanShape
    <2>2. /\ run'.seen = tree /\ run'.regen = regen /\ run'.decay = decay
          /\ run'.base = run.base /\ run'.target = run.target /\ run'.landed = run.landed
      BY <1>0, <2>1 DEF Run
    <2>3. history' = history
      BY <1>2 DEF Plan, outside
    <2>4. run.target <= HEAD /\ run.landed = {}
      BY <1>2 DEF Plan, RunInv
    <2>5. \A c \in 1 .. run.target : \A f \in history[c] : tree[f] >= c
      BY <2>4, Numbers DEF PointerInv
    <2>6. \A c \in run.base + 1 .. run.target : history[c] \subseteq regen \cup decay
      BY <2>1, DiffMember
    <2> QED
      BY <2>2, <2>3, <2>4, <2>5, <2>6
  <1>3. ASSUME NEW drawn \in SUBSET run.regen, NEW decayed \in {run.decay, {}},
               Wave(drawn, decayed), run.pc = "render", run.writes \/ mode # "llm"
        PROVE  PlanInv'
    <2>1. /\ run'.pc = "save" /\ run'.base = run.base /\ run'.target = run.target
          /\ run'.writes = run.writes /\ run'.seen = run.seen /\ run'.regen = run.regen
          /\ run'.decay = run.decay /\ mode' = mode
      BY <1>0, <1>3 DEF Wave, Run
    <2> QED
      BY <1>1, <1>3, <2>1
  <1>4. CASE RenderTemplates
    BY <1>3, <1>4 DEF RenderTemplates
  <1>5. CASE PersistPages
    BY <1>3, <1>5 DEF PersistPages
  <1>6. CASE LeavePages
    <2>1. /\ run.pc = "render" /\ run'.pc = "save" /\ run'.base = run.base
          /\ run'.target = run.target /\ run'.writes = run.writes /\ run'.seen = run.seen
          /\ run'.regen = run.regen /\ run'.decay = run.decay /\ run'.landed = run.landed
      BY <1>0, <1>6 DEF LeavePages, Run
    <2> QED
      BY <1>1, <1>6, <2>1 DEF LeavePages
  <1>7. ASSUME NEW f \in Files, Checkpoint(f)
        PROVE  PlanInv'
    <2>1. /\ run.pc = "render" /\ run'.pc = "render" /\ run'.base = run.base
          /\ run'.target = run.target /\ run'.writes = run.writes /\ run'.seen = run.seen
          /\ run'.regen = run.regen /\ run'.decay = run.decay /\ run.writes
      BY <1>0, <1>7 DEF Checkpoint, Run
    <2> QED
      BY <1>1, <2>1
  <1>8. CASE run' = Idle
    BY <1>8 DEF Idle
  <1>9. ASSUME NEW asked \in {"plain", "docs", "index"}, Begin(asked)
        PROVE  PlanInv'
    BY <1>9 DEF Begin, Idle
  <1>10. CASE run' = run /\ mode' = mode
    BY <1>1, <1>10
  <1>11. CASE ~ (\/ Plan \/ RenderTemplates \/ PersistPages \/ LeavePages
                 \/ \E f \in Files : Checkpoint(f)
                 \/ \E asked \in {"plain", "docs", "index"} : Begin(asked))
    <2>1. run' = Idle \/ (run' = run /\ mode' = mode)
      BY <1>11, Zenon DEF Next, Advance, vars, Commit, EditConfig, Upgrade, Backfill,
         NoChanges, Rescore, SaveIndex, SaveDocs, Aborts
    <2> QED
      BY <1>8, <1>10, <2>1
  <1> QED
    BY <1>2, <1>4, <1>5, <1>6, <1>7, <1>9, <1>11

LEMMA WaveStep ==
  ASSUME TypeOK, PointerInv, RunInv, PlanInv, WaveInv, [Next]_vars
  PROVE  WaveInv'
  <1>0. run \in Run
    BY DEF TypeOK
  <1>1. ASSUME NEW drawn \in SUBSET run.regen, NEW decayed \in {run.decay, {}},
               Wave(drawn, decayed), run.pc = "render"
        PROVE  WaveInv'
    <2>1. run'.base = run.base /\ run'.target = run.target /\ history' = history
      BY <1>0, <1>1 DEF Wave, Run, outside
    <2>2. run.target <= HEAD /\ run.target \in Nat /\ run.base \in Nat /\ HEAD \in Nat
      BY <1>1, Numbers DEF RunInv
    <2> SUFFICES ASSUME NEW c \in run.base + 1 .. run.target, NEW f \in history[c]
                 PROVE  version'[f] >= c \/ f \in stale' \cup missed'
      BY <2>1 DEF WaveInv
    <2>3. c <= HEAD
      BY <2>2
    <2> QED
      BY <1>1, <2>3, WaveCovers
  <1>2. CASE RenderTemplates
    BY <1>1, <1>2 DEF RenderTemplates
  <1>3. CASE PersistPages
    BY <1>1, <1>3 DEF PersistPages
  <1>4. CASE run'.pc # "save"
    BY <1>4 DEF WaveInv
  <1>5. CASE LeavePages
    <2>1. run'.writes = run.writes /\ mode' = mode
      BY <1>0, <1>5 DEF LeavePages, Run
    <2> QED
      BY <1>5, <2>1 DEF LeavePages, WaveInv
  <1>6. ASSUME run' = run, UNCHANGED <<version, stale, missed, mode>>
        PROVE  WaveInv'
    <2> SUFFICES ASSUME run.pc = "save", run.writes \/ mode = "deterministic",
                        NEW c \in run.base + 1 .. run.target, NEW f \in history'[c]
                 PROVE  version[f] >= c \/ f \in stale \cup missed
      BY <1>6 DEF WaveInv
    <2>1. c \in 1 .. HEAD
      BY Numbers DEF RunInv
    <2>2. f \in history[c]
      BY <2>1, HistoryGrows
    <2> QED
      BY <2>2 DEF WaveInv
  <1>7. CASE ~ (RenderTemplates \/ PersistPages \/ LeavePages)
    <2>1. CASE \/ Plan \/ \E asked \in {"plain", "docs", "index"} : Begin(asked)
               \/ \E f \in Files : Checkpoint(f)
      <3>1. run'.pc # "save"
        <4>1. CASE Plan
          BY <1>0, <4>1, PlanShape DEF Run
        <4>2. CASE \E asked \in {"plain", "docs", "index"} : Begin(asked)
          BY <4>2 DEF Begin, Idle
        <4>3. CASE \E f \in Files : Checkpoint(f)
          BY <1>0, <4>3 DEF Checkpoint, Run
        <4> QED
          BY <2>1, <4>1, <4>2, <4>3
      <3> QED
        BY <1>4, <3>1
    <2>2. CASE ~ (\/ Plan \/ \E asked \in {"plain", "docs", "index"} : Begin(asked)
                  \/ \E f \in Files : Checkpoint(f))
      <3>1. run' = Idle \/ (run' = run /\ UNCHANGED <<version, stale, missed, mode>>)
        BY <1>7, <2>2, Zenon DEF Next, Advance, vars, pages, Commit, EditConfig, Upgrade,
           Backfill, NoChanges, Rescore, SaveIndex, SaveDocs, Aborts
      <3>2. CASE run' = Idle
        BY <1>4, <3>2 DEF Idle
      <3> QED
        BY <1>6, <3>1, <3>2
    <2> QED
      BY <2>1, <2>2
  <1> QED
    BY <1>2, <1>3, <1>5, <1>7

-----------------------------------------------------------------------------
(* No silent lag.                                                            *)

\* Whatever the pointer, a commit it has passed is one the run in progress has
\* parsed.
LEMMA NextBaseBound ==
  ASSUME TypeOK, PointerInv, RunInv
  PROVE  /\ NextBase \in Nat /\ NextBase <= sync /\ sync <= HEAD
         /\ run.pc # "idle" /\ (run.writes \/ mode # "llm" \/ docs = Unset)
              => run.base <= NextBase
  <1>1. /\ sync <= HEAD /\ sync \in Nat /\ mode \in {"llm", "deterministic"}
        /\ docs # Unset => docs \in Nat /\ docs <= sync
    BY Numbers DEF PointerInv
  <1>2. NextBase = IF mode = "llm" /\ docs # Unset THEN docs ELSE sync
    BY DEF NextBase, Base
  <1>3. run.pc # "idle" => run.base = IF run.writes /\ docs # Unset THEN docs ELSE sync
    BY DEF RunInv, Base
  <1>4. CASE docs = Unset
    BY <1>1, <1>2, <1>3, <1>4
  <1>5. CASE docs # Unset /\ mode = "llm"
    BY <1>1, <1>2, <1>3, <1>5
  <1>6. CASE docs # Unset /\ mode # "llm"
    BY <1>1, <1>2, <1>3, <1>6
  <1> QED
    BY <1>4, <1>5, <1>6

\* Covered now, a commit stays covered.
LEMMA StaysCovered ==
  ASSUME DocsInv, [Next]_vars, NEW c \in 1 .. NextBase, NEW f \in history[c]
  PROVE  version'[f] >= c \/ f \in stale' \cup missed' \/ c \in dropped'
  <1> USE DEF DocsInv
  <1>1. c \in 1 .. HEAD /\ c <= sync
    BY NextBaseBound, Numbers
  <1>2. f \in Files
    BY <1>1, Numbers
  <1>3. version[f] >= c \/ f \in stale \cup missed \/ c \in dropped
    BY DEF DocsCovered
  <1>4. dropped \subseteq dropped'
    BY Zenon DEF Next, Advance, vars, saved, Commit, EditConfig, Upgrade, Begin, Backfill,
       NoChanges, Rescore, Plan, RenderTemplates, PersistPages, Wave, LeavePages,
       Checkpoint, SaveIndex, SaveDocs, Aborts
  <1>5. CASE run.pc = "render" /\ version'[f] = run.seen[f]
    <2>1. c \in 1 .. run.target
      BY <1>1, <1>5, Numbers DEF RunInv
    <2> QED
      BY <1>5, <2>1 DEF PlanInv
  <1> QED
    BY <1>2, <1>3, <1>4, <1>5, PagesMove

\* Where a run has disposed of its diff, its target is covered.
LEMMA TargetCovered ==
  ASSUME DocsInv, [Next]_vars, run.pc # "idle", UNCHANGED <<version, stale, missed>>,
         run.writes \/ mode # "llm" \/ docs = Unset,
         \A c \in run.base + 1 .. run.target : \A f \in history[c] :
           version[f] >= c \/ f \in stale \cup missed \/ c \in dropped',
         NEW c \in 1 .. run.target, NEW f \in history[c]
  PROVE  version'[f] >= c \/ f \in stale' \cup missed' \/ c \in dropped'
  <1> USE DEF DocsInv
  <1>1. run.base <= NextBase
    BY NextBaseBound, Numbers DEF RunInv
  <1>2. CASE c <= run.base
    BY <1>1, <1>2, NextBaseBound, Numbers, StaysCovered
  <1>3. CASE c > run.base
    BY <1>3, Numbers
  <1> QED
    BY <1>2, <1>3, Numbers

LEMMA CoveredStep ==
  ASSUME DocsInv, [Next]_vars
  PROVE  DocsCovered'
  <1> USE DEF DocsInv
  <1>1. ASSUME NextBase' = NextBase
        PROVE  DocsCovered'
    <2> SUFFICES ASSUME NEW c \in 1 .. NextBase, NEW f \in history'[c]
                 PROVE  version'[f] >= c \/ f \in stale' \cup missed' \/ c \in dropped'
      BY <1>1 DEF DocsCovered
    <2>1. c \in 1 .. HEAD
      BY NextBaseBound, Numbers
    <2> QED
      BY <2>1, HistoryGrows, StaysCovered
  <1>2. ASSUME run.pc # "idle", UNCHANGED <<history, version, stale, missed>>,
               NextBase' = run.target, run.writes \/ mode # "llm" \/ docs = Unset,
               \A c \in run.base + 1 .. run.target : \A f \in history[c] :
                 version[f] >= c \/ f \in stale \cup missed \/ c \in dropped'
        PROVE  DocsCovered'
    <2> SUFFICES ASSUME NEW c \in 1 .. run.target, NEW f \in history[c]
                 PROVE  version'[f] >= c \/ f \in stale' \cup missed' \/ c \in dropped'
      BY <1>2 DEF DocsCovered
    <2> QED
      BY <1>2, TargetCovered
  <1>3. CASE NoChanges
    <2>1. /\ run.pc # "idle" /\ UNCHANGED <<history, version, stale, missed, mode>>
          /\ sync' = run.target /\ docs' = IF run.writes THEN run.target ELSE docs
      BY <1>3 DEF NoChanges, outside, pages
    <2>2. \A c \in run.base + 1 .. run.target : history[c] = {}
      BY <1>3, DiffMember DEF NoChanges
    <2>3. \/ NextBase' = run.target /\ (run.writes \/ mode # "llm" \/ docs = Unset)
          \/ NextBase' = NextBase
      BY <2>1, Numbers, DocsAssumption DEF NextBase, Base
    <2> QED
      BY <1>1, <1>2, <2>1, <2>2, <2>3
  <1>4. CASE Rescore
    <2>1. /\ run.pc # "idle" /\ UNCHANGED <<history, version, stale, missed, mode, docs>>
          /\ sync' = run.target
          /\ dropped' = IF mode = "llm" /\ docs # Unset
                        THEN dropped ELSE dropped \cup (sync + 1 .. run.target)
      BY <1>4 DEF Rescore, outside, pages
    <2>2. CASE mode = "llm" /\ docs # Unset
      BY <1>1, <2>1, <2>2 DEF NextBase, Base
    <2>3. CASE ~ (mode = "llm" /\ docs # Unset)
      <3>1. NextBase' = run.target /\ NextBase = sync
        BY <2>1, <2>3 DEF NextBase, Base
      <3>2. sync + 1 .. run.target \subseteq dropped'
        BY <2>1, <2>3
      <3> SUFFICES ASSUME NEW c \in 1 .. run.target, NEW f \in history[c]
                   PROVE  version'[f] >= c \/ f \in stale' \cup missed' \/ c \in dropped'
        BY <2>1, <3>1 DEF DocsCovered
      <3>3. CASE c <= sync
        BY <3>1, <3>3, Numbers, StaysCovered
      <3>4. CASE c > sync
        BY <3>2, <3>4, Numbers
      <3> QED
        BY <3>3, <3>4, Numbers
    <2> QED
      BY <2>2, <2>3
  <1>5. CASE SaveIndex
    <2>1. /\ run.pc = "save" /\ ~ run.writes
          /\ UNCHANGED <<history, version, stale, missed, mode>>
          /\ sync' = run.target
          /\ docs' = CASE run.landed # {} -> run.target
                       [] run.landed = {} /\ docs = Unset -> sync
                       [] OTHER -> docs
      BY <1>5 DEF SaveIndex, outside, pages
    <2>2. CASE mode = "llm"
      <3>1. run.landed = {}
        BY <2>1, <2>2 DEF PlanInv
      <3>2. docs' = IF docs = Unset THEN sync ELSE docs
        BY <2>1, <3>1
      <3>3. sync # Unset
        BY Numbers, DocsAssumption
      <3>4. NextBase' = NextBase
        BY <2>1, <2>2, <3>2, <3>3 DEF NextBase, Base
      <3> QED
        BY <1>1, <3>4
    <2>3. CASE mode = "deterministic"
      <3>1. NextBase' = run.target
        BY <2>1, <2>3 DEF NextBase, Base
      <3>2. \A c \in run.base + 1 .. run.target : \A f \in history[c] :
              version[f] >= c \/ f \in stale \cup missed
        BY <2>1, <2>3 DEF WaveInv
      <3>3. mode # "llm"
        BY <2>3
      <3> QED
        BY <1>2, <2>1, <3>1, <3>2, <3>3
    <2> QED
      BY <2>2, <2>3, Numbers
  <1>6. CASE SaveDocs
    <2>1. /\ run.pc = "save" /\ run.writes
          /\ UNCHANGED <<history, version, stale, missed, mode>>
          /\ sync' = run.target /\ docs' = run.target
      BY <1>6 DEF SaveDocs, outside, pages
    <2>2. NextBase' = run.target
      BY <2>1 DEF NextBase, Base
    <2>3. \A c \in run.base + 1 .. run.target : \A f \in history[c] :
            version[f] >= c \/ f \in stale \cup missed
      BY <2>1 DEF WaveInv
    <2> QED
      BY <1>2, <2>1, <2>2, <2>3
  <1>7. CASE ~ (NoChanges \/ Rescore \/ SaveIndex \/ SaveDocs)
    <2>1. UNCHANGED <<sync, docs, mode>>
      BY <1>7, Zenon DEF Next, Advance, vars, saved, Commit, EditConfig, Upgrade, Begin,
         Backfill, Plan, RenderTemplates, PersistPages, Wave, LeavePages, Checkpoint, Aborts
    <2>2. NextBase' = NextBase
      BY <2>1 DEF NextBase, Base
    <2> QED
      BY <1>1, <2>2
  <1> QED
    BY <1>3, <1>4, <1>5, <1>6, <1>7

-----------------------------------------------------------------------------
(* Every page, not only the diff's.                                          *)

\* What a plan whose sweep succeeded leaves out is as this release would draw it.
KeptInv ==
  run.pc = "render" /\ ~ run.hurt =>
    \A f \in Files \ run.regen : version[f] = run.seen[f] /\ by[f] = release

LEMMA KeptStep ==
  ASSUME TypeOK, PointerInv, RunInv, KeptInv, [Next]_vars
  PROVE  KeptInv'
  <1> USE DEF KeptInv
  <1>0. run \in Run /\ version \in [Files -> Commits] /\ by \in [Files -> 0 .. MaxReleases]
    BY DEF TypeOK
  <1>1. CASE Plan
    <2>1. PICK regen \in SUBSET Files, decay \in SUBSET Files, hurt \in BOOLEAN :
            /\ ~ hurt => Outdated \subseteq regen
            /\ run' = [run EXCEPT !.pc = "render", !.seen = tree, !.hurt = hurt,
                                  !.regen = regen, !.decay = decay]
      BY <1>1, PlanShape
    <2>2. run'.seen = tree /\ run'.regen = regen /\ run'.hurt = hurt
      BY <1>0, <2>1 DEF Run
    <2>3. UNCHANGED <<version, by, release>>
      BY <1>1 DEF Plan, pages, outside
    <2> QED
      BY <2>1, <2>2, <2>3 DEF Outdated
  <1>2. ASSUME NEW f \in Files, Checkpoint(f)
        PROVE  KeptInv'
    <2>1. /\ run.pc = "render" /\ f \in run.regen /\ release' = release
          /\ version' = [version EXCEPT ![f] = run.seen[f]]
          /\ by' = [by EXCEPT ![f] = release]
          /\ run' = [run EXCEPT !.landed = @ \cup {f}]
      BY <1>2 DEF Checkpoint, outside
    <2>2. run'.seen = run.seen /\ run'.regen = run.regen /\ run'.hurt = run.hurt
      BY <1>0, <2>1 DEF Run
    <2>3. \A g \in Files \ run.regen : version'[g] = version[g] /\ by'[g] = by[g]
      BY <1>0, <2>1
    <2> QED
      BY <2>1, <2>2, <2>3
  <1>3. CASE run'.pc # "render"
    BY <1>3
  <1>4. CASE ~ (Plan \/ \E f \in Files : Checkpoint(f))
    <2>1. CASE Commit \/ EditConfig \/ Upgrade \/ UNCHANGED vars
                 \/ \E asked \in {"plain", "docs", "index"} : Backfill(asked)
      <3>1. run' = run /\ UNCHANGED <<version, by>> /\ (run.pc = "idle" \/ release' = release)
        BY <2>1, Zenon DEF vars, outside, pages, Commit, EditConfig, Upgrade, Backfill
      <3> QED
        BY <3>1
    <2>2. CASE \E asked \in {"plain", "docs", "index"} : Begin(asked)
      BY <2>2 DEF Begin, Idle
    <2>3. CASE NoChanges \/ Rescore \/ SaveIndex \/ SaveDocs \/ Aborts
      BY <2>3 DEF NoChanges, Rescore, SaveIndex, SaveDocs, Aborts, Idle
    <2>4. CASE RenderTemplates \/ PersistPages \/ LeavePages
      <3>1. run'.pc = "save"
        BY <1>0, <2>4 DEF RenderTemplates, PersistPages, LeavePages, Wave, Run
      <3> QED
        BY <1>3, <3>1
    <2> QED
      BY <1>4, <2>1, <2>2, <2>3, <2>4 DEF Next, Advance
  <1> QED
    BY <1>1, <1>2, <1>4

LEMMA HealStep ==
  ASSUME TypeOK, PointerInv, RunInv, KeptInv, PlannedRunHeals, [Next]_vars
  PROVE  PlannedRunHeals'
  <1> USE DEF PlannedRunHeals
  <1>0. run \in Run /\ version \in [Files -> Commits] /\ run.seen \in [Files -> Commits]
    BY Numbers DEF TypeOK
  <1>1. ASSUME NEW drawn \in SUBSET run.regen, NEW decayed \in {run.decay, {}},
               Wave(drawn, decayed), run.pc = "render"
        PROVE  PlannedRunHeals'
    <2>1. /\ version' = [f \in Files |-> IF f \in drawn THEN run.seen[f] ELSE version[f]]
          /\ by' = [f \in Files |-> IF f \in drawn THEN release ELSE by[f]]
          /\ release' = release
      BY <1>1 DEF Wave, outside
    <2>2. run'.seen = run.seen /\ (~ run'.hurt => ~ run.hurt /\ drawn = run.regen)
      BY <1>0, <1>1 DEF Wave, Run
    <2> SUFFICES ASSUME ~ run.hurt, drawn = run.regen
                 PROVE  version' = run.seen /\ \A f \in Files : by'[f] = release
      BY <2>1, <2>2
    <2>3. \A f \in Files : version'[f] = run.seen[f] /\ by'[f] = release
      BY <1>1, <2>1 DEF KeptInv
    <2> QED
      BY <1>0, <2>1, <2>3
  <1>2. CASE RenderTemplates
    BY <1>1, <1>2 DEF RenderTemplates
  <1>3. CASE PersistPages
    BY <1>1, <1>3 DEF PersistPages
  <1>4. CASE LeavePages
    <2>1. run'.writes = run.writes /\ mode' = mode
      BY <1>0, <1>4 DEF LeavePages, Run
    <2> QED
      BY <1>4, <2>1 DEF LeavePages
  <1>5. CASE run'.pc # "save"
    BY <1>5
  <1>6. CASE \/ Plan \/ \E asked \in {"plain", "docs", "index"} : Begin(asked)
             \/ \E f \in Files : Checkpoint(f)
    <2>1. CASE Plan
      BY <1>0, <1>5, <2>1, PlanShape DEF Run
    <2>2. CASE \E asked \in {"plain", "docs", "index"} : Begin(asked)
      BY <1>5, <2>2 DEF Begin, Idle
    <2>3. CASE \E f \in Files : Checkpoint(f)
      BY <1>0, <1>5, <2>3 DEF Checkpoint, Run
    <2> QED
      BY <1>6, <2>1, <2>2, <2>3
  <1>7. CASE NoChanges \/ Rescore \/ SaveIndex \/ SaveDocs \/ Aborts
    BY <1>7 DEF NoChanges, Rescore, SaveIndex, SaveDocs, Aborts, Idle
  <1>8. CASE \/ Commit \/ EditConfig \/ Upgrade \/ UNCHANGED vars
             \/ \E asked \in {"plain", "docs", "index"} : Backfill(asked)
    <2>1. /\ run' = run /\ UNCHANGED <<version, by, mode>>
          /\ run.pc = "idle" \/ release' = release
      BY <1>8, Zenon DEF vars, outside, pages, Commit, EditConfig, Upgrade, Backfill
    <2> QED
      BY <2>1
  <1> QED
    BY <1>2, <1>3, <1>4, <1>6, <1>7, <1>8 DEF Next, Advance

-----------------------------------------------------------------------------
(* The theorems.                                                             *)

LEMMA DocsInit ==
  ASSUME DocsAssumption, Init
  PROVE  DocsInv
  <1>1. HEAD = 0
    BY DEF Init, HEAD
  <1>2. TypeOK
    <2>1. Idle \in Run
      BY DocsAssumption DEF Idle, Run, Commits
    <2>2. history \in Seq(SUBSET Files)
      BY DEF Init
    <2> QED
      BY <1>1, <2>1, <2>2, DocsAssumption DEF Init, TypeOK, Commits
  <1>3. NextBase = 0
    BY DEF Init, NextBase, Base
  <1> QED
    BY <1>1, <1>2, <1>3 DEF Init, DocsInv, PointerInv, RunInv, PlanInv, WaveInv, DocsCovered, Idle

LEMMA DocsStep ==
  ASSUME DocsAssumption, DocsInv, [Next]_vars
  PROVE  DocsInv'
  BY TypeStep, PointerStep, RunStep, PlanStep, WaveStep, CoveredStep DEF DocsInv

THEOREM DocsInvariant == Spec => []DocsInv
  BY DocsInit, DocsStep, DocsAssumption, PTL DEF Spec

\* The types hold of every repository, budget and bound.
THEOREM DocsTypeCorrect == Spec => []TypeOK
  BY DocsInvariant, PTL DEF DocsInv

\* No update of any kind, whatever was asked before it, failed or was killed,
\* moves the pointer past a change that a page neither has nor owns up to;
\* a run for a changed configuration is the one that does.
THEOREM PointersLeaveNoPageBehind == Spec => []DocsCovered
  BY DocsInvariant, PTL DEF DocsInv

\* A run that reaches its save unhurt has every page as its parse and renderer
\* have it, whatever earlier runs left undone.
THEOREM PlannedRunsHeal == Spec => []PlannedRunHeals
  <1>1. Init => KeptInv /\ PlannedRunHeals
    BY DEF Init, Idle, KeptInv, PlannedRunHeals
  <1>2. DocsInv /\ KeptInv /\ PlannedRunHeals /\ [Next]_vars => KeptInv' /\ PlannedRunHeals'
    BY KeptStep, HealStep DEF DocsInv
  <1> QED
    BY <1>1, <1>2, DocsInvariant, PTL DEF Spec

-----------------------------------------------------------------------------
(* What never goes back.                                                     *)

\* No source is newer than HEAD, and no page than its source, nor than what the run
\* about to draw has parsed.
SourceInv ==
  \A f \in Files :
    /\ version[f] <= tree[f] /\ tree[f] <= HEAD
    /\ run.pc = "render" => version[f] <= run.seen[f] /\ run.seen[f] <= tree[f]

\* The step takes neither pointer, nor any page, to an older commit.
NeverBack ==
  /\ sync' >= sync
  /\ docs # Unset => docs' # Unset /\ docs' >= docs
  /\ NextBase' >= NextBase
  /\ \A f \in Files : version'[f] >= version[f]

\* A run keeps what it parsed until its pages are drawn.
LEMMA SeenMoves ==
  ASSUME TypeOK, [Next]_vars, run'.pc = "render"
  PROVE  \/ run'.seen = tree /\ UNCHANGED <<tree, version>>
         \/ run.pc = "render" /\ run'.seen = run.seen
  <1>0. run \in Run
    BY DEF TypeOK
  <1>1. CASE Plan
    <2>1. PICK importers \in SUBSET (Files \ RunDiff), weak \in SUBSET (Files \ RunDiff),
               governed \in SUBSET Files :
            /\ Reach(importers, weak, governed)
            /\ \E kept \in Within(RunDiff \cup importers), swept \in {Outdated, {}} :
                 /\ Fault(swept = Outdated)
                 /\ run' = [run EXCEPT
                      !.pc = "render", !.seen = tree, !.hurt = (swept # Outdated),
                      !.regen = kept \cup swept \cup governed,
                      !.decay = ((RunDiff \cup importers) \ kept) \cup weak]
      BY <1>1, Zenon DEF Plan
    <2>2. run'.seen = tree
      BY <1>0, <2>1 DEF Run
    <2> QED
      BY <1>1, <2>2 DEF Plan, outside, pages
  <1>2. ASSUME NEW f \in Files, Checkpoint(f)
        PROVE  run.pc = "render" /\ run'.seen = run.seen
    BY <1>0, <1>2 DEF Checkpoint, Run
  <1>3. ASSUME NEW drawn \in SUBSET run.regen, NEW decayed \in {run.decay, {}},
               Wave(drawn, decayed)
        PROVE  FALSE
    BY <1>0, <1>3 DEF Wave, Run
  <1>4. CASE RenderTemplates \/ PersistPages
    BY <1>3, <1>4 DEF RenderTemplates, PersistPages
  <1>5. ASSUME NEW asked \in {"plain", "docs", "index"}, Begin(asked)
        PROVE  FALSE
    BY <1>5 DEF Begin, Idle
  <1>6. CASE NoChanges \/ Rescore \/ LeavePages \/ SaveIndex \/ SaveDocs \/ Aborts
    BY <1>0, <1>6 DEF NoChanges, Rescore, LeavePages, SaveIndex, SaveDocs, Aborts, Idle, Run
  <1>7. CASE \/ \E asked \in {"plain", "docs", "index"} : Backfill(asked)
             \/ Commit \/ EditConfig \/ Upgrade \/ UNCHANGED vars
    BY <1>7 DEF Backfill, Commit, EditConfig, Upgrade, vars
  <1> QED
    BY <1>1, <1>2, <1>4, <1>5, <1>6, <1>7 DEF Next, Advance

\* Sources only change by commits, to newer versions.
LEMMA TreeGrows ==
  ASSUME TypeOK, [Next]_vars, NEW f \in Files, tree[f] <= HEAD
  PROVE  /\ tree[f] \in Nat /\ tree'[f] \in Nat
         /\ tree[f] <= tree'[f] /\ tree'[f] <= HEAD'
  <1>1. tree[f] \in Nat /\ HEAD \in Nat
    BY Numbers
  <1>2. CASE Commit
    BY <1>1, <1>2, CommitShape
  <1>3. CASE ~ Commit
    BY <1>1, <1>3, StepShape DEF HEAD
  <1> QED
    BY <1>2, <1>3

LEMMA SourceStep ==
  ASSUME TypeOK, SourceInv, [Next]_vars
  PROVE  SourceInv' /\ \A f \in Files : version'[f] >= version[f]
  <1>1. ASSUME NEW f \in Files
        PROVE  /\ version'[f] <= tree'[f] /\ tree'[f] <= HEAD' /\ version'[f] >= version[f]
               /\ run'.pc = "render" => version'[f] <= run'.seen[f] /\ run'.seen[f] <= tree'[f]
    <2>1. version[f] \in Nat /\ run.seen[f] \in Nat
      BY Numbers
    <2>2. tree[f] \in Nat /\ tree'[f] \in Nat /\ tree[f] <= tree'[f] /\ tree'[f] <= HEAD'
      BY TreeGrows DEF SourceInv
    <2>3. version[f] <= tree[f]
          /\ (run.pc = "render" => version[f] <= run.seen[f] /\ run.seen[f] <= tree[f])
      BY DEF SourceInv
    <2>4. \/ version'[f] = version[f]
          \/ run.pc = "render" /\ version'[f] = run.seen[f]
      BY PagesMove
    <2>5. version'[f] <= tree'[f] /\ version'[f] >= version[f]
      BY <2>1, <2>2, <2>3, <2>4
    <2>6. ASSUME run'.pc = "render"
          PROVE  version'[f] <= run'.seen[f] /\ run'.seen[f] <= tree'[f]
      BY <2>1, <2>2, <2>3, <2>4, <2>6, SeenMoves
    <2> QED
      BY <2>2, <2>5, <2>6
  <1> QED
    BY <1>1 DEF SourceInv

LEMMA NeverBackStep ==
  ASSUME DocsInv, SourceInv, [Next]_vars
  PROVE  NeverBack
  <1>1. /\ sync \in Nat /\ run.target \in Nat /\ mode \in {"llm", "deterministic"}
        /\ docs # Unset => docs \in Nat /\ docs <= sync
    BY Numbers DEF DocsInv, PointerInv
  <1>2. Unset \notin Nat
    BY DocsAssumption
  <1>3. mode' = mode
    BY Zenon DEF vars, Next, Advance, Commit, EditConfig, Upgrade, Begin, Backfill, NoChanges,
       Rescore, Plan, RenderTemplates, PersistPages, Wave, LeavePages, Checkpoint, SaveIndex,
       SaveDocs, Aborts
  <1>4. CASE UNCHANGED <<sync, docs>>
    <2>1. NextBase' = NextBase
      BY <1>3, <1>4 DEF NextBase, Base
    <2>2. NextBase \in Nat
      BY <1>1 DEF NextBase, Base
    <2> QED
      BY <1>1, <1>4, <2>1, <2>2, SourceStep DEF NeverBack, DocsInv
  <1>5. CASE /\ run.pc # "idle" /\ sync' = run.target
             /\ docs' \in {docs, sync, run.target}
    <2>1. sync <= run.target
      BY <1>5 DEF DocsInv, RunInv
    <2>2. sync' >= sync /\ (docs # Unset => docs' # Unset /\ docs' >= docs)
      BY <1>1, <1>2, <1>5, <2>1
    <2>3. docs' # Unset => docs' >= sync \/ docs' = docs
      BY <1>1, <1>5, <2>1
    <2>4. NextBase' >= NextBase
      BY <1>1, <1>2, <1>3, <1>5, <2>1, <2>2, <2>3 DEF NextBase, Base
    <2> QED
      BY <2>2, <2>4, SourceStep DEF NeverBack, DocsInv
  <1> QED
    BY <1>4, <1>5, PointerMoves DEF DocsInv

\* Whatever kinds of run take turns, with faults and kills between and within them,
\* neither pointer ever goes back, so what CatchesUp has reached is not lost, and no
\* page is drawn over from an older source than it shows.
THEOREM NothingGoesBack == Spec => [][NeverBack]_vars
  <1>1. Init => SourceInv
    BY DEF Init, SourceInv, Idle, HEAD
  <1>2. DocsInv /\ SourceInv /\ [Next]_vars => SourceInv'
    BY SourceStep DEF DocsInv
  <1>3. DocsInv /\ SourceInv /\ [Next]_vars => [NeverBack]_vars
    BY NeverBackStep
  <1> QED
    BY <1>1, <1>2, <1>3, DocsInvariant, PTL DEF Spec

=============================================================================
