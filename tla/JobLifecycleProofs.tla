------------------------- MODULE JobLifecycleProofs -------------------------
(***************************************************************************)
(* What holds of the generation jobs for every set of jobs, repositories,   *)
(* concurrent progress writes and cancel requests, with failing writes,     *)
(* deletions and any number of crashes.                                     *)
(*                                                                          *)
(* The properties are not inductive: that a completed row never runs again  *)
(* depends on which statuses the row can have at each stage of its task     *)
(* (RowAtStage), and on the drain (ProgressAtStage).                        *)
(***************************************************************************)
EXTENDS JobLifecycle, TLAPS

\* A job has a row from its INSERT on, and its task finds the row in one of a
\* few statuses at each stage.
RowAtStage ==
  \A j \in Jobs :
    /\ pc[j] \in {"none", "checked"} <=> status[j] = "absent"
    /\ pc[j] \in {"inserted", "created", "fetch"}
         => status[j] \in {"pending", "cancelled", "deleted"}
    /\ pc[j] \in {"pipeline", "drain", "complete"}
         => status[j] \in {"running", "cancelled", "deleted"}
    /\ pc[j] \in {"unwind", "finalize"} /\ goal[j] = "failed"
         => status[j] \in {"pending", "running", "cancelled", "deleted"}

\* What the first transaction of a task can have read.
ReadAtFetch ==
  \A j \in Jobs : pc[j] = "fetch" => seen[j] \in {"open", "pending", "cancelled"}

\* Progress writes exist only between the start of the pipeline and the drain,
\* and while they do the row cannot be completed or failed.
ProgressAtStage ==
  \A j \in Jobs : \A p \in ProgressTasks : write[j][p] # "idle" =>
    /\ pc[j] \in {"pipeline", "drain", "unwind"}
    /\ status[j] \in {"running", "cancelled", "deleted"}

\* Nobody holds a transaction on a row that was never inserted.
WritersHaveRow ==
  \A j \in Jobs : \A w \in Writers : write[j][w] # "idle" => status[j] # "absent"

SlotRegistered == slot # NoJob => slot \in tokens

\* A crash takes every task and every transaction with it.
DownIsQuiet ==
  server = "down" =>
    \A j \in Jobs : pc[j] \in {"none", "done"} /\ Idle(j, Writers)

IInv ==
  /\ TypeOK
  /\ RowAtStage
  /\ ReadAtFetch
  /\ ProgressAtStage
  /\ WritersHaveRow
  /\ TokensMatchTasks
  /\ SlotRegistered
  /\ DownIsQuiet

\* The rest is for a database that accepts every status write: what the final
\* transaction has read,
ReadAtEnd ==
  \A j \in Jobs :
    /\ pc[j] = "complete" => seen[j] \in {"open", "running", "cancelled"}
    /\ pc[j] = "finalize" /\ goal[j] = "failed"
         => seen[j] \in {"open", "pending", "running", "cancelled"}
    /\ pc[j] = "finalize" /\ seen[j] = "cancelled" => status[j] \in {"cancelled", "deleted"}

\* that its commit leaves no active row,
EndedIsTerminal ==
  \A j \in Jobs : pc[j] \in {"completed", "finalized"} => status[j] \notin Active

\* and that a row still active after its task has ended awaits the fallback,
\* which has not yet read it as "cancelled".
FallbackOwns ==
  server = "up" =>
    \A j \in Jobs : pc[j] = "done" /\ status[j] \in Active
                    => write[j]["fallback"] \in {"open", "pending", "running"}

OwnerInv == ReadAtEnd /\ EndedIsTerminal /\ FallbackOwns

-----------------------------------------------------------------------------
(* Type correctness.  A transaction that reads the row reads a status, which *)
(* needs more than the types: the row must have been inserted.               *)

\* Both ways out of the executor's body keep the types of what they change.
LEMMA ExitTypes ==
  ASSUME TypeOK, NEW j \in Jobs, NEW final \in {"failed", "cancelled"},
         Unwind(j, final) \/ Leave(j)
  PROVE  /\ pc' \in [Jobs -> Stage]
         /\ seen' \in [Jobs -> Txn]
         /\ goal' \in [Jobs -> {"failed", "cancelled"}]
         /\ tokens' \subseteq Jobs
         /\ slot' \in Jobs \cup {NoJob}
PROOF
  <1>1. CASE Unwind(j, final)
    BY <1>1 DEF Unwind, TypeOK, Stage, Finalizing, InBody, Txn
  <1>2. CASE Leave(j)
    BY <1>2 DEF Leave, TypeOK, Stage, Txn
  <1> QED BY <1>1, <1>2

\* Every step keeps the types: a status read from a row is a row's status.
LEMMA TypeStep == ASSUME IInv, [Next]_vars PROVE TypeOK'
PROOF
  <1> USE JobsAssumption DEF IInv, TypeOK, dbVars, tokenVars, Active,
          Terminal, Status, Txn, Writers, Launching, Working, Finalizing, InBody,
          Stage
  <1>1. ASSUME NEW j \in Jobs, NEW o \in Origins, Admit(j, o) PROVE TypeOK'
    BY <1>1 DEF Admit
  <1>2. ASSUME NEW j \in Jobs, InsertRow(j) PROVE TypeOK'
    <2>1. CASE RepoOf[j] \in registered
      BY <1>2, <2>1 DEF InsertRow
    <2>2. CASE RepoOf[j] \notin registered
      BY <1>2, <2>2 DEF InsertRow
    <2> QED BY <2>1, <2>2
  <1>3. ASSUME NEW j \in Jobs, LaunchTask(j) PROVE TypeOK'
    BY <1>3 DEF LaunchTask
  <1>4. ASSUME NEW j \in Jobs, StartTask(j) PROVE TypeOK'
    BY <1>4 DEF StartTask
  <1>5. ASSUME NEW j \in Jobs, ReadRow(j) PROVE TypeOK'
    <2>1. CASE status[j] = "deleted"
      <3>1. Unwind(j, "failed") \/ Leave(j)
        BY <1>5, <2>1 DEF ReadRow, RowMissing
      <3> QED BY <1>5, <3>1, ExitTypes DEF ReadRow
    <2>2. CASE status[j] # "deleted"
      <3>1. status[j] \in Txn
        BY <1>5, <2>2 DEF ReadRow, RowAtStage
      <3> QED BY <1>5, <2>2, <3>1 DEF ReadRow
    <2> QED BY <2>1, <2>2
  <1>6. ASSUME NEW j \in Jobs, CommitRow(j) PROVE TypeOK'
    <2>1. CASE status[j] = "deleted"
      <3>1. Unwind(j, "failed") \/ Leave(j)
        BY <1>6, <2>1 DEF CommitRow, RowMissing
      <3> QED BY <1>6, <2>1, <3>1, ExitTypes DEF CommitRow
    <2>2. CASE status[j] # "deleted"
      <3>1. AfterCommit(j) \in Stage
        BY DEF AfterCommit
      <3>2. Target(j) \in Status
        BY DEF Target
      <3>3. Written(j, seen[j], Target(j)) \in Status
        BY <3>2 DEF Written
      <3>4. status' \in [Jobs -> Status]
        BY <1>6, <2>2, <3>3 DEF CommitRow
      <3>6. pc' \in [Jobs -> Stage]
        BY <1>6, <2>2, <3>1 DEF CommitRow
      <3>5. seen' \in [Jobs -> Txn]
        BY <1>6, <2>2 DEF CommitRow
      <3> QED BY <1>6, <2>2, <3>4, <3>5, <3>6 DEF CommitRow
    <2> QED BY <2>1, <2>2
  <1>7. ASSUME NEW j \in Jobs, PipelineDone(j) PROVE TypeOK'
    BY <1>7 DEF PipelineDone
  <1>8. ASSUME NEW j \in Jobs, TaskRaises(j) PROVE TypeOK'
    BY <1>8 DEF TaskRaises, Unwind
  <1>9. ASSUME NEW j \in Jobs, PollCancelled(j) PROVE TypeOK'
    BY <1>9 DEF PollCancelled, Unwind
  <1>10. ASSUME NEW j \in Jobs, Drained(j) PROVE TypeOK'
    BY <1>10 DEF Drained, Idle
  <1>11. ASSUME NEW j \in Jobs, FinalizeFails(j) PROVE TypeOK'
    BY <1>11 DEF FinalizeFails, Leave
  <1>12. ASSUME NEW j \in Jobs, TaskEnds(j) PROVE TypeOK'
    BY <1>12 DEF TaskEnds, Leave
  <1>13. ASSUME NEW j \in Jobs, DeliverCancel(j) PROVE TypeOK'
    <2>1. Unwind(j, "cancelled") \/ Leave(j)
      BY <1>13 DEF DeliverCancel
    <2>2. write' \in [Jobs -> [Writers -> Txn]]
      <3>1. CASE UNCHANGED write
        BY <3>1
      <3>2. CASE write' = [write EXCEPT ![j]["fallback"] = "open"]
        BY <3>2
      <3> QED BY <1>13, <3>1, <3>2 DEF DeliverCancel
    <2>3. interrupt' \subseteq Jobs
      BY <1>13 DEF DeliverCancel
    <2> QED BY <1>13, <2>1, <2>2, <2>3, ExitTypes DEF DeliverCancel
  <1>14. ASSUME NEW j \in Jobs, NEW p \in ProgressTasks, SpawnProgress(j, p) PROVE TypeOK'
    BY <1>14 DEF SpawnProgress
  <1>15. ASSUME NEW j \in Jobs, NEW c \in CancelRequests, CancelCheck(j, c) PROVE TypeOK'
    BY <1>15 DEF CancelCheck
  <1>16. ASSUME NEW j \in Jobs, NEW c \in CancelRequests, CancelSignal(j, c) PROVE TypeOK'
    <2>1. write' \in [Jobs -> [Writers -> Txn]]
      BY <1>16 DEF CancelSignal
    <2>2. flipped' \subseteq Jobs /\ interrupt' \subseteq Jobs
      BY <1>16 DEF CancelSignal
    <2>3. interrupted' \subseteq Jobs
      BY <1>16 DEF CancelSignal
    <2> QED BY <1>16, <2>1, <2>2, <2>3 DEF CancelSignal
  <1>17. ASSUME NEW j \in Jobs, NEW w \in Writers, WriterReads(j, w) PROVE TypeOK'
    BY <1>17 DEF WriterReads, RowAtStage, WritersHaveRow
  <1>18. ASSUME NEW j \in Jobs, NEW w \in Writers, WriterCommits(j, w) PROVE TypeOK'
    BY <1>18 DEF WriterCommits, Written
  <1>19. ASSUME NEW j \in Jobs, NEW w \in Writers, WriterFails(j, w) PROVE TypeOK'
    BY <1>19 DEF WriterFails
  <1>20. ASSUME NEW r \in Repos, DeleteRepo(r) PROVE TypeOK'
    BY <1>20 DEF DeleteRepo
  <1>21. ASSUME Crash PROVE TypeOK'
    BY <1>21 DEF Crash
  <1>22. ASSUME Startup PROVE TypeOK'
    <2>1. status' \in [Jobs -> Status]
      BY <1>22 DEF Startup
    <2> QED BY <1>22, <2>1 DEF Startup
  <1>23. ASSUME UNCHANGED vars PROVE TypeOK'
    BY <1>23 DEF vars
  <1> QED BY <1>1, <1>2, <1>3, <1>4, <1>5, <1>6, <1>7, <1>8, <1>9, <1>10, <1>11, <1>12,
     <1>13, <1>14, <1>15, <1>16, <1>17, <1>18, <1>19, <1>20, <1>21, <1>22, <1>23
     DEF Next, SyncRequest, PushEvent, PollingFallback, Admit

-----------------------------------------------------------------------------
(* The invariant is inductive: under each action, the row and its readers,   *)
(* then the progress writes and a dead server, then the tokens.              *)

\* Leaving because the row is gone: the executor's own part of the invariant.
LEMMA MissingRowExit ==
  ASSUME IInv, NEW j \in Jobs, status[j] = "deleted",
         pc[j] \in {"fetch", "complete", "finalize"},
         Unwind(j, "failed") \/ Leave(j), UNCHANGED <<status, write, server>>
  PROVE  RowAtStage' /\ ReadAtFetch' /\ WritersHaveRow' /\ ProgressAtStage' /\ DownIsQuiet'
PROOF
  <1> USE DEF IInv, TypeOK, Stage, Launching, Working, Finalizing, InBody
  <1>1. CASE Unwind(j, "failed")
    <2>1. RowAtStage'
      BY <1>1 DEF Unwind, RowAtStage
    <2>2. ReadAtFetch' /\ WritersHaveRow'
      BY <1>1 DEF Unwind, ReadAtFetch, WritersHaveRow
    <2>3. ProgressAtStage'
      BY <1>1 DEF Unwind, ProgressAtStage
    <2>4. DownIsQuiet'
      BY <1>1 DEF Unwind, DownIsQuiet, Idle
    <2> QED BY <2>1, <2>2, <2>3, <2>4
  <1>2. CASE Leave(j)
    <2>1. RowAtStage'
      BY <1>2 DEF Leave, RowAtStage
    <2>2. ReadAtFetch' /\ WritersHaveRow'
      BY <1>2 DEF Leave, ReadAtFetch, WritersHaveRow
    <2>3. ProgressAtStage'
      BY <1>2 DEF Leave, ProgressAtStage
    <2>4. DownIsQuiet'
      BY <1>2 DEF Leave, DownIsQuiet, Idle
    <2> QED BY <2>1, <2>2, <2>3, <2>4
  <1> QED BY <1>1, <1>2

\* Every step keeps the invariant, conjunct by conjunct.
LEMMA InvStep == ASSUME IInv, [Next]_vars PROVE IInv'
PROOF
  <1> USE JobsAssumption DEF IInv, TypeOK, dbVars, tokenVars, Active,
          Terminal, Status, Txn, Writers, Launching, Working, Finalizing, InBody,
          Stage
  <1>0. TypeOK'
    BY TypeStep
  <1>1. ASSUME NEW j \in Jobs, NEW o \in Origins, Admit(j, o) PROVE IInv'
    <2>1. RowAtStage' /\ ReadAtFetch' /\ WritersHaveRow'
      BY <1>1 DEF Admit, RowAtStage, ReadAtFetch, ProgressAtStage, WritersHaveRow,
         DownIsQuiet
    <2>2. ProgressAtStage' /\ DownIsQuiet'
      BY <1>1 DEF Admit, RowAtStage, ReadAtFetch, ProgressAtStage, DownIsQuiet,
         Idle
    <2>3. TokensMatchTasks' /\ SlotRegistered'
      BY <1>1 DEF Admit, RowAtStage, TokensMatchTasks, SlotRegistered, DownIsQuiet
    <2> QED BY <1>0, <2>1, <2>2, <2>3
  <1>2. ASSUME NEW j \in Jobs, InsertRow(j) PROVE IInv'
    <2>1. RowAtStage' /\ ReadAtFetch' /\ WritersHaveRow'
      <3>1. CASE RepoOf[j] \in registered
        BY <1>2, <3>1 DEF InsertRow, RowAtStage, ReadAtFetch, ProgressAtStage,
           WritersHaveRow
      <3>2. CASE RepoOf[j] \notin registered
        BY <1>2, <3>2 DEF InsertRow, RowAtStage, ReadAtFetch, ProgressAtStage,
           WritersHaveRow
      <3> QED BY <3>1, <3>2
    <2>2. ProgressAtStage' /\ DownIsQuiet'
      <3>1. CASE RepoOf[j] \in registered
        BY <1>2, <3>1 DEF InsertRow, RowAtStage, ReadAtFetch,
           ProgressAtStage, DownIsQuiet, Idle
      <3>2. CASE RepoOf[j] \notin registered
        BY <1>2, <3>2 DEF InsertRow, RowAtStage, ReadAtFetch,
           ProgressAtStage, DownIsQuiet, Idle
      <3> QED BY <3>1, <3>2
    <2>3. TokensMatchTasks' /\ SlotRegistered'
      BY <1>2 DEF InsertRow, RowAtStage, TokensMatchTasks, SlotRegistered,
         DownIsQuiet
    <2> QED BY <1>0, <2>1, <2>2, <2>3
  <1>3. ASSUME NEW j \in Jobs, LaunchTask(j) PROVE IInv'
    <2>1. RowAtStage' /\ ReadAtFetch' /\ WritersHaveRow'
      BY <1>3 DEF LaunchTask, RowAtStage, ReadAtFetch, ProgressAtStage,
         WritersHaveRow, DownIsQuiet
    <2>2. ProgressAtStage' /\ DownIsQuiet'
      BY <1>3 DEF LaunchTask, RowAtStage, ReadAtFetch, ProgressAtStage, DownIsQuiet,
         Idle
    <2>3. TokensMatchTasks' /\ SlotRegistered'
      BY <1>3 DEF LaunchTask, RowAtStage, TokensMatchTasks, SlotRegistered,
         DownIsQuiet
    <2> QED BY <1>0, <2>1, <2>2, <2>3
  <1>4. ASSUME NEW j \in Jobs, StartTask(j) PROVE IInv'
    <2>1. RowAtStage' /\ ReadAtFetch' /\ WritersHaveRow'
      BY <1>4 DEF StartTask, RowAtStage, ReadAtFetch, ProgressAtStage,
         WritersHaveRow, DownIsQuiet
    <2>2. ProgressAtStage' /\ DownIsQuiet'
      BY <1>4 DEF StartTask, RowAtStage, ReadAtFetch, ProgressAtStage, DownIsQuiet,
         Idle
    <2>3. TokensMatchTasks' /\ SlotRegistered'
      BY <1>4 DEF StartTask, RowAtStage, TokensMatchTasks, SlotRegistered,
         DownIsQuiet
    <2> QED BY <1>0, <2>1, <2>2, <2>3
  <1>5. ASSUME NEW j \in Jobs, ReadRow(j) PROVE IInv'
    <2>1. RowAtStage' /\ ReadAtFetch' /\ WritersHaveRow'
      <3>1. CASE status[j] = "deleted"
        BY <1>5, <3>1, MissingRowExit DEF ReadRow, RowMissing
      <3>2. CASE status[j] # "deleted"
        BY <1>5, <3>2 DEF ReadRow, RowAtStage, ReadAtFetch, WritersHaveRow
      <3> QED BY <3>1, <3>2
    <2>2. ProgressAtStage' /\ DownIsQuiet'
      BY <1>5 DEF ReadRow, RowMissing, Unwind, Leave, RowAtStage, ReadAtFetch,
         ProgressAtStage, DownIsQuiet, Idle
    <2>3. TokensMatchTasks' /\ SlotRegistered'
      BY <1>5 DEF ReadRow, RowMissing, Unwind, Leave, RowAtStage, TokensMatchTasks,
         SlotRegistered, DownIsQuiet
    <2> QED BY <1>0, <2>1, <2>2, <2>3
  <1>6. ASSUME NEW j \in Jobs, CommitRow(j) PROVE IInv'
    <2>1. CASE status[j] = "deleted"
      <3>1. RowAtStage' /\ ReadAtFetch' /\ WritersHaveRow' /\ ProgressAtStage' /\ DownIsQuiet'
        BY <1>6, <2>1, MissingRowExit DEF CommitRow, RowMissing
      <3>2. (Unwind(j, "failed") \/ Leave(j)) /\ pc[j] \in InBody
        BY <1>6, <2>1 DEF CommitRow, RowMissing
      <3>3. TokensMatchTasks' /\ SlotRegistered'
        <4>1. CASE Unwind(j, "failed")
          BY <3>2, <4>1 DEF Unwind, TokensMatchTasks, SlotRegistered
        <4>2. CASE Leave(j)
          BY <3>2, <4>2 DEF Leave, TokensMatchTasks, SlotRegistered
        <4> QED BY <3>2, <4>1, <4>2
      <3> QED BY <1>0, <3>1, <3>3
    <2>2. CASE status[j] # "deleted"
      <3> DEFINE new == Written(j, seen[j], Target(j))
                 next == AfterCommit(j)
      <3>1. /\ status' = [status EXCEPT ![j] = new]
            /\ pc' = [pc EXCEPT ![j] = next]
            /\ seen' = [seen EXCEPT ![j] = "idle"]
            /\ UNCHANGED <<goal, write, server, tokens, slot>>
        BY <1>6, <2>2 DEF CommitRow
      <3>2. pc[j] = "fetch" => next = "pipeline" /\ new = "running"
        BY <1>6 DEF CommitRow, AfterCommit, Written, Target, ReadAtFetch
      <3>3. pc[j] # "fetch" => next \in {"completed", "finalized"}
        BY <1>6 DEF CommitRow, AfterCommit
      <3>4. pc[j] \in {"fetch", "complete", "finalize"} /\ status[j] # "absent"
        BY <1>6 DEF CommitRow, RowAtStage
      <3>5. new # "absent"
        BY <3>4 DEF Written, Target
      <3>6. next \in InBody
        BY <3>2, <3>3
      <3> HIDE DEF new, next
      <3>7. RowAtStage'
        BY <3>1, <3>2, <3>3, <3>4, <3>5 DEF RowAtStage
      <3>8. ReadAtFetch' /\ WritersHaveRow'
        BY <3>1, <3>2, <3>3, <3>5 DEF ReadAtFetch, WritersHaveRow
      <3>9. ProgressAtStage'
        BY <3>1, <3>2, <3>3, <3>4 DEF ProgressAtStage
      <3>10. DownIsQuiet'
        BY <3>1, <3>4 DEF DownIsQuiet, Idle
      <3>11. TokensMatchTasks' /\ SlotRegistered'
        BY <3>1, <3>4, <3>6 DEF TokensMatchTasks, SlotRegistered
      <3> QED BY <1>0, <3>7, <3>8, <3>9, <3>10, <3>11
    <2> QED BY <2>1, <2>2
  <1>7. ASSUME NEW j \in Jobs, PipelineDone(j) PROVE IInv'
    <2>1. RowAtStage' /\ ReadAtFetch' /\ WritersHaveRow'
      BY <1>7 DEF PipelineDone, RowAtStage, ReadAtFetch, ProgressAtStage,
         WritersHaveRow, DownIsQuiet
    <2>2. ProgressAtStage' /\ DownIsQuiet'
      BY <1>7 DEF PipelineDone, RowAtStage, ReadAtFetch, ProgressAtStage,
         DownIsQuiet, Idle
    <2>3. TokensMatchTasks' /\ SlotRegistered'
      BY <1>7 DEF PipelineDone, RowAtStage, TokensMatchTasks, SlotRegistered,
         DownIsQuiet
    <2> QED BY <1>0, <2>1, <2>2, <2>3
  <1>8. ASSUME NEW j \in Jobs, TaskRaises(j) PROVE IInv'
    <2>1. RowAtStage' /\ ReadAtFetch' /\ WritersHaveRow'
      BY <1>8 DEF TaskRaises, Unwind, RowAtStage, ReadAtFetch, ProgressAtStage,
         WritersHaveRow, DownIsQuiet
    <2>2. ProgressAtStage' /\ DownIsQuiet'
      BY <1>8 DEF TaskRaises, Unwind, RowAtStage, ReadAtFetch, ProgressAtStage,
         DownIsQuiet, Idle
    <2>3. TokensMatchTasks' /\ SlotRegistered'
      BY <1>8 DEF TaskRaises, Unwind, RowAtStage, TokensMatchTasks, SlotRegistered,
         DownIsQuiet
    <2> QED BY <1>0, <2>1, <2>2, <2>3
  <1>9. ASSUME NEW j \in Jobs, PollCancelled(j) PROVE IInv'
    <2>1. RowAtStage' /\ ReadAtFetch' /\ WritersHaveRow'
      BY <1>9 DEF PollCancelled, Unwind, RowAtStage, ReadAtFetch, ProgressAtStage,
         WritersHaveRow, DownIsQuiet
    <2>2. ProgressAtStage' /\ DownIsQuiet'
      BY <1>9 DEF PollCancelled, Unwind, RowAtStage, ReadAtFetch, ProgressAtStage,
         DownIsQuiet, Idle
    <2>3. TokensMatchTasks' /\ SlotRegistered'
      BY <1>9 DEF PollCancelled, Unwind, RowAtStage, TokensMatchTasks,
         SlotRegistered, DownIsQuiet
    <2> QED BY <1>0, <2>1, <2>2, <2>3
  <1>10. ASSUME NEW j \in Jobs, Drained(j) PROVE IInv'
    <2>1. RowAtStage' /\ ReadAtFetch' /\ WritersHaveRow'
      BY <1>10 DEF Drained, Idle, RowAtStage, ReadAtFetch, ProgressAtStage,
         WritersHaveRow, DownIsQuiet
    <2>2. ProgressAtStage' /\ DownIsQuiet'
      BY <1>10 DEF Drained, Idle, RowAtStage, ReadAtFetch, ProgressAtStage,
         DownIsQuiet
    <2>3. TokensMatchTasks' /\ SlotRegistered'
      BY <1>10 DEF Drained, Idle, RowAtStage, TokensMatchTasks, SlotRegistered,
         DownIsQuiet
    <2> QED BY <1>0, <2>1, <2>2, <2>3
  <1>11. ASSUME NEW j \in Jobs, FinalizeFails(j) PROVE IInv'
    <2>1. RowAtStage' /\ ReadAtFetch' /\ WritersHaveRow'
      BY <1>11 DEF FinalizeFails, Leave, RowAtStage, ReadAtFetch, ProgressAtStage,
         WritersHaveRow, DownIsQuiet
    <2>2. ProgressAtStage' /\ DownIsQuiet'
      BY <1>11 DEF FinalizeFails, Leave, RowAtStage, ReadAtFetch, ProgressAtStage,
         DownIsQuiet, Idle
    <2>3. TokensMatchTasks' /\ SlotRegistered'
      BY <1>11 DEF FinalizeFails, Leave, RowAtStage, TokensMatchTasks,
         SlotRegistered, DownIsQuiet
    <2> QED BY <1>0, <2>1, <2>2, <2>3
  <1>12. ASSUME NEW j \in Jobs, TaskEnds(j) PROVE IInv'
    <2>1. RowAtStage' /\ ReadAtFetch' /\ WritersHaveRow'
      BY <1>12 DEF TaskEnds, Leave, RowAtStage, ReadAtFetch, ProgressAtStage,
         WritersHaveRow, DownIsQuiet
    <2>2. ProgressAtStage' /\ DownIsQuiet'
      BY <1>12 DEF TaskEnds, Leave, RowAtStage, ReadAtFetch, ProgressAtStage,
         DownIsQuiet, Idle
    <2>3. TokensMatchTasks' /\ SlotRegistered'
      BY <1>12 DEF TaskEnds, Leave, RowAtStage, TokensMatchTasks, SlotRegistered,
         DownIsQuiet
    <2> QED BY <1>0, <2>1, <2>2, <2>3
  <1>13. ASSUME NEW j \in Jobs, DeliverCancel(j) PROVE IInv'
    <2>1. status[j] # "absent" /\ pc[j] \notin {"none", "checked", "done"}
      BY <1>13 DEF DeliverCancel, RowAtStage
    <2>2. \A p \in ProgressTasks : pc[j] # "pipeline" => write[j][p] = "idle"
      BY <1>13 DEF DeliverCancel, Idle, ProgressAtStage
    <2>3. CASE pc[j] \in Working
      <3>1. /\ pc' = [pc EXCEPT ![j] = "unwind"]
            /\ goal' = [goal EXCEPT ![j] = "cancelled"]
            /\ seen' = [seen EXCEPT ![j] = "idle"]
            /\ UNCHANGED <<tokens, slot, status, write, server>>
        BY <1>13, <2>3 DEF DeliverCancel, Unwind
      <3>2. RowAtStage' /\ ReadAtFetch'
        BY <2>1, <2>3, <3>1 DEF RowAtStage, ReadAtFetch
      <3>3. ProgressAtStage' /\ WritersHaveRow'
        BY <2>2, <3>1 DEF ProgressAtStage, WritersHaveRow
      <3>4. TokensMatchTasks' /\ SlotRegistered' /\ DownIsQuiet'
        BY <2>1, <2>3, <3>1 DEF TokensMatchTasks, SlotRegistered, DownIsQuiet, Idle
      <3> QED BY <1>0, <3>2, <3>3, <3>4
    <2>4. CASE pc[j] \in Finalizing \cup {"created"}
      <3>1. /\ pc' = [pc EXCEPT ![j] = "done"]
            /\ seen' = [seen EXCEPT ![j] = "idle"]
            /\ tokens' = tokens \ {j}
            /\ slot' = IF slot = j THEN NoJob ELSE slot
            /\ write' = [write EXCEPT ![j]["fallback"] = "open"]
            /\ UNCHANGED <<goal, status, server>>
        BY <1>13, <2>4 DEF DeliverCancel, Leave
      <3>2. RowAtStage' /\ ReadAtFetch'
        BY <2>1, <3>1 DEF RowAtStage, ReadAtFetch
      <3>3. \A k \in Jobs : \A w \in Writers \ {"fallback"} : write'[k][w] = write[k][w]
        BY <3>1
      <3>4. \A k \in Jobs \ {j} : write'[k] = write[k] /\ pc'[k] = pc[k]
        BY <3>1
      <3>5. ProgressAtStage'
        BY <2>2, <2>4, <3>1, <3>3, <3>4 DEF ProgressAtStage
      <3>6. WritersHaveRow'
        BY <2>1, <3>1, <3>4 DEF WritersHaveRow
      <3>7. TokensMatchTasks' /\ SlotRegistered' /\ DownIsQuiet'
        BY <2>1, <3>1 DEF TokensMatchTasks, SlotRegistered, DownIsQuiet, Idle
      <3> QED BY <1>0, <3>2, <3>5, <3>6, <3>7
    <2> QED BY <1>13, <2>3, <2>4 DEF DeliverCancel
  <1>14. ASSUME NEW j \in Jobs, NEW p \in ProgressTasks, SpawnProgress(j, p) PROVE IInv'
    <2>1. RowAtStage' /\ ReadAtFetch' /\ WritersHaveRow'
      BY <1>14 DEF SpawnProgress, RowAtStage, ReadAtFetch, ProgressAtStage,
         WritersHaveRow, DownIsQuiet
    <2>2. ProgressAtStage' /\ DownIsQuiet'
      BY <1>14 DEF SpawnProgress, RowAtStage, ReadAtFetch, ProgressAtStage,
         DownIsQuiet, Idle
    <2>3. TokensMatchTasks' /\ SlotRegistered'
      BY <1>14 DEF SpawnProgress, RowAtStage, TokensMatchTasks, SlotRegistered,
         DownIsQuiet
    <2> QED BY <1>0, <2>1, <2>2, <2>3
  <1>15. ASSUME NEW j \in Jobs, NEW c \in CancelRequests, CancelCheck(j, c) PROVE IInv'
    <2>1. RowAtStage' /\ ReadAtFetch' /\ WritersHaveRow'
      BY <1>15 DEF CancelCheck, RowAtStage, ReadAtFetch, ProgressAtStage,
         WritersHaveRow, DownIsQuiet
    <2>2. ProgressAtStage' /\ DownIsQuiet'
      BY <1>15 DEF CancelCheck, RowAtStage, ReadAtFetch, ProgressAtStage,
         DownIsQuiet, Idle
    <2>3. TokensMatchTasks' /\ SlotRegistered'
      BY <1>15 DEF CancelCheck, RowAtStage, TokensMatchTasks, SlotRegistered,
         DownIsQuiet
    <2> QED BY <1>0, <2>1, <2>2, <2>3
  <1>16. ASSUME NEW j \in Jobs, NEW c \in CancelRequests, CancelSignal(j, c) PROVE IInv'
    <2>1. RowAtStage' /\ ReadAtFetch' /\ WritersHaveRow'
      BY <1>16 DEF CancelSignal, RowAtStage, ReadAtFetch, ProgressAtStage,
         WritersHaveRow, DownIsQuiet
    <2>2. ProgressAtStage' /\ DownIsQuiet'
      BY <1>16 DEF CancelSignal, RowAtStage, ReadAtFetch, ProgressAtStage,
         DownIsQuiet, Idle
    <2>3. TokensMatchTasks' /\ SlotRegistered'
      BY <1>16 DEF CancelSignal, RowAtStage, TokensMatchTasks, SlotRegistered,
         DownIsQuiet
    <2> QED BY <1>0, <2>1, <2>2, <2>3
  <1>17. ASSUME NEW j \in Jobs, NEW w \in Writers, WriterReads(j, w) PROVE IInv'
    <2>1. RowAtStage' /\ ReadAtFetch' /\ WritersHaveRow'
      BY <1>17 DEF WriterReads, RowAtStage, ReadAtFetch, ProgressAtStage,
         WritersHaveRow, DownIsQuiet
    <2>2. ProgressAtStage' /\ DownIsQuiet'
      BY <1>17 DEF WriterReads, RowAtStage, ReadAtFetch, ProgressAtStage,
         DownIsQuiet, Idle
    <2>3. TokensMatchTasks' /\ SlotRegistered'
      BY <1>17 DEF WriterReads, RowAtStage, TokensMatchTasks, SlotRegistered,
         DownIsQuiet
    <2> QED BY <1>0, <2>1, <2>2, <2>3
  <1>18. ASSUME NEW j \in Jobs, NEW w \in Writers, WriterCommits(j, w) PROVE IInv'
    <2>1. RowAtStage' /\ ReadAtFetch' /\ WritersHaveRow'
      BY <1>18 DEF WriterCommits, Written, RowAtStage, ReadAtFetch, ProgressAtStage,
         WritersHaveRow, DownIsQuiet
    <2>2. ProgressAtStage' /\ DownIsQuiet'
      BY <1>18 DEF WriterCommits, Written, RowAtStage, ReadAtFetch, ProgressAtStage,
         DownIsQuiet, Idle
    <2>3. TokensMatchTasks' /\ SlotRegistered'
      BY <1>18 DEF WriterCommits, Written, RowAtStage, TokensMatchTasks,
         SlotRegistered, DownIsQuiet
    <2> QED BY <1>0, <2>1, <2>2, <2>3
  <1>19. ASSUME NEW j \in Jobs, NEW w \in Writers, WriterFails(j, w) PROVE IInv'
    <2>1. RowAtStage' /\ ReadAtFetch' /\ WritersHaveRow'
      BY <1>19 DEF WriterFails, RowAtStage, ReadAtFetch, ProgressAtStage,
         WritersHaveRow, DownIsQuiet
    <2>2. ProgressAtStage' /\ DownIsQuiet'
      BY <1>19 DEF WriterFails, RowAtStage, ReadAtFetch, ProgressAtStage,
         DownIsQuiet, Idle
    <2>3. TokensMatchTasks' /\ SlotRegistered'
      BY <1>19 DEF WriterFails, RowAtStage, TokensMatchTasks, SlotRegistered,
         DownIsQuiet
    <2> QED BY <1>0, <2>1, <2>2, <2>3
  <1>20. ASSUME NEW r \in Repos, DeleteRepo(r) PROVE IInv'
    <2>1. RowAtStage' /\ ReadAtFetch' /\ WritersHaveRow'
      BY <1>20 DEF DeleteRepo, RowAtStage, ReadAtFetch, ProgressAtStage,
         WritersHaveRow, DownIsQuiet
    <2>2. ProgressAtStage' /\ DownIsQuiet'
      BY <1>20 DEF DeleteRepo, RowAtStage, ReadAtFetch, ProgressAtStage,
         DownIsQuiet, Idle
    <2>3. TokensMatchTasks' /\ SlotRegistered'
      BY <1>20 DEF DeleteRepo, RowAtStage, TokensMatchTasks, SlotRegistered,
         DownIsQuiet
    <2> QED BY <1>0, <2>1, <2>2, <2>3
  <1>21. ASSUME Crash PROVE IInv'
    <2>1. RowAtStage' /\ ReadAtFetch' /\ WritersHaveRow'
      BY <1>21 DEF Crash, RowAtStage, ReadAtFetch, ProgressAtStage, WritersHaveRow,
         DownIsQuiet
    <2>2. ProgressAtStage' /\ DownIsQuiet'
      BY <1>21 DEF Crash, RowAtStage, ReadAtFetch, ProgressAtStage, DownIsQuiet,
         Idle
    <2>3. TokensMatchTasks' /\ SlotRegistered'
      BY <1>21 DEF Crash, RowAtStage, TokensMatchTasks, SlotRegistered, DownIsQuiet
    <2> QED BY <1>0, <2>1, <2>2, <2>3
  <1>22. ASSUME Startup PROVE IInv'
    <2>1. RowAtStage' /\ ReadAtFetch' /\ WritersHaveRow'
      BY <1>22 DEF Startup, RowAtStage, ReadAtFetch, ProgressAtStage,
         WritersHaveRow, DownIsQuiet
    <2>2. ProgressAtStage' /\ DownIsQuiet'
      BY <1>22 DEF Startup, RowAtStage, ReadAtFetch, ProgressAtStage, DownIsQuiet,
         Idle
    <2>3. TokensMatchTasks' /\ SlotRegistered'
      BY <1>22 DEF Startup, RowAtStage, TokensMatchTasks, SlotRegistered,
         DownIsQuiet
    <2> QED BY <1>0, <2>1, <2>2, <2>3
  <1>23. ASSUME UNCHANGED vars PROVE IInv'
    <2>1. RowAtStage' /\ ReadAtFetch' /\ WritersHaveRow'
      BY <1>23 DEF vars, RowAtStage, ReadAtFetch, ProgressAtStage, WritersHaveRow,
         DownIsQuiet
    <2>2. ProgressAtStage' /\ DownIsQuiet'
      BY <1>23 DEF vars, RowAtStage, ReadAtFetch, ProgressAtStage, DownIsQuiet, Idle
    <2>3. TokensMatchTasks' /\ SlotRegistered'
      BY <1>23 DEF vars, RowAtStage, TokensMatchTasks, SlotRegistered, DownIsQuiet
    <2> QED BY <1>0, <2>1, <2>2, <2>3
  <1> QED BY <1>1, <1>2, <1>3, <1>4, <1>5, <1>6, <1>7, <1>8, <1>9, <1>10, <1>11, <1>12,
     <1>13, <1>14, <1>15, <1>16, <1>17, <1>18, <1>19, <1>20, <1>21, <1>22, <1>23
     DEF Next, SyncRequest, PushEvent, PollingFallback, Admit

-----------------------------------------------------------------------------
(* The theorems.                                                             *)

\* An idle server with an empty table satisfies the invariant.
LEMMA InvInit == Init => IInv
PROOF
  BY JobsAssumption DEF Init, IInv, TypeOK, RowAtStage, ReadAtFetch, ProgressAtStage,
     WritersHaveRow, TokensMatchTasks, SlotRegistered, DownIsQuiet, Idle, Active,
     Terminal, Status, Txn, Writers, Launching, Working, Finalizing, InBody, Stage

\* The invariant holds in every reachable state.
THEOREM Invariance == Spec => []IInv
PROOF
  BY InvInit, InvStep, PTL DEF Spec

\* Every variable keeps its type, whatever the interleaving: in particular no
\* transaction ever reads a row that was not inserted or is already deleted.
THEOREM TypeCorrect == Spec => []TypeOK
PROOF
  <1>1. IInv => TypeOK
    BY DEF IInv
  <1> QED BY <1>1, Invariance, PTL

\* app.state.job_cancel_tokens is exact: execute_job registers and forgets its
\* token on every path, cancellation, deletion and crash included.
THEOREM TokensExact == Spec => []TokensMatchTasks
PROOF
  <1>1. IInv => TokensMatchTasks
    BY DEF IInv
  <1> QED BY <1>1, Invariance, PTL

\* A finished job never leaves its token in the process-global slot, however
\* many jobs overlap and overwrite each other's.
THEOREM SlotSafe == Spec => []SlotNotPoisoned
PROOF
  <1>1. IInv => SlotNotPoisoned
    BY DEF IInv, SlotNotPoisoned, SlotRegistered, TokensMatchTasks
  <1> QED BY <1>1, Invariance, PTL

\* drain_and_stop works: no progress write of a job is under way once its
\* final status is being written, so none can overwrite it with "running".
THEOREM FinalWriteSafe == Spec => []FinalWriteIsLast
PROOF
  <1>1. IInv => FinalWriteIsLast
    BY DEF IInv, FinalWriteIsLast, ProgressAtStage, Idle
  <1> QED BY <1>1, Invariance, PTL

\* Every step moves every row along an edge JobStatus allows, or not at all.
LEMMA RowsStep == ASSUME IInv, [Next]_vars PROVE [Rows!Next]_status
PROOF
  <1> SUFFICES ASSUME NEW k \in Jobs, status'[k] # status[k]
               PROVE  <<status[k], status'[k]>> \in Rows!Moves
    <2>1. status' \in [Jobs -> Rows!Status]
      BY TypeStep DEF TypeOK, Status, Active, Terminal, Rows!Status, Rows!Active,
         Rows!Terminal
    <2> QED BY <2>1 DEF Rows!Next
  <1> DEFINE old == status[k]
             new == status'[k]
             Edge == \/ old = "absent" /\ new = "pending"
                     \/ old \in {"pending", "cancelled"} /\ new = "running"
                     \/ old \in {"running", "cancelled"} /\ new = "completed"
                     \/ old \in {"pending", "running", "cancelled"} /\ new = "failed"
                     \/ old \in (Active \cup Terminal) \ {"cancelled"} /\ new = "cancelled"
                     \/ old \in Active \cup Terminal /\ new = "deleted"
  <1> USE DEF IInv, TypeOK, Active, Terminal, Status
  <1>1. ASSUME NEW j \in Jobs, InsertRow(j) PROVE Edge
    BY <1>1 DEF InsertRow, RowAtStage
  <1>2. ASSUME NEW j \in Jobs, CommitRow(j) PROVE Edge
    <2>1. /\ k = j
          /\ status[j] # "deleted"
          /\ status'[j] = Written(j, seen[j], Target(j))
      BY <1>2 DEF CommitRow
    <2>2. new = Target(j) /\ pc[j] \in {"fetch", "complete", "finalize"}
      BY <1>2, <2>1 DEF CommitRow, Written
    <2>3. CASE pc[j] = "fetch"
      BY <2>1, <2>2, <2>3 DEF Target, RowAtStage
    <2>4. CASE pc[j] = "complete"
      BY <2>1, <2>2, <2>4 DEF Target, RowAtStage
    <2>5. CASE pc[j] = "finalize"
      BY <2>1, <2>2, <2>5 DEF Target, RowAtStage
    <2> QED BY <2>2, <2>3, <2>4, <2>5
  <1>3. ASSUME NEW j \in Jobs, NEW w \in Writers, WriterCommits(j, w) PROVE Edge
    <2>1. k = j /\ old \notin {"absent", "deleted"}
      BY <1>3 DEF WriterCommits, WritersHaveRow
    <2>2. CASE w \in ProgressTasks
      <3>1. new = "running"
        BY <1>3, <2>1, <2>2 DEF WriterCommits, Written
      <3>2. old \in {"running", "cancelled"}
        BY <1>3, <2>1, <2>2 DEF WriterCommits, ProgressAtStage
      <3> QED BY <3>1, <3>2
    <2>3. CASE w \notin ProgressTasks
      <3>1. new = "cancelled"
        BY <1>3, <2>1, <2>3 DEF WriterCommits, Written
      <3> QED BY <2>1, <3>1
    <2> QED BY <2>2, <2>3
  <1>4. ASSUME NEW r \in Repos, DeleteRepo(r) PROVE Edge
    BY <1>4 DEF DeleteRepo
  <1>5. ASSUME Startup PROVE Edge
    BY <1>5 DEF Startup
  <1>6. \/ \E j \in Jobs : InsertRow(j) \/ CommitRow(j)
        \/ \E j \in Jobs, w \in Writers : WriterCommits(j, w)
        \/ \E r \in Repos : DeleteRepo(r)
        \/ Startup
    BY DEF Next, vars, dbVars, Admit, SyncRequest, PushEvent, PollingFallback,
       LaunchTask, StartTask, ReadRow, PipelineDone, TaskRaises, PollCancelled,
       Drained, FinalizeFails, TaskEnds, DeliverCancel, SpawnProgress, CancelCheck,
       CancelSignal, WriterReads, WriterFails, Crash
  <1>7. Edge
    BY <1>1, <1>2, <1>3, <1>4, <1>5, <1>6
  <1> QED BY <1>7 DEF Rows!Moves, Rows!Active, Rows!Terminal

\* The server implements the abstract row life: a completed or failed row never
\* becomes active again, however late a progress write, a cancel request, a
\* fallback or a restart's reset lands.
THEOREM Refinement == Spec => RowsFollowJobStatus
PROOF
  <1>1. Init => Rows!Init
    BY DEF Init, Rows!Init
  <1>2. IInv /\ [Next]_vars => [Rows!Next]_status
    BY RowsStep
  <1> QED BY <1>1, <1>2, Invariance, PTL DEF Spec, Rows!Spec, RowsFollowJobStatus

\* Every step of a server whose writes succeed leaves each active row an owner.
LEMMA OwnerStep ==
  ASSUME ~ WritesMayFail, IInv, OwnerInv, [Next]_vars PROVE OwnerInv'
PROOF
  <1> USE JobsAssumption DEF IInv, TypeOK, OwnerInv, dbVars, tokenVars,
          Active, Terminal, Status, Txn, Writers, Launching, Working, Finalizing,
          InBody, Stage
  <1>1. ASSUME NEW j \in Jobs, NEW o \in Origins, Admit(j, o) PROVE OwnerInv'
    <2>1. ReadAtEnd'
      BY <1>1 DEF Admit, RowAtStage, ReadAtEnd
    <2>2. EndedIsTerminal'
      BY <1>1 DEF Admit, RowAtStage, ReadAtEnd, EndedIsTerminal, ProgressAtStage
    <2>3. FallbackOwns'
      BY <1>1 DEF Admit, RowAtStage, EndedIsTerminal, FallbackOwns, ProgressAtStage
    <2> QED BY <2>1, <2>2, <2>3
  <1>2. ASSUME NEW j \in Jobs, InsertRow(j) PROVE OwnerInv'
    <2>1. ReadAtEnd'
      BY <1>2 DEF InsertRow, RowAtStage, ReadAtEnd
    <2>2. EndedIsTerminal'
      BY <1>2 DEF InsertRow, RowAtStage, ReadAtEnd, EndedIsTerminal, ProgressAtStage
    <2>3. FallbackOwns'
      BY <1>2 DEF InsertRow, RowAtStage, EndedIsTerminal, FallbackOwns,
         ProgressAtStage
    <2> QED BY <2>1, <2>2, <2>3
  <1>3. ASSUME NEW j \in Jobs, LaunchTask(j) PROVE OwnerInv'
    <2>1. ReadAtEnd'
      BY <1>3 DEF LaunchTask, RowAtStage, ReadAtEnd
    <2>2. EndedIsTerminal'
      BY <1>3 DEF LaunchTask, RowAtStage, ReadAtEnd, EndedIsTerminal,
         ProgressAtStage
    <2>3. FallbackOwns'
      BY <1>3 DEF LaunchTask, RowAtStage, EndedIsTerminal, FallbackOwns,
         ProgressAtStage
    <2> QED BY <2>1, <2>2, <2>3
  <1>4. ASSUME NEW j \in Jobs, StartTask(j) PROVE OwnerInv'
    <2>1. ReadAtEnd'
      BY <1>4 DEF StartTask, RowAtStage, ReadAtEnd
    <2>2. EndedIsTerminal'
      BY <1>4 DEF StartTask, RowAtStage, ReadAtEnd, EndedIsTerminal, ProgressAtStage
    <2>3. FallbackOwns'
      BY <1>4 DEF StartTask, RowAtStage, EndedIsTerminal, FallbackOwns,
         ProgressAtStage
    <2> QED BY <2>1, <2>2, <2>3
  <1>5. ASSUME NEW j \in Jobs, ReadRow(j) PROVE OwnerInv'
    <2>1. ReadAtEnd'
      BY <1>5 DEF ReadRow, RowMissing, Unwind, Leave, RowAtStage, ReadAtEnd
    <2>2. EndedIsTerminal'
      BY <1>5 DEF ReadRow, RowMissing, Unwind, Leave, RowAtStage, ReadAtEnd,
         EndedIsTerminal, ProgressAtStage
    <2>3. FallbackOwns'
      BY <1>5 DEF ReadRow, RowMissing, Unwind, Leave, RowAtStage, EndedIsTerminal,
         FallbackOwns, ProgressAtStage
    <2> QED BY <2>1, <2>2, <2>3
  <1>6. ASSUME NEW j \in Jobs, CommitRow(j) PROVE OwnerInv'
    <2>1. ReadAtEnd'
      BY <1>6 DEF CommitRow, RowMissing, Unwind, Leave, Written, Target,
         AfterCommit, RowAtStage, ReadAtEnd
    <2>2. EndedIsTerminal'
      BY <1>6 DEF CommitRow, RowMissing, Unwind, Leave, Written, Target,
         AfterCommit, RowAtStage, ReadAtEnd, EndedIsTerminal, ProgressAtStage
    <2>3. FallbackOwns'
      BY <1>6 DEF CommitRow, RowMissing, Unwind, Leave, Written, Target,
         AfterCommit, RowAtStage, EndedIsTerminal, FallbackOwns, ProgressAtStage
    <2> QED BY <2>1, <2>2, <2>3
  <1>7. ASSUME NEW j \in Jobs, PipelineDone(j) PROVE OwnerInv'
    <2>1. ReadAtEnd'
      BY <1>7 DEF PipelineDone, RowAtStage, ReadAtEnd
    <2>2. EndedIsTerminal'
      BY <1>7 DEF PipelineDone, RowAtStage, ReadAtEnd, EndedIsTerminal,
         ProgressAtStage
    <2>3. FallbackOwns'
      BY <1>7 DEF PipelineDone, RowAtStage, EndedIsTerminal, FallbackOwns,
         ProgressAtStage
    <2> QED BY <2>1, <2>2, <2>3
  <1>8. ASSUME NEW j \in Jobs, TaskRaises(j) PROVE OwnerInv'
    <2>1. ReadAtEnd'
      BY <1>8 DEF TaskRaises, Unwind, RowAtStage, ReadAtEnd
    <2>2. EndedIsTerminal'
      BY <1>8 DEF TaskRaises, Unwind, RowAtStage, ReadAtEnd, EndedIsTerminal,
         ProgressAtStage
    <2>3. FallbackOwns'
      BY <1>8 DEF TaskRaises, Unwind, RowAtStage, EndedIsTerminal, FallbackOwns,
         ProgressAtStage
    <2> QED BY <2>1, <2>2, <2>3
  <1>9. ASSUME NEW j \in Jobs, PollCancelled(j) PROVE OwnerInv'
    <2>1. ReadAtEnd'
      BY <1>9 DEF PollCancelled, Unwind, RowAtStage, ReadAtEnd
    <2>2. EndedIsTerminal'
      BY <1>9 DEF PollCancelled, Unwind, RowAtStage, ReadAtEnd, EndedIsTerminal,
         ProgressAtStage
    <2>3. FallbackOwns'
      BY <1>9 DEF PollCancelled, Unwind, RowAtStage, EndedIsTerminal, FallbackOwns,
         ProgressAtStage
    <2> QED BY <2>1, <2>2, <2>3
  <1>10. ASSUME NEW j \in Jobs, Drained(j) PROVE OwnerInv'
    <2>1. ReadAtEnd'
      BY <1>10 DEF Drained, Idle, RowAtStage, ReadAtEnd
    <2>2. EndedIsTerminal'
      BY <1>10 DEF Drained, Idle, RowAtStage, ReadAtEnd, EndedIsTerminal,
         ProgressAtStage
    <2>3. FallbackOwns'
      BY <1>10 DEF Drained, Idle, RowAtStage, EndedIsTerminal, FallbackOwns,
         ProgressAtStage
    <2> QED BY <2>1, <2>2, <2>3
  <1>11. ASSUME NEW j \in Jobs, FinalizeFails(j) PROVE OwnerInv'
    <2>1. ReadAtEnd'
      BY <1>11 DEF FinalizeFails, Leave, RowAtStage, ReadAtEnd
    <2>2. EndedIsTerminal'
      BY <1>11 DEF FinalizeFails, Leave, RowAtStage, ReadAtEnd, EndedIsTerminal,
         ProgressAtStage
    <2>3. FallbackOwns'
      BY <1>11 DEF FinalizeFails, Leave, RowAtStage, EndedIsTerminal, FallbackOwns,
         ProgressAtStage
    <2> QED BY <2>1, <2>2, <2>3
  <1>12. ASSUME NEW j \in Jobs, TaskEnds(j) PROVE OwnerInv'
    <2>1. ReadAtEnd'
      BY <1>12 DEF TaskEnds, Leave, RowAtStage, ReadAtEnd
    <2>2. EndedIsTerminal'
      BY <1>12 DEF TaskEnds, Leave, RowAtStage, ReadAtEnd, EndedIsTerminal,
         ProgressAtStage
    <2>3. FallbackOwns'
      BY <1>12 DEF TaskEnds, Leave, RowAtStage, EndedIsTerminal, FallbackOwns,
         ProgressAtStage
    <2> QED BY <2>1, <2>2, <2>3
  <1>13. ASSUME NEW j \in Jobs, DeliverCancel(j) PROVE OwnerInv'
    <2>1. ReadAtEnd'
      BY <1>13 DEF DeliverCancel, Unwind, Leave, Idle, RowAtStage, ReadAtEnd
    <2>2. EndedIsTerminal'
      BY <1>13 DEF DeliverCancel, Unwind, Leave, Idle, RowAtStage, ReadAtEnd,
         EndedIsTerminal, ProgressAtStage
    <2>3. FallbackOwns'
      BY <1>13 DEF DeliverCancel, Unwind, Leave, Idle, RowAtStage, EndedIsTerminal,
         FallbackOwns, ProgressAtStage
    <2> QED BY <2>1, <2>2, <2>3
  <1>14. ASSUME NEW j \in Jobs, NEW p \in ProgressTasks, SpawnProgress(j, p) PROVE OwnerInv'
    <2>1. ReadAtEnd'
      BY <1>14 DEF SpawnProgress, RowAtStage, ReadAtEnd
    <2>2. EndedIsTerminal'
      BY <1>14 DEF SpawnProgress, RowAtStage, ReadAtEnd, EndedIsTerminal,
         ProgressAtStage
    <2>3. FallbackOwns'
      BY <1>14 DEF SpawnProgress, RowAtStage, EndedIsTerminal, FallbackOwns,
         ProgressAtStage
    <2> QED BY <2>1, <2>2, <2>3
  <1>15. ASSUME NEW j \in Jobs, NEW c \in CancelRequests, CancelCheck(j, c) PROVE OwnerInv'
    <2>1. ReadAtEnd'
      BY <1>15 DEF CancelCheck, RowAtStage, ReadAtEnd
    <2>2. EndedIsTerminal'
      BY <1>15 DEF CancelCheck, RowAtStage, ReadAtEnd, EndedIsTerminal,
         ProgressAtStage
    <2>3. FallbackOwns'
      BY <1>15 DEF CancelCheck, RowAtStage, EndedIsTerminal, FallbackOwns,
         ProgressAtStage
    <2> QED BY <2>1, <2>2, <2>3
  <1>16. ASSUME NEW j \in Jobs, NEW c \in CancelRequests, CancelSignal(j, c) PROVE OwnerInv'
    <2>1. ReadAtEnd'
      BY <1>16 DEF CancelSignal, RowAtStage, ReadAtEnd
    <2>2. EndedIsTerminal'
      BY <1>16 DEF CancelSignal, RowAtStage, ReadAtEnd, EndedIsTerminal,
         ProgressAtStage
    <2>3. FallbackOwns'
      BY <1>16 DEF CancelSignal, RowAtStage, EndedIsTerminal, FallbackOwns,
         ProgressAtStage
    <2> QED BY <2>1, <2>2, <2>3
  <1>17. ASSUME NEW j \in Jobs, NEW w \in Writers, WriterReads(j, w) PROVE OwnerInv'
    <2>1. ReadAtEnd'
      BY <1>17 DEF WriterReads, RowAtStage, ReadAtEnd
    <2>2. EndedIsTerminal'
      BY <1>17 DEF WriterReads, RowAtStage, ReadAtEnd, EndedIsTerminal,
         ProgressAtStage
    <2>3. FallbackOwns'
      BY <1>17 DEF WriterReads, RowAtStage, EndedIsTerminal, FallbackOwns,
         ProgressAtStage
    <2> QED BY <2>1, <2>2, <2>3
  <1>18. ASSUME NEW j \in Jobs, NEW w \in Writers, WriterCommits(j, w) PROVE OwnerInv'
    <2>1. ReadAtEnd'
      BY <1>18 DEF WriterCommits, Written, RowAtStage, ReadAtEnd, ProgressAtStage
    <2>2. EndedIsTerminal'
      BY <1>18 DEF WriterCommits, Written, RowAtStage, ReadAtEnd, EndedIsTerminal,
         ProgressAtStage
    <2>3. FallbackOwns'
      BY <1>18 DEF WriterCommits, Written, RowAtStage, EndedIsTerminal,
         FallbackOwns, ProgressAtStage
    <2> QED BY <2>1, <2>2, <2>3
  <1>19. ASSUME NEW j \in Jobs, NEW w \in Writers, WriterFails(j, w) PROVE OwnerInv'
    <2>1. ReadAtEnd'
      BY <1>19 DEF WriterFails, RowAtStage, ReadAtEnd
    <2>2. EndedIsTerminal'
      BY <1>19 DEF WriterFails, RowAtStage, ReadAtEnd, EndedIsTerminal,
         ProgressAtStage
    <2>3. FallbackOwns'
      BY <1>19 DEF WriterFails, RowAtStage, EndedIsTerminal, FallbackOwns,
         ProgressAtStage
    <2> QED BY <2>1, <2>2, <2>3
  <1>20. ASSUME NEW r \in Repos, DeleteRepo(r) PROVE OwnerInv'
    <2>1. ReadAtEnd'
      BY <1>20 DEF DeleteRepo, RowAtStage, ReadAtEnd
    <2>2. EndedIsTerminal'
      BY <1>20 DEF DeleteRepo, RowAtStage, ReadAtEnd, EndedIsTerminal,
         ProgressAtStage
    <2>3. FallbackOwns'
      BY <1>20 DEF DeleteRepo, RowAtStage, EndedIsTerminal, FallbackOwns,
         ProgressAtStage
    <2> QED BY <2>1, <2>2, <2>3
  <1>21. ASSUME Crash PROVE OwnerInv'
    <2>1. ReadAtEnd'
      BY <1>21 DEF Crash, RowAtStage, ReadAtEnd
    <2>2. EndedIsTerminal'
      BY <1>21 DEF Crash, RowAtStage, ReadAtEnd, EndedIsTerminal, ProgressAtStage
    <2>3. FallbackOwns'
      BY <1>21 DEF Crash, RowAtStage, EndedIsTerminal, FallbackOwns, ProgressAtStage
    <2> QED BY <2>1, <2>2, <2>3
  <1>22. ASSUME Startup PROVE OwnerInv'
    <2>1. ReadAtEnd'
      BY <1>22 DEF Startup, RowAtStage, ReadAtEnd
    <2>2. EndedIsTerminal'
      BY <1>22 DEF Startup, RowAtStage, ReadAtEnd, EndedIsTerminal, ProgressAtStage
    <2>3. FallbackOwns'
      BY <1>22 DEF Startup, RowAtStage, EndedIsTerminal, FallbackOwns,
         ProgressAtStage
    <2> QED BY <2>1, <2>2, <2>3
  <1>23. ASSUME UNCHANGED vars PROVE OwnerInv'
    <2>1. ReadAtEnd'
      BY <1>23 DEF vars, RowAtStage, ReadAtEnd
    <2>2. EndedIsTerminal'
      BY <1>23 DEF vars, RowAtStage, ReadAtEnd, EndedIsTerminal, ProgressAtStage
    <2>3. FallbackOwns'
      BY <1>23 DEF vars, RowAtStage, EndedIsTerminal, FallbackOwns, ProgressAtStage
    <2> QED BY <2>1, <2>2, <2>3
  <1> QED BY <1>1, <1>2, <1>3, <1>4, <1>5, <1>6, <1>7, <1>8, <1>9, <1>10, <1>11, <1>12,
     <1>13, <1>14, <1>15, <1>16, <1>17, <1>18, <1>19, <1>20, <1>21, <1>22, <1>23 DEF
     Next, SyncRequest, PushEvent, PollingFallback, Admit

\* While status writes succeed, the active-job guard never gets stuck: whenever
\* the server is up, an active row has a launch, a task, a cancel request or the
\* fallback under way that is bound to release it.
THEOREM GuardOwned == ASSUME ~ WritesMayFail PROVE Spec => []ActiveHasOwner
PROOF
  <1>1. Init => OwnerInv
    BY JobsAssumption DEF Init, OwnerInv, ReadAtEnd, EndedIsTerminal, FallbackOwns, Active
  <1>2. IInv /\ OwnerInv /\ [Next]_vars => OwnerInv'
    BY OwnerStep
  <1>3. IInv /\ OwnerInv => ActiveHasOwner
    BY DEF IInv, RowAtStage, OwnerInv, FallbackOwns, ActiveHasOwner, Active, Idle
  <1> QED BY <1>1, <1>2, <1>3, Invariance, PTL DEF Spec

-----------------------------------------------------------------------------
(* Cancellation.                                                             *)

\* A task the cancel endpoint reached has yet to see the cancellation, is on
\* its way to record it, or has recorded it; if it ended without, the fallback
\* is about to.
WinsAt(j) ==
  \/ status[j] = "deleted"
  \/ j \in interrupt /\ pc[j] \in InBody \cup {"created"}
  \/ pc[j] \in {"unwind", "finalize"} /\ goal[j] = "cancelled"
  \/ pc[j] = "finalized" /\ status[j] = "cancelled"
  \/ pc[j] = "done" /\ (write[j]["fallback"] # "idle" \/ status[j] = "cancelled")

\* The fallback starts when the task has ended, and what it read as cancelled
\* stays so.
FallbackReadAt(j) ==
  /\ write[j]["fallback"] # "idle" => pc[j] = "done"
  /\ write[j]["fallback"] = "cancelled" => status[j] \in {"cancelled", "deleted"}

WinsInv == \A j \in interrupted : WinsAt(j)
FallbackRead == \A j \in Jobs : FallbackReadAt(j)

CancelInv == WinsInv /\ FallbackRead

\* Every step of a server whose writes succeed keeps an interrupted job on its
\* way to "cancelled".
LEMMA WinsStep ==
  ASSUME ~ WritesMayFail, IInv, OwnerInv, CancelInv, [Next]_vars
  PROVE  CancelInv'
PROOF
  <1> USE JobsAssumption DEF IInv, TypeOK, OwnerInv, dbVars, tokenVars, Active,
          Terminal, Status, Txn, Writers, Launching, Working, Finalizing, InBody,
          Stage, CancelInv
  <1>1. ASSUME NEW j \in Jobs, NEW o \in Origins, Admit(j, o) PROVE CancelInv'
    <2>1. j \notin interrupted
      BY <1>1 DEF Admit, WinsInv, WinsAt
    <2>2. /\ \A k \in interrupted : pc'[k] = pc[k]
          /\ UNCHANGED <<status, goal, write, interrupt, interrupted>>
      BY <1>1, <2>1 DEF Admit
    <2>3. WinsInv'
      BY <2>2 DEF WinsInv, WinsAt
    <2>4. FallbackRead'
      BY <1>1 DEF Admit, FallbackRead, FallbackReadAt
    <2> QED BY <2>3, <2>4
  <1>2. ASSUME NEW j \in Jobs, InsertRow(j) PROVE CancelInv'
    <2>1. j \notin interrupted
      BY <1>2 DEF InsertRow, WinsInv, WinsAt, RowAtStage
    <2>2. /\ \A k \in interrupted : pc'[k] = pc[k] /\ status'[k] = status[k]
          /\ UNCHANGED <<goal, write, interrupt, interrupted>>
      BY <1>2, <2>1 DEF InsertRow
    <2>3. WinsInv'
      BY <2>2 DEF WinsInv, WinsAt
    <2>4. FallbackRead'
      BY <1>2 DEF InsertRow, FallbackRead, FallbackReadAt
    <2> QED BY <2>3, <2>4
  <1>3. ASSUME NEW j \in Jobs, LaunchTask(j) PROVE CancelInv'
    <2>1. WinsInv'
      BY <1>3 DEF LaunchTask, WinsInv, WinsAt
    <2>2. FallbackRead'
      BY <1>3 DEF LaunchTask, FallbackRead, FallbackReadAt
    <2> QED BY <2>1, <2>2
  <1>4. ASSUME NEW j \in Jobs, StartTask(j) PROVE CancelInv'
    <2>1. WinsInv'
      BY <1>4 DEF StartTask, WinsInv, WinsAt
    <2>2. FallbackRead'
      BY <1>4 DEF StartTask, FallbackRead, FallbackReadAt
    <2> QED BY <2>1, <2>2
  <1>5. ASSUME NEW j \in Jobs, ReadRow(j) PROVE CancelInv'
    <2>1. WinsInv'
      BY <1>5 DEF ReadRow, RowMissing, Unwind, Leave, WinsInv, WinsAt
    <2>2. FallbackRead'
      BY <1>5 DEF ReadRow, RowMissing, Unwind, Leave, FallbackRead, FallbackReadAt
    <2> QED BY <2>1, <2>2
  <1>6. ASSUME NEW j \in Jobs, CommitRow(j) PROVE CancelInv'
    <2>1. WinsInv'
      BY <1>6 DEF CommitRow, RowMissing, Unwind, Leave, Written, Target,
         AfterCommit, ReadAtEnd, WinsInv, WinsAt
    <2>2. FallbackRead'
      BY <1>6 DEF CommitRow, RowMissing, Unwind, Leave, Written, Target,
         AfterCommit, FallbackRead, FallbackReadAt
    <2> QED BY <2>1, <2>2
  <1>7. ASSUME NEW j \in Jobs, PipelineDone(j) PROVE CancelInv'
    <2>1. WinsInv'
      BY <1>7 DEF PipelineDone, WinsInv, WinsAt
    <2>2. FallbackRead'
      BY <1>7 DEF PipelineDone, FallbackRead, FallbackReadAt
    <2> QED BY <2>1, <2>2
  <1>8. ASSUME NEW j \in Jobs, TaskRaises(j) PROVE CancelInv'
    <2>1. WinsInv'
      BY <1>8 DEF TaskRaises, Unwind, WinsInv, WinsAt
    <2>2. FallbackRead'
      BY <1>8 DEF TaskRaises, Unwind, FallbackRead, FallbackReadAt
    <2> QED BY <2>1, <2>2
  <1>9. ASSUME NEW j \in Jobs, PollCancelled(j) PROVE CancelInv'
    <2>1. WinsInv'
      BY <1>9 DEF PollCancelled, Unwind, WinsInv, WinsAt
    <2>2. FallbackRead'
      BY <1>9 DEF PollCancelled, Unwind, FallbackRead, FallbackReadAt
    <2> QED BY <2>1, <2>2
  <1>10. ASSUME NEW j \in Jobs, Drained(j) PROVE CancelInv'
    <2>1. WinsInv'
      BY <1>10 DEF Drained, WinsInv, WinsAt
    <2>2. FallbackRead'
      BY <1>10 DEF Drained, FallbackRead, FallbackReadAt
    <2> QED BY <2>1, <2>2
  <1>11. ASSUME NEW j \in Jobs, FinalizeFails(j) PROVE CancelInv'
    <2>1. WinsInv'
      BY <1>11 DEF FinalizeFails, WinsInv, WinsAt
    <2>2. FallbackRead'
      BY <1>11 DEF FinalizeFails, FallbackRead, FallbackReadAt
    <2> QED BY <2>1, <2>2
  <1>12. ASSUME NEW j \in Jobs, TaskEnds(j) PROVE CancelInv'
    <2>1. WinsInv'
      BY <1>12 DEF TaskEnds, Leave, WinsInv, WinsAt
    <2>2. FallbackRead'
      BY <1>12 DEF TaskEnds, Leave, FallbackRead, FallbackReadAt
    <2> QED BY <2>1, <2>2
  <1>13. ASSUME NEW j \in Jobs, DeliverCancel(j) PROVE CancelInv'
    <2>1. WinsInv'
      BY <1>13 DEF DeliverCancel, Unwind, Leave, WinsInv, WinsAt
    <2>2. FallbackRead'
      BY <1>13 DEF DeliverCancel, Unwind, Leave, FallbackRead, FallbackReadAt
    <2> QED BY <2>1, <2>2
  <1>14. ASSUME NEW j \in Jobs, NEW p \in ProgressTasks, SpawnProgress(j, p) PROVE CancelInv'
    <2>1. WinsInv'
      BY <1>14 DEF SpawnProgress, WinsInv, WinsAt
    <2>2. FallbackRead'
      BY <1>14 DEF SpawnProgress, FallbackRead, FallbackReadAt
    <2> QED BY <2>1, <2>2
  <1>15. ASSUME NEW j \in Jobs, NEW c \in CancelRequests, CancelCheck(j, c) PROVE CancelInv'
    <2>1. WinsInv'
      BY <1>15 DEF CancelCheck, WinsInv, WinsAt
    <2>2. FallbackRead'
      BY <1>15 DEF CancelCheck, FallbackRead, FallbackReadAt
    <2> QED BY <2>1, <2>2
  <1>16. ASSUME NEW j \in Jobs, NEW c \in CancelRequests, CancelSignal(j, c) PROVE CancelInv'
    <2>1. WinsInv'
      BY <1>16 DEF CancelSignal, Tracked, WinsInv, WinsAt
    <2>2. FallbackRead'
      BY <1>16 DEF CancelSignal, Tracked, FallbackRead, FallbackReadAt
    <2> QED BY <2>1, <2>2
  <1>17. ASSUME NEW j \in Jobs, NEW w \in Writers, WriterReads(j, w) PROVE CancelInv'
    <2>1. WinsInv'
      BY <1>17 DEF WriterReads, WinsInv, WinsAt
    <2>2. FallbackRead'
      BY <1>17 DEF WriterReads, FallbackRead, FallbackReadAt
    <2> QED BY <2>1, <2>2
  <1>18. ASSUME NEW j \in Jobs, NEW w \in Writers, WriterCommits(j, w) PROVE CancelInv'
    <2>1. WinsInv'
      <3>1. CASE w \in ProgressTasks
        <4>1. \A k \in Jobs : write'[k]["fallback"] = write[k]["fallback"]
          BY <1>18, <3>1 DEF WriterCommits
        <4>2. pc[j] \in {"pipeline", "drain", "unwind"}
          BY <1>18, <3>1 DEF WriterCommits, ProgressAtStage
        <4>3. \A k \in Jobs \ {j} : status'[k] = status[k]
          BY <1>18 DEF WriterCommits
        <4>4. status[j] = "deleted" => status'[j] = "deleted"
          BY <1>18 DEF WriterCommits
        <4>5. UNCHANGED <<pc, goal, interrupt, interrupted>>
          BY <1>18 DEF WriterCommits
        <4>6. \A k \in interrupted : WinsAt(k)'
          BY <4>1, <4>2, <4>3, <4>4, <4>5 DEF WinsInv, WinsAt
        <4> QED BY <4>5, <4>6 DEF WinsInv
      <3>2. CASE w \notin ProgressTasks
        <4>1. \/ status'[j] \in {"cancelled", "deleted"}
              \/ status'[j] = status[j] /\ write[j][w] = "cancelled"
          BY <1>18, <3>2 DEF WriterCommits, Written
        <4>2. \A k \in Jobs \ {j} : status'[k] = status[k] /\ write'[k] = write[k]
          BY <1>18 DEF WriterCommits
        <4>3. \A v \in Writers \ {w} : write'[j][v] = write[j][v]
          BY <1>18 DEF WriterCommits
        <4>4. UNCHANGED <<pc, goal, interrupt, interrupted>>
          BY <1>18 DEF WriterCommits
        <4>5. w = "fallback" => pc[j] = "done" /\ status'[j] \in {"cancelled", "deleted"}
          BY <1>18, <4>1 DEF WriterCommits, FallbackRead, FallbackReadAt
        <4>6. /\ status[j] \in {"cancelled", "deleted"} => status'[j] \in {"cancelled", "deleted"}
              /\ status[j] = "deleted" => status'[j] = "deleted"
          BY <1>18, <4>1 DEF WriterCommits
        <4>7. \A k \in interrupted \ {j} : WinsAt(k)'
          BY <4>2, <4>4 DEF WinsInv, WinsAt
        <4>8. j \in interrupted => WinsAt(j)'
          BY <4>3, <4>4, <4>5, <4>6 DEF WinsInv, WinsAt
        <4> QED BY <4>4, <4>7, <4>8 DEF WinsInv
      <3> QED BY <3>1, <3>2
    <2>2. FallbackRead'
      <3>1. \A k \in Jobs \ {j} : FallbackReadAt(k)'
        BY <1>18 DEF WriterCommits, FallbackRead, FallbackReadAt
      <3>2. CASE w = "fallback"
        <4>1. write'[j]["fallback"] = "idle"
          BY <1>18, <3>2 DEF WriterCommits
        <4> QED BY <3>1, <4>1 DEF FallbackRead, FallbackReadAt
      <3>3. CASE w # "fallback"
        <4>1. write'[j]["fallback"] = write[j]["fallback"] /\ pc'[j] = pc[j]
          BY <1>18, <3>3 DEF WriterCommits
        <4>2. status[j] = "deleted" => status'[j] = "deleted"
          BY <1>18 DEF WriterCommits
        <4>3. pc[j] = "done" => w \notin ProgressTasks
          BY <1>18 DEF WriterCommits, ProgressAtStage
        <4>4. pc[j] = "done" /\ status[j] = "cancelled" => status'[j] = "cancelled"
          BY <1>18, <4>3 DEF WriterCommits, Written
        <4> QED BY <3>1, <4>1, <4>2, <4>4 DEF FallbackRead, FallbackReadAt
      <3> QED BY <3>2, <3>3
    <2> QED BY <2>1, <2>2
  <1>19. ASSUME NEW j \in Jobs, NEW w \in Writers, WriterFails(j, w) PROVE CancelInv'
    <2>1. WinsInv'
      BY <1>19 DEF WriterFails, WinsInv, WinsAt
    <2>2. FallbackRead'
      BY <1>19 DEF WriterFails, FallbackRead, FallbackReadAt
    <2> QED BY <2>1, <2>2
  <1>20. ASSUME NEW r \in Repos, DeleteRepo(r) PROVE CancelInv'
    <2>1. WinsInv'
      BY <1>20 DEF DeleteRepo, WinsInv, WinsAt
    <2>2. FallbackRead'
      BY <1>20 DEF DeleteRepo, FallbackRead, FallbackReadAt
    <2> QED BY <2>1, <2>2
  <1>21. ASSUME Crash PROVE CancelInv'
    <2>1. WinsInv'
      BY <1>21 DEF Crash, WinsInv, WinsAt
    <2>2. FallbackRead'
      BY <1>21 DEF Crash, FallbackRead, FallbackReadAt
    <2> QED BY <2>1, <2>2
  <1>22. ASSUME Startup PROVE CancelInv'
    <2>1. WinsInv'
      BY <1>22 DEF Startup, WinsInv, WinsAt
    <2>2. FallbackRead'
      BY <1>22 DEF Startup, FallbackRead, FallbackReadAt
    <2> QED BY <2>1, <2>2
  <1>23. ASSUME UNCHANGED vars PROVE CancelInv'
    <2>1. WinsInv'
      BY <1>23 DEF vars, WinsInv, WinsAt
    <2>2. FallbackRead'
      BY <1>23 DEF vars, FallbackRead, FallbackReadAt
    <2> QED BY <2>1, <2>2
  <1> QED BY <1>1, <1>2, <1>3, <1>4, <1>5, <1>6, <1>7, <1>8, <1>9, <1>10, <1>11, <1>12,
     <1>13, <1>14, <1>15, <1>16, <1>17, <1>18, <1>19, <1>20, <1>21, <1>22, <1>23
     DEF Next, SyncRequest, PushEvent, PollingFallback, Admit

\* A cancellation that reached a running task prevails: whatever the task was
\* doing, and whatever progress write, finalisation or second request lands
\* meanwhile, when all has settled the row says "cancelled" or is gone,
\* provided that the database accepts the writes.
THEOREM CancelPrevails == ASSUME ~ WritesMayFail PROVE Spec => []CancelWins
PROOF
  <1>1. Init => OwnerInv /\ CancelInv
    BY JobsAssumption DEF Init, OwnerInv, ReadAtEnd, EndedIsTerminal, FallbackOwns, Active,
       CancelInv, WinsInv, FallbackRead, FallbackReadAt, Writers
  <1>2. IInv /\ OwnerInv /\ [Next]_vars => OwnerInv'
    BY OwnerStep
  <1>3. IInv /\ OwnerInv /\ CancelInv /\ [Next]_vars => CancelInv'
    BY WinsStep
  <1>4. CancelInv => CancelWins
    BY DEF CancelInv, WinsInv, WinsAt, CancelWins, Idle, Writers, InBody, Working, Finalizing
  <1> QED BY <1>1, <1>2, <1>3, <1>4, Invariance, PTL DEF Spec
-----------------------------------------------------------------------------
(* Tasks end.  That a job ends under fairness is left to the model checker;  *)
(* that it cannot go round in circles is proved here.                        *)

\* The executor has a transaction open only where a status is written.
SeenAtStage ==
  \A j \in Jobs : seen[j] # "idle" <=> pc[j] \in {"fetch", "complete", "finalize"}

\* How many steps the task has left at most, an unread row counting for one.
TaskLeft(j) ==
  LET unread == IF seen[j] = "open" THEN 1 ELSE 0
  IN CASE pc[j] = "inserted"  -> 14
       [] pc[j] = "created"   -> 13
       [] pc[j] = "fetch"     -> 11 + unread
       [] pc[j] = "pipeline"  -> 10
       [] pc[j] = "drain"     -> 9
       [] pc[j] = "complete"  -> 7 + unread
       [] pc[j] = "completed" -> 6
       [] pc[j] = "unwind"    -> 5
       [] pc[j] = "finalize"  -> 3 + unread
       [] pc[j] = "finalized" -> 2
       [] OTHER               -> 0

\* A launched task stays where it is or has fewer steps left.
TaskFalls(j) ==
  pc[j] \notin {"none", "checked"} =>
    \/ pc'[j] = pc[j] /\ seen'[j] = seen[j]
    \/ TaskLeft(j)' < TaskLeft(j)

Falls == \A j \in Jobs : TaskFalls(j)

\* Every step keeps the executor's transaction where it belongs and takes no
\* task back: cancellation, failure and crash only ever skip stages.
LEMMA AdvanceStep ==
  ASSUME IInv, SeenAtStage, [Next]_vars PROVE SeenAtStage' /\ Falls
PROOF
  <1> DEFINE Kept == \A k \in Jobs : pc'[k] = pc[k] /\ seen'[k] = seen[k]
             Alone(j) == \A k \in Jobs \ {j} : pc'[k] = pc[k] /\ seen'[k] = seen[k]
  <1> USE JobsAssumption DEF IInv, TypeOK, dbVars, tokenVars, Active,
          Terminal, Status, Txn, Launching, Working, Finalizing, InBody, Stage
  <1>a. Kept => SeenAtStage' /\ Falls
    BY DEF SeenAtStage, Falls, TaskFalls
  <1>b. ASSUME NEW j \in Jobs, Alone(j), TaskFalls(j),
               seen'[j] # "idle" <=> pc'[j] \in {"fetch", "complete", "finalize"}
        PROVE  SeenAtStage' /\ Falls
    BY <1>b DEF SeenAtStage, Falls, TaskFalls
  <1> HIDE DEF Kept, Alone
  <1>1. ASSUME NEW j \in Jobs, NEW o \in Origins, Admit(j, o) PROVE SeenAtStage' /\ Falls
    <2>1. Alone(j)
      BY <1>1 DEF Admit, Alone
    <2>2. seen'[j] # "idle" <=> pc'[j] \in {"fetch", "complete", "finalize"}
      BY <1>1 DEF Admit, SeenAtStage
    <2>3. TaskFalls(j)
      BY <1>1 DEF Admit, SeenAtStage, TaskFalls, TaskLeft
    <2> QED BY <2>1, <2>2, <2>3, <1>b
  <1>2. ASSUME NEW j \in Jobs, InsertRow(j) PROVE SeenAtStage' /\ Falls
    <2>1. Alone(j)
      BY <1>2 DEF InsertRow, Alone
    <2>2. seen'[j] # "idle" <=> pc'[j] \in {"fetch", "complete", "finalize"}
      BY <1>2 DEF InsertRow, SeenAtStage
    <2>3. TaskFalls(j)
      BY <1>2 DEF InsertRow, SeenAtStage, TaskFalls, TaskLeft
    <2> QED BY <2>1, <2>2, <2>3, <1>b
  <1>3. ASSUME NEW j \in Jobs, LaunchTask(j) PROVE SeenAtStage' /\ Falls
    <2>1. Alone(j)
      BY <1>3 DEF LaunchTask, Alone
    <2>2. seen'[j] # "idle" <=> pc'[j] \in {"fetch", "complete", "finalize"}
      BY <1>3 DEF LaunchTask, SeenAtStage
    <2>3. TaskFalls(j)
      BY <1>3 DEF LaunchTask, SeenAtStage, TaskFalls, TaskLeft
    <2> QED BY <2>1, <2>2, <2>3, <1>b
  <1>4. ASSUME NEW j \in Jobs, StartTask(j) PROVE SeenAtStage' /\ Falls
    <2>1. Alone(j)
      BY <1>4 DEF StartTask, Alone
    <2>2. seen'[j] # "idle" <=> pc'[j] \in {"fetch", "complete", "finalize"}
      BY <1>4 DEF StartTask, SeenAtStage
    <2>3. TaskFalls(j)
      BY <1>4 DEF StartTask, SeenAtStage, TaskFalls, TaskLeft
    <2> QED BY <2>1, <2>2, <2>3, <1>b
  <1>5. ASSUME NEW j \in Jobs, ReadRow(j) PROVE SeenAtStage' /\ Falls
    <2>1. Alone(j)
      BY <1>5 DEF ReadRow, RowMissing, Unwind, Leave, Alone
    <2>2. seen'[j] # "idle" <=> pc'[j] \in {"fetch", "complete", "finalize"}
      BY <1>5 DEF ReadRow, RowMissing, Unwind, Leave, SeenAtStage, RowAtStage
    <2>3. TaskFalls(j)
      BY <1>5 DEF ReadRow, RowMissing, Unwind, Leave, SeenAtStage, TaskFalls, TaskLeft, RowAtStage
    <2> QED BY <2>1, <2>2, <2>3, <1>b
  <1>6. ASSUME NEW j \in Jobs, CommitRow(j) PROVE SeenAtStage' /\ Falls
    <2>1. Alone(j)
      BY <1>6 DEF CommitRow, RowMissing, Unwind, Leave, AfterCommit, Alone
    <2>2. seen'[j] # "idle" <=> pc'[j] \in {"fetch", "complete", "finalize"}
      BY <1>6 DEF CommitRow, RowMissing, Unwind, Leave, AfterCommit, SeenAtStage
    <2>3. TaskFalls(j)
      BY <1>6 DEF CommitRow, RowMissing, Unwind, Leave, AfterCommit, SeenAtStage, TaskFalls, TaskLeft
    <2> QED BY <2>1, <2>2, <2>3, <1>b
  <1>7. ASSUME NEW j \in Jobs, PipelineDone(j) PROVE SeenAtStage' /\ Falls
    <2>1. Alone(j)
      BY <1>7 DEF PipelineDone, Alone
    <2>2. seen'[j] # "idle" <=> pc'[j] \in {"fetch", "complete", "finalize"}
      BY <1>7 DEF PipelineDone, SeenAtStage
    <2>3. TaskFalls(j)
      BY <1>7 DEF PipelineDone, SeenAtStage, TaskFalls, TaskLeft
    <2> QED BY <2>1, <2>2, <2>3, <1>b
  <1>8. ASSUME NEW j \in Jobs, TaskRaises(j) PROVE SeenAtStage' /\ Falls
    <2>1. Alone(j)
      BY <1>8 DEF TaskRaises, Unwind, Alone
    <2>2. seen'[j] # "idle" <=> pc'[j] \in {"fetch", "complete", "finalize"}
      BY <1>8 DEF TaskRaises, Unwind, SeenAtStage
    <2>3. TaskFalls(j)
      BY <1>8 DEF TaskRaises, Unwind, SeenAtStage, TaskFalls, TaskLeft
    <2> QED BY <2>1, <2>2, <2>3, <1>b
  <1>9. ASSUME NEW j \in Jobs, PollCancelled(j) PROVE SeenAtStage' /\ Falls
    <2>1. Alone(j)
      BY <1>9 DEF PollCancelled, Unwind, Alone
    <2>2. seen'[j] # "idle" <=> pc'[j] \in {"fetch", "complete", "finalize"}
      BY <1>9 DEF PollCancelled, Unwind, SeenAtStage
    <2>3. TaskFalls(j)
      BY <1>9 DEF PollCancelled, Unwind, SeenAtStage, TaskFalls, TaskLeft
    <2> QED BY <2>1, <2>2, <2>3, <1>b
  <1>10. ASSUME NEW j \in Jobs, Drained(j) PROVE SeenAtStage' /\ Falls
    <2>1. Alone(j)
      BY <1>10 DEF Drained, Alone
    <2>2. seen'[j] # "idle" <=> pc'[j] \in {"fetch", "complete", "finalize"}
      BY <1>10 DEF Drained, SeenAtStage
    <2>3. TaskFalls(j)
      BY <1>10 DEF Drained, SeenAtStage, TaskFalls, TaskLeft
    <2> QED BY <2>1, <2>2, <2>3, <1>b
  <1>11. ASSUME NEW j \in Jobs, FinalizeFails(j) PROVE SeenAtStage' /\ Falls
    <2>1. Alone(j)
      BY <1>11 DEF FinalizeFails, Leave, Alone
    <2>2. seen'[j] # "idle" <=> pc'[j] \in {"fetch", "complete", "finalize"}
      BY <1>11 DEF FinalizeFails, Leave, SeenAtStage
    <2>3. TaskFalls(j)
      BY <1>11 DEF FinalizeFails, Leave, SeenAtStage, TaskFalls, TaskLeft
    <2> QED BY <2>1, <2>2, <2>3, <1>b
  <1>12. ASSUME NEW j \in Jobs, TaskEnds(j) PROVE SeenAtStage' /\ Falls
    <2>1. Alone(j)
      BY <1>12 DEF TaskEnds, Leave, Alone
    <2>2. seen'[j] # "idle" <=> pc'[j] \in {"fetch", "complete", "finalize"}
      BY <1>12 DEF TaskEnds, Leave, SeenAtStage
    <2>3. TaskFalls(j)
      BY <1>12 DEF TaskEnds, Leave, SeenAtStage, TaskFalls, TaskLeft
    <2> QED BY <2>1, <2>2, <2>3, <1>b
  <1>13. ASSUME NEW j \in Jobs, DeliverCancel(j) PROVE SeenAtStage' /\ Falls
    <2>1. Alone(j)
      BY <1>13 DEF DeliverCancel, Unwind, Leave, Alone
    <2>2. seen'[j] # "idle" <=> pc'[j] \in {"fetch", "complete", "finalize"}
      BY <1>13 DEF DeliverCancel, Unwind, Leave, SeenAtStage
    <2>3. TaskFalls(j)
      BY <1>13 DEF DeliverCancel, Unwind, Leave, SeenAtStage, TaskFalls, TaskLeft
    <2> QED BY <2>1, <2>2, <2>3, <1>b
  <1>14. ASSUME NEW j \in Jobs, NEW p \in ProgressTasks, SpawnProgress(j, p) PROVE SeenAtStage' /\ Falls
    <2>1. Kept
      BY <1>14 DEF SpawnProgress, Kept
    <2> QED BY <2>1, <1>a
  <1>15. ASSUME NEW j \in Jobs, NEW c \in CancelRequests, CancelCheck(j, c) PROVE SeenAtStage' /\ Falls
    <2>1. Kept
      BY <1>15 DEF CancelCheck, Kept
    <2> QED BY <2>1, <1>a
  <1>16. ASSUME NEW j \in Jobs, NEW c \in CancelRequests, CancelSignal(j, c) PROVE SeenAtStage' /\ Falls
    <2>1. Kept
      BY <1>16 DEF CancelSignal, Kept
    <2> QED BY <2>1, <1>a
  <1>17. ASSUME NEW j \in Jobs, NEW w \in Writers, WriterReads(j, w) PROVE SeenAtStage' /\ Falls
    <2>1. Kept
      BY <1>17 DEF WriterReads, Kept
    <2> QED BY <2>1, <1>a
  <1>18. ASSUME NEW j \in Jobs, NEW w \in Writers, WriterCommits(j, w) PROVE SeenAtStage' /\ Falls
    <2>1. Kept
      BY <1>18 DEF WriterCommits, Kept
    <2> QED BY <2>1, <1>a
  <1>19. ASSUME NEW j \in Jobs, NEW w \in Writers, WriterFails(j, w) PROVE SeenAtStage' /\ Falls
    <2>1. Kept
      BY <1>19 DEF WriterFails, Kept
    <2> QED BY <2>1, <1>a
  <1>20. ASSUME NEW r \in Repos, DeleteRepo(r) PROVE SeenAtStage' /\ Falls
    <2>1. Kept
      BY <1>20 DEF DeleteRepo, Kept
    <2> QED BY <2>1, <1>a
  <1>21. ASSUME Crash PROVE SeenAtStage' /\ Falls
    <2>1. \A k \in Jobs : pc'[k] \in {"none", "done"} /\ seen'[k] = "idle"
      BY <1>21 DEF Crash
    <2>2. SeenAtStage'
      BY <2>1 DEF SeenAtStage
    <2>3. \A k \in Jobs : pc[k] \notin {"none", "checked"} => pc'[k] = "done"
      BY <1>21 DEF Crash, RowAtStage
    <2>4. \A k \in Jobs : TaskFalls(k)
      BY <2>1, <2>3 DEF TaskFalls, TaskLeft, SeenAtStage
    <2> QED BY <2>2, <2>4 DEF Falls
  <1>22. ASSUME Startup PROVE SeenAtStage' /\ Falls
    <2>1. Kept
      BY <1>22 DEF Startup, Kept
    <2> QED BY <2>1, <1>a
  <1>23. ASSUME UNCHANGED vars PROVE SeenAtStage' /\ Falls
    <2>1. Kept
      BY <1>23 DEF vars, Kept
    <2> QED BY <2>1, <1>a
  <1> QED BY <1>1, <1>2, <1>3, <1>4, <1>5, <1>6, <1>7, <1>8, <1>9, <1>10, <1>11, <1>12,
     <1>13, <1>14, <1>15, <1>16, <1>17, <1>18, <1>19, <1>20, <1>21, <1>22, <1>23
     DEF Next, SyncRequest, PushEvent, PollingFallback, Admit

\* A launched task only moves forward, through at most fourteen steps of its
\* own, and a task that has ended stays ended: no order of cancellations,
\* failing writes, deletions and crashes makes execute_job loop.
THEOREM TasksAdvance == Spec => [][Falls]_vars
PROOF
  <1>1. Init => SeenAtStage
    BY DEF Init, SeenAtStage
  <1>2. IInv /\ SeenAtStage /\ [Next]_vars => SeenAtStage' /\ Falls
    BY AdvanceStep
  <1> QED BY <1>1, <1>2, Invariance, PTL DEF Spec
=============================================================================
