------------------------------ MODULE JobStatus ------------------------------
(***************************************************************************)
(* What a reader of the generation_jobs table may rely on: the life of one  *)
(* row, seen from outside.  The web UI, the SSE stream and the active-job   *)
(* guard only ever look at this column.                                     *)
(*                                                                          *)
(* The relation is the one the code keeps, not the one its comments wish    *)
(* for: a "cancelled" row may be re-opened by the executor it belongs to    *)
(* and any terminal row may still be turned into "cancelled"; but a row     *)
(* that was completed or failed never runs again, a row is never completed  *)
(* without having been running, and a deleted row never comes back.         *)
(***************************************************************************)

CONSTANT Jobs        \* the ids the table will ever hold

VARIABLE status      \* [Jobs -> Status]: the status column, or no row

Active   == {"pending", "running"}
Terminal == {"completed", "failed", "cancelled"}
Status   == {"absent", "deleted"} \cup Active \cup Terminal

Init == status = [j \in Jobs |-> "absent"]

\* The changes one row may make, as pairs of old and new status.
Moves ==
  (({"absent"}                      \X {"pending"})
    \cup ({"pending", "cancelled"}  \X {"running"})
    \cup ({"running", "cancelled"}  \X {"completed"})
    \cup ((Active \cup {"cancelled"}) \X {"failed"})
    \cup ((Active \cup {"completed", "failed"}) \X {"cancelled"}))
  \cup ((Active \cup Terminal)      \X {"deleted"})

\* Several rows may move at once: a restart fails every interrupted job and
\* deleting a repository removes all of its rows.
Next ==
  /\ status' \in [Jobs -> Status]
  /\ \A j \in Jobs : status'[j] # status[j] => <<status[j], status'[j]>> \in Moves

Spec == Init /\ [][Next]_status
=============================================================================
