--------------------------- MODULE MCJobLifecycle ---------------------------
(* Finite instances of JobLifecycle for TLC. *)
EXTENDS JobLifecycle

CONSTANTS j1, j2, r1, r2

\* Both jobs on one repository, or one job on each of two.
SameRepo == [j \in Jobs |-> r1]
OwnRepo  == [j \in Jobs |-> IF j = j1 THEN r1 ELSE r2]

\* Bound: only the second of two jobs may be a webhook's.
FirstRequested == origin[j1] = "api"
=============================================================================
