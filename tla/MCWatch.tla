------------------------------ MODULE MCWatch ------------------------------
(* Watch for TLC: three timer threads, or two beside the hook's process. *)
EXTENDS Watch

\* The hook has a target from its first start on.
ThreadsOrHook == events < 3 \/ target[Hook] = 0
=============================================================================
