----------------------------- MODULE WikiPages -----------------------------
(***************************************************************************)
(* What a reader of the wiki may rely on while `repowise init` runs, is     *)
(* killed and is resumed: the life of the page rows, seen from outside.     *)
(*                                                                          *)
(* A page has no row, a structural stub, or prose.  Prose is never traded   *)
(* for a stub, except while a run that was asked to rebuild the wiki from   *)
(* templates is under way, and a row goes away only when the run in         *)
(* progress no longer stands behind the page.                               *)
(***************************************************************************)
CONSTANT Pages

VARIABLES
  rows,        \* [Pages -> Row]: the wiki_pages table
  rebuilding,  \* is a template run under way?
  retired      \* the pages whose rows the run in progress may delete

Row == {"none", "stub", "prose"}

Init == rows = [p \in Pages |-> "none"]

\* How one row may change.
Moves ==
  {<<"none", "stub">>, <<"none", "prose">>, <<"stub", "prose">>}
    \cup (IF rebuilding THEN {<<"prose", "stub">>} ELSE {})

MayBecome(p, row) ==
  \/ <<rows[p], row>> \in Moves
  \/ row = "none" /\ p \in retired

\* Any number of rows change at once: the last write of a run is one commit.
Next ==
  /\ rows' \in [Pages -> Row]
  /\ \A p \in Pages : rows'[p] # rows[p] => MayBecome(p, rows'[p])

Spec == Init /\ [][Next]_rows
=============================================================================
