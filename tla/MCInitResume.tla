---- MODULE MCInitResume ----
(* Small instances of InitResume: file pages are rendered in the first wave,  *)
(* as is one page a model writes; the other such pages follow in the last.    *)
EXTENDS InitResume

CONSTANTS
  Early,   \* pages of the first wave
  Gone     \* pages an edit makes superfluous

MCLevelOf == [p \in Pages |-> IF p \in Early THEN 1 ELSE Levels]
MCCallsFor == [v \in 0 .. MaxEdits |-> IF v = 0 THEN Pages ELSE Pages \ Gone]
====
