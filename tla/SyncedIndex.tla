---------------------------- MODULE SyncedIndex ----------------------------
(***************************************************************************)
(* What whoever queries the index of a repository, or diffs from its sync   *)
(* pointer, may rely on while updates run, fail, defer and are killed.      *)
(*                                                                          *)
(* The index holds of every file a version that the history has, and only   *)
(* ever a newer one in its place.  The pointer names a commit, and only one *)
(* whose changes, and those of all the commits before it, are indexed,      *)
(* except in files that an update said it left behind.  The pointer may go  *)
(* back: an update records the HEAD it found when it began.                 *)
(***************************************************************************)
EXTENDS Naturals

CONSTANT Files

VARIABLES
  head,     \* the newest commit
  touched,  \* [1 .. head -> SUBSET Files]: what each commit changed
  index,    \* [Files -> 0 .. head]: the version indexed of each file
  behind,   \* files that an update has left out of date, and said so
  pointer   \* the commit recorded as synced

\* The commits that brought a version of the file, the first index included.
Versions(f) == {0} \cup {n \in 1 .. head : f \in touched[n]}

\* All that the commits up to c changed is indexed, or known to be behind.
Covers(c) == \A n \in 1 .. c : \A f \in touched[n] \ behind : index[f] >= n

Init ==
  /\ head = 0
  /\ index = [f \in Files |-> 0]
  /\ behind = {}
  /\ pointer = 0

Commit ==
  /\ head' = head + 1
  /\ \A n \in 1 .. head : touched'[n] = touched[n]
  /\ touched'[head + 1] \in (SUBSET Files) \ {{}}
  /\ UNCHANGED <<index, behind, pointer>>

\* Any number of files at once: an update is one transaction.  A file is no longer
\* behind only when what the pointer claims of it is indexed.
Refresh ==
  /\ index' \in [Files -> 0 .. head]
  /\ \A f \in Files : index'[f] \in Versions(f) /\ index'[f] >= index[f]
  /\ behind' \subseteq Files
  /\ Covers(pointer)'
  /\ UNCHANGED <<head, touched, pointer>>

Record ==
  /\ pointer' \in 0 .. head
  /\ Covers(pointer')
  /\ UNCHANGED <<head, touched, index, behind>>

Next == Commit \/ Refresh \/ Record

Spec == Init /\ [][Next]_<<head, touched, index, behind, pointer>>
=============================================================================
