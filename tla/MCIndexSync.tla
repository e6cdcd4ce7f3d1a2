---------------------------- MODULE MCIndexSync ----------------------------
(* Finite instances of IndexSync for TLC. *)
EXTENDS IndexSync, FiniteSets

CONSTANTS f1, u1, u2, w1, w2

Started(n) == Cardinality({r \in Runs : pc[r] # "idle"}) <= n
OneFile    == \A n \in 1 .. MaxCommits : touched[n] \subseteq {f1}

\* Bound: two updates of any kind with three commits of one file or two of two files,
\* or any three runs, a server job among them, with one commit.  Files are alike,
\* and so are the processes of one kind: f1 changes first, u1 and w1 start first.
\* Nobody has to commit or to start a process, so the bound is no obstacle to the
\* liveness property.
PairOrThree ==
  /\ pc[u1] = "idle" => pc[u2] = "idle"
  /\ pc[w1] = "idle" => pc[w2] = "idle"
  /\ head >= 1 => f1 \in touched[1]
  /\ head <= 2 \/ OneFile
  /\ \/ Started(2) /\ \A j \in Jobs : pc[j] = "idle"
     \/ Started(3) /\ pc[w2] = "idle" /\ head <= 1 /\ OneFile
=============================================================================
