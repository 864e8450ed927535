----------------------------- MODULE CompletedDirs -----------------------------
(***************************************************************************)
(* The directories a worker knows to be complete, and how confirming one   *)
(* file changes them (confirmManagedFile in internal/worker/claims.go).    *)
(***************************************************************************)
EXTENDS TreeShape

\* The files below some of the directories.
Covered(dirs) == {f \in Files : \E d \in dirs : d \in Lineage[DirIdx[f]]}

\* dirCompleteLocked: every file below d is confirmed, or lies in a completed
\* directory at or below d.
DirComplete(d, files, dirs) ==
  \A f \in Span(d) :
    f \in files \/ \E e \in dirs : e \in Lineage[DirIdx[f]] /\ d \in Lineage[e]

\* The directories above f that are complete, up to the first that is not.
CompleteChain(f, files, dirs) ==
  {d \in Lineage[DirIdx[f]] :
     \A e \in Lineage[DirIdx[f]] : d \in Lineage[e] => DirComplete(e, files, dirs)}

\* A mutant of Pruned: prunes below every complete directory, records only the lowest.
MutRecordLowest(dirs, chain) ==
  {d \in dirs : \A e \in chain : e \notin Lineage[d]}
  \cup {d \in chain : \A e \in chain : e \in Lineage[d]}

\* pruneDescendantCompletedLocked: a completed directory stands for all below it.
Pruned(dirs, chain) ==
  {d \in dirs \cup chain : \A e \in chain : e \in Lineage[d] => e = d}

=============================================================================
