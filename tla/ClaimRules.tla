------------------------------ MODULE ClaimRules ------------------------------
(***************************************************************************)
(* What a list of claims covers.  Three functions read the same list: the  *)
(* worker's planner (claimState.walkDir), the check of one task            *)
(* (claimState.evaluateDir), both in internal/worker/claims.go, and the    *)
(* server's statistics (recomputeClaimedStatsLocked in                     *)
(* internal/server/tree.go).  A list is a pair of sets of directories.     *)
(***************************************************************************)
EXTENDS TreeShape

\* splitClaims, normalizeClaims: a list, its order and repetitions left out.
List == [white : SUBSET Dirs, black : SUBSET Dirs]
NoClaims == [white |-> {}, black |-> {}]

\* The directories from d up to its ancestor top.
Below(top, d) == {e \in Lineage[d] : top \in Lineage[e]}

\* rebuild, walkDir: what a walk from every white directory reaches when it stops
\* at black and at completed directories.  What lies above the white directory
\* the walk started from is not looked at.
Walked(list, finished) ==
  {f \in Files :
     \E w \in list.white \cap Lineage[DirIdx[f]] :
       Below(w, DirIdx[f]) \cap (list.black \cup finished) = {}}

\* evaluateDir: some directory up to the root is white and none is black.
Allowed(list, f) ==
  /\ list.white \cap Lineage[DirIdx[f]] # {}
  /\ list.black \cap Lineage[DirIdx[f]] = {}

\* A mutant of Blocked: a black directory blocks its own files only.
MutBlockedHere(above, list, d) == d \in list.black

\* What recomputeClaimedStatsLocked marks blocked: a black directory and all below it.
Blocked(above, list, d) == above \/ d \in list.black

\* recomputeClaimedStatsLocked for one owner: from the root down, a directory adds
\* its own marks to those of its parent.
Marks(list) ==
  LET mark[d \in Dirs] ==
        LET above == IF d = 0 THEN [white |-> FALSE, blocked |-> FALSE] ELSE mark[ParentIdx[d]]
        IN  [white   |-> above.white \/ d \in list.white,
             blocked |-> Blocked(above.blocked, list, d)]
  IN  mark

\* The files it counts as claimed.
Counted(list) ==
  LET mark == Marks(list)
  IN  {f \in Files : mark[DirIdx[f]].white /\ ~mark[DirIdx[f]].blocked}

\* The lists of which the three say different things: that the server counts other
\* files than those the worker would not refuse, that the walk misses one of them,
\* or that it comes to more than those below a white directory in a black one.
Disputed ==
  {list \in List :
     \/ Counted(list) # {f \in Files : Allowed(list, f)}
     \/ ~(Counted(list) \subseteq Walked(list, {}))
     \/ \E f \in Walked(list, {}) \ Counted(list) :
          \A b \in list.black, w \in list.white \cap Lineage[DirIdx[f]] : b \notin Lineage[w] \ {w}}

=============================================================================
