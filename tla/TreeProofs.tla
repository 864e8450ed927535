------------------------------ MODULE TreeProofs ------------------------------
(***************************************************************************)
(* TLAPS proofs about the directory tree and what is computed from it, for *)
(* trees of any size and shape: ancestors, the three readings of a list of *)
(* claims (ClaimRules), and the recorded complete directories              *)
(* (CompletedDirs).                                                        *)
(***************************************************************************)
EXTENDS ClaimRules, CompletedDirs, WellFoundedInduction, TLAPS

(* A set of numbers has a least one, so that what fails somewhere fails     *)
(* somewhere first: induction, without an operator as parameter.            *)

Less == {p \in Nat \X Nat : p[1] < p[2]}

LEMMA LessWellFounded == IsWellFoundedOn(Less, Nat)
BY NatLessThanWellFounded DEF OpToRel, Less

LEMMA LeastExists ==
  ASSUME NEW S, S \subseteq Nat, S # {}
  PROVE  \E m \in S : \A n \in S : m <= n
<1>1. PICK m \in S : \A n \in S : <<n, m>> \notin Less
  BY LessWellFounded, WFMin
<1>2. \A n \in S : ~ (n < m)
  BY <1>1 DEF Less
<1> QED
  BY <1>2

-----------------------------------------------------------------------------
(* A directory and those above it.                                         *)

LEMMA DirNumbers ==
  /\ Dirs \subseteq Nat /\ Files \subseteq Nat
  /\ \A d \in Dirs : ParentIdx[d] >= 0 => ParentIdx[d] \in Dirs
  /\ \A d \in Dirs : ParentIdx[d] < d /\ (d # 0 => ParentIdx[d] >= 0)
  /\ \A f \in Files : DirIdx[f] \in Dirs
BY TreeAssumption DEF Dirs, Files

\* Closed under taking the parent.
Upward(S) == \A x \in S : ParentIdx[x] >= 0 => ParentIdx[x] \in S

LEMMA LineageIs ==
  ASSUME NEW d \in Dirs
  PROVE  Lineage[d] = {e \in Dirs : \A S \in SUBSET Dirs : d \in S /\ Upward(S) => e \in S}
BY DEF Lineage, Upward

LEMMA LineageClosed ==
  ASSUME NEW d \in Dirs
  PROVE  Lineage[d] \subseteq Dirs /\ d \in Lineage[d] /\ Upward(Lineage[d])
<1>1. Lineage[d] \subseteq Dirs /\ d \in Lineage[d]
  BY LineageIs
<1>2. ASSUME NEW x \in Lineage[d], ParentIdx[x] >= 0 PROVE ParentIdx[x] \in Lineage[d]
  <2>1. ParentIdx[x] \in Dirs
    BY <1>1, <1>2, DirNumbers
  <2>2. ASSUME NEW S \in SUBSET Dirs, d \in S, Upward(S) PROVE ParentIdx[x] \in S
    <3>1. x \in S
      BY <2>2, LineageIs
    <3> QED
      BY <1>2, <2>2, <3>1 DEF Upward
  <2> QED
    BY <2>1, <2>2, LineageIs
<1> QED
  BY <1>1, <1>2 DEF Upward

LEMMA LineageLeast ==
  ASSUME NEW d \in Dirs, NEW S, S \subseteq Dirs, d \in S, Upward(S)
  PROVE  Lineage[d] \subseteq S
BY LineageIs

\* What lies above a directory lies above whatever is below it.
LEMMA LineageTransitive ==
  ASSUME NEW d \in Dirs, NEW e \in Lineage[d]
  PROVE  e \in Dirs /\ Lineage[e] \subseteq Lineage[d]
BY LineageClosed, LineageLeast

\* One step up.
LEMMA LineageStep ==
  ASSUME NEW d \in Dirs
  PROVE  /\ ParentIdx[d] >= 0 => Lineage[d] = {d} \cup Lineage[ParentIdx[d]]
         /\ ParentIdx[d] < 0 => Lineage[d] = {d}
<1>1. ASSUME ParentIdx[d] >= 0 PROVE Lineage[d] = {d} \cup Lineage[ParentIdx[d]]
  <2> DEFINE p == ParentIdx[d]
  <2>1. p \in Dirs /\ p \in Lineage[d]
    BY <1>1, DirNumbers, LineageClosed DEF Upward
  <2>2. Lineage[p] \subseteq Lineage[d]
    BY <2>1, LineageTransitive
  <2>3. /\ {d} \cup Lineage[p] \subseteq Dirs /\ p \in Lineage[p] /\ Upward(Lineage[p])
    BY <2>1, LineageClosed
  <2>4. Upward({d} \cup Lineage[p])
    BY <2>3 DEF Upward
  <2>5. Lineage[d] \subseteq {d} \cup Lineage[p]
    BY <2>3, <2>4, LineageLeast
  <2> QED
    BY <2>2, <2>5, LineageClosed
<1>2. ASSUME ParentIdx[d] < 0 PROVE Lineage[d] = {d}
  <2>1. Upward({d})
    BY <1>2, TreeAssumption DEF Upward, Dirs
  <2> QED
    BY <2>1, LineageLeast, LineageClosed
<1> QED
  BY <1>1, <1>2

\* A parent has the smaller number.
LEMMA LineageUp ==
  ASSUME NEW d \in Dirs, NEW e \in Lineage[d]
  PROVE  e <= d /\ (d \in Lineage[e] => d = e)
<1>1. \A a \in Dirs : \A b \in Lineage[a] : b <= a
  <2> TAKE a \in Dirs
  <2> DEFINE S == {x \in Dirs : x <= a}
  <2>1. S \subseteq Dirs /\ a \in S
    BY DirNumbers
  <2>2. Upward(S)
    <3> SUFFICES ASSUME NEW x \in S, ParentIdx[x] >= 0 PROVE ParentIdx[x] \in S
      BY DEF Upward
    <3>1. /\ ParentIdx[x] \in Dirs /\ ParentIdx[x] < x /\ x <= a
          /\ x \in Nat /\ a \in Nat /\ ParentIdx[x] \in Nat
      BY DirNumbers
    <3> QED
      BY <3>1
  <2> QED
    BY <2>1, <2>2, LineageLeast
<1>2. e \in Dirs
  BY LineageClosed
<1>3. e \in Nat /\ d \in Nat
  BY <1>2, DirNumbers
<1> QED
  BY <1>1, <1>2, <1>3

\* Of two directories above a third, one is above the other.
LEMMA LineageChain ==
  ASSUME NEW d \in Dirs, NEW e \in Lineage[d], NEW f \in Lineage[d]
  PROVE  e \in Lineage[f] \/ f \in Lineage[e]
<1> DEFINE S == {x \in Dirs : x \in Lineage[f] \/ f \in Lineage[x]}
<1>1. f \in Dirs /\ S \subseteq Dirs /\ d \in S
  BY LineageClosed
<1>2. Upward(S)
  <2> SUFFICES ASSUME NEW x \in S, ParentIdx[x] >= 0 PROVE ParentIdx[x] \in S
    BY DEF Upward
  <2>1. x \in Dirs /\ ParentIdx[x] \in Dirs /\ Upward(Lineage[f]) /\ f \in Lineage[f]
    BY <1>1, DirNumbers, LineageClosed
  <2>2. CASE x \in Lineage[f]
    BY <2>1, <2>2 DEF Upward
  <2>3. CASE f \in Lineage[x] /\ f # x
    BY <2>1, <2>3, LineageStep
  <2>4. CASE f = x
    BY <2>1, <2>4 DEF Upward
  <2> QED
    BY <2>2, <2>3, <2>4
<1> QED
  BY <1>1, <1>2, LineageLeast

-----------------------------------------------------------------------------
(* The three readings of a list.                                           *)

\* The marks of a directory say whether it, or anything above it, is in the list:
\* the recursion of recomputeClaimedStatsLocked comes to that for every tree.
LEMMA MarksAre ==
  ASSUME NEW list \in List, NEW d \in Dirs
  PROVE  Marks(list)[d] = [white   |-> list.white \cap Lineage[d] # {},
                           blocked |-> list.black \cap Lineage[d] # {}]
<1> DEFINE Unmarked == [white |-> FALSE, blocked |-> FALSE]
           From(m, e) == IF e = 0 THEN Unmarked ELSE m[ParentIdx[e]]
           Next(m) == [e \in Dirs |->
             [white   |-> From(m, e).white \/ e \in list.white,
              blocked |-> From(m, e).blocked \/ e \in list.black]]
           Mark(e) == [white   |-> list.white \cap Lineage[e] # {},
                       blocked |-> list.black \cap Lineage[e] # {}]
<1>1. Marks(list) = CHOOSE m : m = Next(m)
  BY DEF Marks, Blocked
<1>2. ASSUME NEW m, NEW e \in Dirs, e # 0 => m[ParentIdx[e]] = Mark(ParentIdx[e])
      PROVE  Next(m)[e] = Mark(e)
  <2>1. CASE e = 0
    <3>1. Lineage[e] = {e}
      BY <2>1, TreeAssumption, LineageStep DEF Dirs
    <3> QED
      BY <2>1, <3>1
  <2>2. CASE e # 0
    <3>1. Lineage[e] = {e} \cup Lineage[ParentIdx[e]]
      BY <2>2, DirNumbers, LineageStep
    <3>2. From(m, e) = Mark(ParentIdx[e])
      BY <1>2, <2>2
    <3>3. (list.white \cap Lineage[e] # {}) <=> (list.white \cap Lineage[ParentIdx[e]] # {} \/ e \in list.white)
      BY <3>1
    <3>4. (list.black \cap Lineage[e] # {}) <=> (list.black \cap Lineage[ParentIdx[e]] # {} \/ e \in list.black)
      BY <3>1
    <3>5. Mark(ParentIdx[e]).white = (list.white \cap Lineage[ParentIdx[e]] # {})
      OBVIOUS
    <3>6. Mark(ParentIdx[e]).blocked = (list.black \cap Lineage[ParentIdx[e]] # {})
      OBVIOUS
    <3>7. (From(m, e).white \/ e \in list.white) = (list.white \cap Lineage[e] # {})
      <4> HIDE DEF From, Mark
      <4> QED
        BY <3>2, <3>3, <3>5
    <3>8. (From(m, e).blocked \/ e \in list.black) = (list.black \cap Lineage[e] # {})
      <4> HIDE DEF From, Mark
      <4> QED
        BY <3>2, <3>4, <3>6
    <3>9. Next(m)[e] = [white   |-> From(m, e).white \/ e \in list.white,
                        blocked |-> From(m, e).blocked \/ e \in list.black]
      <4> HIDE DEF From
      <4> QED
        OBVIOUS
    <3> QED
      <4> HIDE DEF From, Next
      <4> QED
        BY <3>7, <3>8, <3>9
  <2> QED
    BY <2>1, <2>2
<1>3. \E m : m = Next(m)
  <2> DEFINE M == [e \in Dirs |-> Mark(e)]
  <2>1. \A e \in Dirs : e # 0 => M[ParentIdx[e]] = Mark(ParentIdx[e])
    BY DirNumbers
  <2>2. \A e \in Dirs : Next(M)[e] = Mark(e)
    BY <1>2, <2>1
  <2>3. Next(M) = M
    BY <2>2
  <2> QED
    BY <2>3
<1> DEFINE m == Marks(list)
<1>4. m = Next(m)
  BY <1>1, <1>3
<1> HIDE DEF m
<1>5. ASSUME NEW e \in Dirs, m[e] # Mark(e) PROVE FALSE
  <2> DEFINE S == {x \in Dirs : m[x] # Mark(x)}
  <2>1. S \subseteq Nat /\ S # {}
    BY <1>5, DirNumbers
  <2>2. PICK x \in S : \A y \in S : x <= y
    BY <2>1, LeastExists
  <2>3. x \in Dirs /\ m[x] # Mark(x)
    BY <2>2
  <2>4. ASSUME x # 0 PROVE m[ParentIdx[x]] = Mark(ParentIdx[x])
    <3>1. /\ ParentIdx[x] \in Dirs /\ ParentIdx[x] < x
          /\ ParentIdx[x] \in Nat /\ x \in Nat
      BY <2>3, <2>4, DirNumbers
    <3>2. ~ (x <= ParentIdx[x])
      BY <3>1
    <3>3. ParentIdx[x] \notin S
      BY <2>2, <3>2
    <3> QED
      BY <3>1, <3>3
  <2> HIDE DEF S
  <2>5. Next(m)[x] = Mark(x)
    <3> HIDE DEF Next, Mark
    <3> QED
      BY <1>2, <2>3, <2>4
  <2>6. m[x] = Mark(x)
    <3> HIDE DEF Next, Mark
    <3> QED
      BY <1>4, <2>5
  <2> QED
    BY <2>3, <2>6
<1> QED
  BY <1>5 DEF m

\* The server counts as claimed what the worker does not refuse, the worker's walk
\* reaches all of it, and comes to more only below a white directory in a black one:
\* recomputeClaimedStatsLocked, evaluateDir and walkDir, for every tree and list.
THEOREM NothingDisputed == Disputed = {}
<1> SUFFICES ASSUME NEW list \in List, list \in Disputed PROVE FALSE
  BY DEF Disputed
<1>1. Counted(list) = {f \in Files : Allowed(list, f)}
  <2>1. ASSUME NEW f \in Files
        PROVE  /\ Marks(list)[DirIdx[f]].white <=> list.white \cap Lineage[DirIdx[f]] # {}
               /\ Marks(list)[DirIdx[f]].blocked <=> list.black \cap Lineage[DirIdx[f]] # {}
    <3>1. DirIdx[f] \in Dirs
      BY DirNumbers
    <3>2. Marks(list)[DirIdx[f]] = [white   |-> list.white \cap Lineage[DirIdx[f]] # {},
                                   blocked |-> list.black \cap Lineage[DirIdx[f]] # {}]
      BY <3>1, MarksAre
    <3>3. /\ Marks(list)[DirIdx[f]].white = (list.white \cap Lineage[DirIdx[f]] # {})
          /\ Marks(list)[DirIdx[f]].blocked = (list.black \cap Lineage[DirIdx[f]] # {})
      BY <3>2
    <3> QED
      BY <3>3
  <2> QED
    BY <2>1 DEF Counted, Allowed
<1>2. ASSUME NEW f \in Files, Allowed(list, f) PROVE f \in Walked(list, {})
  BY <1>2 DEF Allowed, Walked, Below
<1>3. ASSUME NEW f \in Walked(list, {}), ~ Allowed(list, f)
      PROVE  \E b \in list.black, w \in list.white \cap Lineage[DirIdx[f]] : b \in Lineage[w] \ {w}
  <2>1. PICK w \in list.white \cap Lineage[DirIdx[f]] : Below(w, DirIdx[f]) \cap list.black = {}
    BY DEF Walked
  <2>2. PICK b \in list.black : b \in Lineage[DirIdx[f]]
    BY <1>3, <2>1 DEF Allowed, Walked
  <2>3. f \in Files /\ DirIdx[f] \in Dirs
    BY DirNumbers DEF Walked
  <2>4. w \notin Lineage[b]
    BY <2>1, <2>2 DEF Below
  <2>5. b \in Lineage[w] /\ w \in Lineage[w]
    BY <2>3, <2>1, <2>2, <2>4, LineageChain, LineageClosed, LineageTransitive
  <2> QED
    BY <2>4, <2>5
<1> QED
  BY <1>1, <1>2, <1>3 DEF Disputed, Walked

-----------------------------------------------------------------------------
(* Complete directories.                                                   *)

LEMMA ChainTop ==
  ASSUME NEW chain, chain \subseteq Dirs, NEW d \in Dirs, chain \cap Lineage[d] # {}
  PROVE  \E m \in chain \cap Lineage[d] : \A e \in chain : e \in Lineage[m] => e = m
<1> DEFINE S == chain \cap Lineage[d]
<1>1. S \subseteq Nat
  BY DirNumbers
<1>2. PICK m \in S : \A e \in S : m <= e
  BY <1>1, LeastExists
<1>3. ASSUME NEW e \in chain, e \in Lineage[m] PROVE e = m
  <2>1. m \in Dirs /\ e \in Lineage[d]
    BY <1>3, LineageTransitive
  <2>2. m <= e /\ e <= m
    BY <1>2, <1>3, <2>1, LineageUp
  <2> QED
    BY <1>1, <1>3, <2>1, <2>2
<1> QED
  BY <1>2, <1>3

\* Pruning loses no file: what was in a recorded directory, or in one just found to
\* be complete, is in a recorded directory afterwards, and nothing else is
\* (pruneDescendantCompletedLocked).
LEMMA PrunedCovers ==
  ASSUME NEW dirs, dirs \subseteq Dirs, NEW chain, chain \subseteq Dirs
  PROVE  /\ Pruned(dirs, chain) \subseteq dirs \cup chain
         /\ Covered(Pruned(dirs, chain)) = Covered(dirs \cup chain)
<1>1. Pruned(dirs, chain) \subseteq dirs \cup chain
  BY DEF Pruned
<1>2. Covered(Pruned(dirs, chain)) \subseteq Covered(dirs \cup chain)
  BY <1>1 DEF Covered
<1>3. ASSUME NEW f \in Covered(dirs \cup chain) PROVE f \in Covered(Pruned(dirs, chain))
  <2>1. PICK d \in dirs \cup chain : d \in Lineage[DirIdx[f]]
    BY DEF Covered
  <2>2. f \in Files /\ DirIdx[f] \in Dirs
    BY DirNumbers DEF Covered
  <2>3. CASE chain \cap Lineage[d] = {}
    <3>1. d \in Pruned(dirs, chain)
      BY <2>3 DEF Pruned
    <3> QED
      BY <2>1, <2>2, <3>1 DEF Covered
  <2>4. CASE chain \cap Lineage[d] # {}
    <3>1. PICK m \in chain \cap Lineage[d] : \A e \in chain : e \in Lineage[m] => e = m
      BY <2>4, ChainTop
    <3>2. m \in Pruned(dirs, chain)
      BY <3>1 DEF Pruned
    <3>3. m \in Lineage[DirIdx[f]]
      BY <2>1, <2>2, <3>1, LineageTransitive
    <3> QED
      BY <2>2, <3>2, <3>3 DEF Covered
  <2> QED
    BY <2>3, <2>4
<1> QED
  BY <1>1, <1>2, <1>3

\* A directory is found complete only when each of its files is confirmed or in a
\* recorded directory (dirCompleteLocked).
LEMMA ChainCovers ==
  ASSUME NEW f \in Files, NEW files, NEW dirs
  PROVE  /\ CompleteChain(f, files, dirs) \subseteq Dirs
         /\ Covered(CompleteChain(f, files, dirs)) \subseteq files \cup Covered(dirs)
<1>1. DirIdx[f] \in Dirs
  BY DirNumbers
<1>2. CompleteChain(f, files, dirs) \subseteq Dirs
  BY <1>1, LineageClosed DEF CompleteChain
<1>3. ASSUME NEW g \in Covered(CompleteChain(f, files, dirs)) PROVE g \in files \cup Covered(dirs)
  <2>1. PICK d \in CompleteChain(f, files, dirs) : d \in Lineage[DirIdx[g]]
    BY DEF Covered
  <2>2. g \in Files /\ d \in Dirs
    BY <1>2 DEF Covered
  <2>3. g \in Span(d)
    BY <2>1, <2>2, TreeAssumption
  <2>4. DirComplete(d, files, dirs)
    BY <1>1, <2>2, LineageClosed DEF CompleteChain
  <2> QED
    BY <2>2, <2>3, <2>4 DEF DirComplete, Covered
<1> QED
  BY <1>2, <1>3

=============================================================================
