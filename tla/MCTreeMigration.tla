--------------------------- MODULE MCTreeMigration ---------------------------
(* Instances of TreeMigration for TLC.                                     *)
EXTENDS TreeMigration

CONSTANTS w, v

\* The baseline: / holds the directories 1 and 2 with a file each, 4 and 5, and the
\* file 3.  The site may also hold 8 in /, a directory 6 in 1, and a file 7 in 6.
MCPath == 0 .. 8
MCUp == 1 :> 0 @@ 2 :> 0 @@ 3 :> 0 @@ 4 :> 1 @@ 5 :> 2 @@ 6 :> 1 @@ 7 :> 6 @@ 8 :> 0
MCBaseDirs == [p \in MCPath |-> IF p = 0 THEN <<1, 2>> ELSE <<>>]
MCBaseFiles ==
  [p \in MCPath |-> CASE p = 0 -> <<3>> [] p = 1 -> <<4>> [] p = 2 -> <<5>> [] OTHER -> <<>>]
MCName == [p \in MCPath |-> IF p \in {4, 5, 7} THEN 4 ELSE p]

\* 0 and 1 look alike; all files of the baseline have size 0.
MCSize == 0 .. 2
MCShown == {0, 2}
MCFormat == 0 :> 0 @@ 1 :> 0 @@ 2 :> 2
MCBaseSize == [p \in MCPath |-> 0]

None == [kind |-> "none", size |-> 0, shown |-> 0]
Dir == [kind |-> "dir", size |-> 0, shown |-> 0]
File(s, l) == [kind |-> "file", size |-> s, shown |-> l]

\* The same, written differently, changed, changed without looking it.
MCFiles == {File(0, 0), File(0, 2), File(2, 2), File(1, 0)}
MCRemotes ==
  {r \in [1 .. 8 -> {None, Dir} \cup MCFiles] :
     /\ r[1] \in {Dir, File(2, 2)} /\ r[2] \in {None, Dir}
     /\ r[4] = None /\ r[5] = IF r[2] = Dir THEN File(0, 0) ELSE None
     /\ r[6] \in {None, Dir} /\ r[7] \in {None, File(2, 2)}
     /\ r[8] \in {None, Dir, File(2, 2)}
     /\ r[1] # Dir => r[6] = None
     /\ r[6] # Dir => r[7] = None}

MCClaims == {<<w, 1>>, <<w, 2>>}
MCStatuses == {<<w, 4>>, <<w, 5>>, <<v, 5>>}
MCArchives == {<<w, 5>>}
=============================================================================
