--------------------------- MODULE MCReportDelivery ---------------------------
(* Instances of ReportDelivery for TLC.                                    *)
EXTENDS ReportDelivery, TLC

\* Root 0 with the sub-directories 1 and 2; file 0 is in 1 and file 1 in 2.
MCParentIdx == 0 :> -1 @@ 1 :> 0 @@ 2 :> 0
MCDirIdx    == 0 :> 1 @@ 1 :> 2
MCFileStart == 0 :> 0 @@ 1 :> 0 @@ 2 :> 1
MCFileEnd   == 0 :> 2 @@ 1 :> 1 @@ 2 :> 2

\* One directory below the root, one file in it.
OneParentIdx == 0 :> -1 @@ 1 :> 0
OneDirIdx    == 0 :> 1
OneFileStart == 0 :> 0 @@ 1 :> 0
OneFileEnd   == 0 :> 1 @@ 1 :> 1

Symmetry == Permutations(Conn)
=============================================================================
