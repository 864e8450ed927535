--------------------------- MODULE MCWorkerPipeline ---------------------------
(* Instances of WorkerPipeline for TLC.                                    *)
EXTENDS WorkerPipeline, TLC

\* Root 0 with the sub-directories 1 and 2; file 0 is in 1 and file 1 in 2.
MCParentIdx == 0 :> -1 @@ 1 :> 0 @@ 2 :> 0
MCDirIdx    == 0 :> 1 @@ 1 :> 2
MCFileStart == 0 :> 0 @@ 1 :> 0 @@ 2 :> 1
MCFileEnd   == 0 :> 2 @@ 1 :> 1 @@ 2 :> 2

\* At first everything; or 1 and 2, whose numbers go when all of 0 is complete; or 1
\* although 0 is black, so that the walk comes to file 0 and the check refuses it.
\* Then everything but 2.
MCCached == {[white |-> {0}, black |-> {}], [white |-> {1, 2}, black |-> {}],
             [white |-> {1}, black |-> {0}]}
MCLists  == {[white |-> {0}, black |-> {2}]}

\* Each file is not there or done; or file 1 is done, and file 0 is half downloaded,
\* or done with a control file still there.
MCHalf == {"downloading", "control"}
MCRemains ==
  [Files -> {{}, {"final"}}]
  \cup {[f \in Files |-> IF f = 0 THEN rest ELSE {"final"}] : rest \in {MCHalf, {"final", "control"}}}
=============================================================================
