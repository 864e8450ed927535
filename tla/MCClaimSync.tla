----------------------------- MODULE MCClaimSync -----------------------------
(* Instances of ClaimSync for TLC.                                         *)
EXTENDS ClaimSync, TLC

Symmetry == Permutations(Dir) \cup Permutations(Request) \cup Permutations(Conn)
=============================================================================
