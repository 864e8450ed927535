---------------------------- MODULE ClaimReplica ----------------------------
(***************************************************************************)
(* What a change of claims promises, without requests, handlers and        *)
(* connections: one table, and two copies of it, the totals of the tree    *)
(* and the list of the worker.  What a copy is given is the table as it is *)
(* at that moment, so a copy never goes back behind a change it has seen,  *)
(* except the worker's to what it had kept; a copy the table may have      *)
(* changed under is owed the table.                                        *)
(***************************************************************************)
EXTENDS Sequences

CONSTANTS Dir,    \* directories
          Kind,   \* kinds of claims
          NoFile  \* nothing is kept

VARIABLES
  table,  \* the claims
  totals, \* the copy the tree computes with
  wire,   \* what is on its way to the worker
  list,   \* the copy the worker works on
  kept,   \* what a restart of the worker finds
  linked, \* is there a worker at the other end?
  owed    \* the copies that are owed the table

vars == <<table, totals, wire, list, kept, linked, owed>>

NoClaims == [d \in Dir |-> "none"]

Init ==
  /\ table = NoClaims /\ totals = NoClaims /\ list = NoClaims /\ kept = NoClaims
  /\ wire = <<>>
  /\ linked = FALSE
  /\ owed = {"worker"}

Change(d, kind) ==
  /\ table' = [table EXCEPT ![d] = kind]
  /\ owed' = {"tree", "worker"}
  /\ UNCHANGED <<totals, wire, list, kept, linked>>

\* A change that turns out to be made already is announced as well.
Announce ==
  /\ owed' = {"tree", "worker"}
  /\ UNCHANGED <<table, totals, wire, list, kept, linked>>

Refresh ==
  /\ totals' = table
  /\ owed' = owed \ {"tree"}
  /\ UNCHANGED <<table, wire, list, kept, linked>>

Publish ==
  /\ linked
  /\ wire' = Append(wire, table)
  /\ owed' = owed \ {"worker"}
  /\ UNCHANGED <<table, totals, list, kept, linked>>

Receive ==
  /\ wire # <<>>
  /\ list' = Head(wire)
  /\ wire' = Tail(wire)
  /\ UNCHANGED <<table, totals, kept, linked, owed>>

\* Between the old copy and the new one, nothing is kept.
Keep ==
  /\ kept' \in {list, NoFile}
  /\ UNCHANGED <<table, totals, wire, list, linked, owed>>

Link ==
  /\ ~linked
  /\ linked' = TRUE
  /\ UNCHANGED <<table, totals, wire, list, kept, owed>>

\* The worker is gone, with what is on its way to it; it may have to start again.
Break ==
  /\ linked' = FALSE
  /\ wire' = <<>>
  /\ owed' = owed \cup {"worker"}
  /\ list' \in {list, IF kept = NoFile THEN NoClaims ELSE kept}
  /\ UNCHANGED <<table, totals, kept>>

Next ==
  \/ \E d \in Dir, kind \in Kind \cup {"none"} : Change(d, kind)
  \/ Announce
  \/ Refresh \/ Publish
  \/ Receive \/ Keep
  \/ Link \/ Break

Spec == Init /\ [][Next]_vars

=============================================================================
