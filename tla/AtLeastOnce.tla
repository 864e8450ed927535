------------------------------ MODULE AtLeastOnce ------------------------------
(***************************************************************************)
(* What the reporting of a worker promises, without connections, numbers   *)
(* or processes: a report is kept until it has been received, and only     *)
(* reports that need not be kept any more are recorded as finished, the    *)
(* one thing a crash of the sender leaves.                                 *)
(***************************************************************************)
EXTENDS TLAPS

CONSTANT Reports

VARIABLES kept,     \* reports the sender will still send, or send again
          received, \* reports the receiver has stored
          recorded  \* reports the sender finds finished when it starts

vars == <<kept, received, recorded>>

Init == kept = Reports /\ received = {} /\ recorded = {}

Receive(r) ==
  /\ r \in kept
  /\ received' = received \cup {r}
  /\ UNCHANGED <<kept, recorded>>

Discard(batch) ==
  /\ batch \subseteq kept \cap received
  /\ kept' = kept \ batch
  /\ UNCHANGED <<received, recorded>>

Record(batch) ==
  /\ batch \subseteq Reports \ kept
  /\ recorded' = recorded \cup batch
  /\ UNCHANGED <<kept, received>>

Crash ==
  /\ kept' = Reports \ recorded
  /\ UNCHANGED <<received, recorded>>

Next ==
  \/ \E r \in Reports : Receive(r)
  \/ \E batch \in SUBSET Reports : Discard(batch) \/ Record(batch)
  \/ Crash

Spec == Init /\ [][Next]_vars

-----------------------------------------------------------------------------
Inv ==
  /\ kept \subseteq Reports /\ recorded \subseteq Reports \ kept
  /\ Reports \subseteq kept \cup received
  /\ received \subseteq Reports

\* A report is with its sender or with its receiver, and a crash of the sender
\* loses none: what is finished has been received.
NothingLost == Reports \subseteq kept \cup received /\ recorded \subseteq received

\* The promise of reporter and hub: at every point a report is kept or stored.
THEOREM PromiseKept == Spec => []NothingLost
<1>1. Init => Inv
  BY DEF Init, Inv
<1>2. Inv /\ [Next]_vars => Inv'
  BY DEF Inv, Next, vars, Receive, Discard, Record, Crash
<1>3. Inv => NothingLost
  BY DEF Inv, NothingLost
<1> QED
  BY <1>1, <1>2, <1>3, PTL DEF Spec

=============================================================================
