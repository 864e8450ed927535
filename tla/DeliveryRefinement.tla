--------------------------- MODULE DeliveryRefinement ---------------------------
(***************************************************************************)
(* TLAPS proofs about ReportDelivery: a file is in exactly one place, the  *)
(* completed directories cover ever more, and ReportDelivery implements    *)
(* AtLeastOnce.                                                            *)
(***************************************************************************)
EXTENDS ReportDeliveryProofs, WellFoundedInduction

-----------------------------------------------------------------------------
(* Ancestors.                                                              *)

\* An ancestor's ancestor is an ancestor, and is numbered no higher.
LEMMA AncestorOfAncestor ==
  ASSUME NEW c \in Dirs, NEW d \in Lineage[c], NEW e \in Lineage[d]
  PROVE  d \in Dirs /\ e \in Dirs /\ e \in Lineage[c] /\ e <= d
<1>1. d \in Dirs
  BY DEF Lineage
<1>2. e \in Dirs
  BY <1>1 DEF Lineage
<1>3. e \in Lineage[c]
  <2> SUFFICES ASSUME NEW S \in SUBSET Dirs, c \in S,
                      \A x \in S : ParentIdx[x] >= 0 => ParentIdx[x] \in S
               PROVE  e \in S
    BY <1>2 DEF Lineage
  <2>1. d \in S
    BY DEF Lineage
  <2> QED
    BY <1>1, <2>1 DEF Lineage
<1>4. e <= d
  <2> DEFINE S == {x \in Dirs : x <= d}
  <2>1. d \in S /\ \A x \in S : ParentIdx[x] >= 0 => ParentIdx[x] \in S
    <3>1. ASSUME NEW x \in S, ParentIdx[x] >= 0 PROVE ParentIdx[x] \in Dirs /\ ParentIdx[x] <= d
      <4>1. ParentIdx[x] \in -1 .. NumDirs - 1 /\ ParentIdx[x] < x /\ x <= d
        BY TreeAssumption
      <4>2. x \in Nat /\ d \in Nat /\ NumDirs \in Nat
        BY <1>1, TreeAssumption DEF Dirs
      <4> QED
        BY <3>1, <4>1, <4>2 DEF Dirs
    <3>2. d <= d
      BY <1>1, TreeAssumption DEF Dirs
    <3> QED
      BY <1>1, <3>1, <3>2
  <2>2. e \in S
    BY <1>1, <2>1 DEF Lineage
  <2> QED
    BY <2>2
<1> QED
  BY <1>1, <1>2, <1>3, <1>4

\* A set of directories that is not empty has a lowest number.
LEMMA LowestDir ==
  ASSUME NEW T \in SUBSET Dirs, T # {}
  PROVE  \E x \in T : \A y \in T : x <= y
<1>1. T \subseteq Nat
  BY TreeAssumption DEF Dirs
<1>2. \E x \in T : \A y \in T : ~ (<<y, x>> \in OpToRel(<, Nat))
  BY <1>1, NatLessThanWellFounded, WFMin
<1>3. \A x, y \in Nat : y < x => <<y, x>> \in OpToRel(<, Nat)
  BY DEF OpToRel
<1>4. \A x, y \in T : ~(y < x) => x <= y
  BY <1>1
<1> QED
  BY <1>1, <1>2, <1>3, <1>4

\* Recording a complete chain and pruning what is below it uncovers nothing.
LEMMA PrunedCovers ==
  ASSUME NEW dirs \in SUBSET Dirs, NEW chain \in SUBSET Dirs
  PROVE  Covered(dirs) \subseteq Covered(Pruned(dirs, chain))
<1> SUFFICES ASSUME NEW g \in Files, NEW d \in dirs, d \in Lineage[DirIdx[g]]
             PROVE  \E e \in Pruned(dirs, chain) : e \in Lineage[DirIdx[g]]
  BY DEF Covered
<1>1. DirIdx[g] \in Dirs
  BY TreeAssumption
<1> DEFINE above == {e \in chain : e \in Lineage[d]}
<1>2. CASE above = {}
  BY <1>2 DEF Pruned
<1>3. CASE above # {}
  <2>1. PICK e \in above : \A x \in above : e <= x
    BY <1>3, LowestDir
  <2>2. e \in Lineage[DirIdx[g]] /\ e \in Dirs
    BY <1>1, <2>1, AncestorOfAncestor
  <2>3. ASSUME NEW x \in chain, x \in Lineage[e] PROVE x = e
    <3>1. x \in Lineage[d] /\ x <= e /\ x \in Dirs
      BY <2>3, AncestorOfAncestor
    <3>2. e <= x
      BY <2>1, <3>1
    <3> QED
      BY <2>2, <3>1, <3>2, TreeAssumption DEF Dirs
  <2> QED
    BY <2>1, <2>2, <2>3 DEF Pruned
<1> QED
  BY <1>2, <1>3

-----------------------------------------------------------------------------
(* Where the files are.                                                    *)

Kept == toVerify \cup verified \cup lastSent
GivenUp == acking \cup confirmed \cup Covered(completed)

\* A file is in one place: queued, new, unanswered or given up.
OnePlace ==
  /\ Files \subseteq Kept \cup GivenUp
  /\ toVerify \cap verified = {} /\ toVerify \cap lastSent = {} /\ verified \cap lastSent = {}
  /\ Kept \cap GivenUp = {}

MemoryAhead == Covered(saved) \subseteq Covered(completed)

PlaceInv == DeliveryInv /\ OnePlace /\ MemoryAhead

\* What covers nothing before a restart covers nothing after one.
LEMMA CoversNothing == Covered({}) = {}
  BY DEF Covered

LEMMA PlaceInit == Init => PlaceInv
  BY InvInit, CoversNothing DEF Init, PlaceInv, OnePlace, MemoryAhead, Kept, GivenUp, Replan

\* Confirming a file moves it from the batch to what is given up; the completed
\* directories then cover what they covered and at most what is confirmed.
LEMMA ConfirmCovers ==
  ASSUME DeliveryInv, NEW f \in Files, Confirm(f)
  PROVE  /\ Covered(completed) \subseteq Covered(completed')
         /\ Covered(completed') \subseteq Covered(completed) \cup confirmed'
         /\ saved' = saved \/ saved' = completed'
<1> DEFINE files == confirmed \cup {f}
           chain == CompleteChain(f, files, completed)
           dirs == Pruned(completed, chain)
<1>1. completed \in SUBSET Dirs /\ chain \in SUBSET Dirs
  BY TreeAssumption DEF DeliveryInv, TypeOK, Typed, CompleteChain, Lineage
<1>2. completed' = dirs /\ confirmed' = files /\ (saved' = saved \/ saved' = completed')
  BY DEF Confirm
<1>3. Covered(completed) \subseteq Covered(dirs)
  BY <1>1, PrunedCovers
<1>4. Covered(dirs) \subseteq Covered(completed) \cup files
  BY <1>1, CoveredByChain
<1> HIDE DEF dirs, files
<1> QED
  BY <1>2, <1>3, <1>4

LEMMA PlaceKept == PlaceInv /\ [Next]_vars => PlaceInv'
<1> SUFFICES ASSUME PlaceInv, [Next]_vars PROVE OnePlace' /\ MemoryAhead'
  BY InvKept DEF PlaceInv
<1> USE DEF PlaceInv
<1>1. ASSUME UNCHANGED <<worker, saved>> PROVE OnePlace' /\ MemoryAhead'
  BY <1>1 DEF worker, OnePlace, MemoryAhead, Kept, GivenUp, Covered
<1>2. ASSUME NEW f \in Files, PushVerified(f) PROVE OnePlace' /\ MemoryAhead'
  BY <1>2 DEF PushVerified, OnePlace, MemoryAhead, Kept, GivenUp, Covered
<1>3. ASSUME NEW c \in Conn, Collect(c) PROVE OnePlace' /\ MemoryAhead'
  BY <1>3 DEF Collect, Batch, OnePlace, MemoryAhead, Kept, GivenUp, Covered
<1>4. CASE ReadPong
  BY <1>4 DEF ReadPong, OnePlace, MemoryAhead, Kept, GivenUp, Covered
<1>5. ASSUME NEW f \in Files, Confirm(f) PROVE OnePlace' /\ MemoryAhead'
  <2>1. /\ Covered(completed) \subseteq Covered(completed)'
        /\ Covered(completed)' \subseteq Covered(completed) \cup confirmed'
        /\ saved' = saved \/ saved' = completed'
    BY <1>5, ConfirmCovers DEF Covered
  <2>2. /\ UNCHANGED <<toVerify, verified, lastSent>> /\ f \in acking
        /\ acking' = acking \ {f} /\ confirmed' = confirmed \cup {f}
    BY <1>5 DEF Confirm
  <2>3. Covered(saved)' = Covered(saved) \/ Covered(saved)' = Covered(completed)'
    BY <2>1 DEF Covered
  <2> QED
    BY <2>1, <2>2, <2>3 DEF OnePlace, MemoryAhead, Kept, GivenUp
<1>6. CASE WorkerRestart
  <2>1. Covered(completed)' = Covered(saved) /\ Covered(saved)' = Covered(saved)
    BY <1>6 DEF WorkerRestart, Covered
  <2> QED
    BY <1>6, <2>1 DEF WorkerRestart, Replan, OnePlace, MemoryAhead, Kept, GivenUp
<1>7. ASSUME NEW c \in Conn,
             \/ Dial(c) \/ Tick(c) \/ TickClosed(c) \/ ReadVersion(c) \/ Send(c) \/ SendFails(c)
             \/ Register(c) \/ Receive(c) \/ Answer(c) \/ HangUp(c) \/ Break(c)
             \/ \E f \in Files : Store(c, f) \/ StoreFails(c, f)
      PROVE UNCHANGED <<worker, saved>>
  BY <1>7 DEF Dial, Tick, TickClosed, ReadVersion, Send, SendFails, Register, Receive,
              Answer, HangUp, Break, Store, StoreFails
<1>8. LoseConn \/ ServerRestart \/ UNCHANGED vars => UNCHANGED <<worker, saved>>
  BY DEF LoseConn, ServerRestart, vars
<1> QED
  BY <1>1, <1>2, <1>3, <1>4, <1>5, <1>6, <1>7, <1>8 DEF Next, Reporting, Reading, Handling

\* A file to report is always queued, in a batch, or given up for good.
THEOREM NothingForgotten == Spec => []NoReportLost
<1>1. PlaceInv => NoReportLost
  <2> SUFFICES ASSUME PlaceInv PROVE NoReportLost
    OBVIOUS
  <2>1. Files \subseteq Kept \cup GivenUp
    BY DEF PlaceInv, OnePlace
  <2>2. Kept \cup GivenUp \subseteq Files
    BY DEF PlaceInv, DeliveryInv, TypeOK, Typed, Kept, GivenUp, Covered
  <2> QED
    BY <2>1, <2>2 DEF NoReportLost, Kept, GivenUp
<1> QED
  BY PlaceInit, PlaceKept, <1>1, PTL DEF Spec

-----------------------------------------------------------------------------
\* What the worker's file records as complete never covers less, and never more
\* than the worker has in memory.
THEOREM CoverageGrows == Spec => CoverageKept
<1>1. ASSUME PlaceInv, PlaceInv', [Next]_vars
      PROVE  [Covered(saved) \subseteq Covered(saved') /\ Covered(saved') \subseteq Covered(completed')]_vars
  <2>1. Covered(saved') \subseteq Covered(completed')
    BY <1>1 DEF PlaceInv, MemoryAhead, Covered
  <2>2. Covered(saved) \subseteq Covered(saved')
    <3>1. ASSUME NEW f \in Files, Confirm(f) PROVE Covered(saved) \subseteq Covered(saved')
      <4>1. Covered(completed) \subseteq Covered(completed') /\ saved' \in {saved, completed'}
        BY <1>1, <3>1, ConfirmCovers DEF PlaceInv
      <4> QED
        BY <1>1, <4>1 DEF PlaceInv, MemoryAhead
    <3>2. (\A f \in Files : ~Confirm(f)) => UNCHANGED saved
      BY <1>1 DEF Next, Reporting, Reading, Handling, vars, PushVerified, Dial, Tick,
                  TickClosed, Collect, ReadVersion, Send, SendFails, ReadPong, LoseConn,
                  Register, Receive, Answer, HangUp, Break, Store, StoreFails,
                  WorkerRestart, ServerRestart
    <3> QED
      BY <3>1, <3>2
  <2> QED
    BY <2>1, <2>2
<1> QED
  BY PlaceInit, PlaceKept, <1>1, PTL DEF Spec, CoverageKept

-----------------------------------------------------------------------------
(* Refinement.                                                             *)

LEMMA DeliveryStarts == Init => Delivery!Init
  BY CoversNothing DEF Init, Delivery!Init, Replan

LEMMA DeliverySteps ==
  ASSUME PlaceInv, PlaceInv', [Next]_vars PROVE [Delivery!Next]_(Delivery!vars)
<1> USE DEF PlaceInv
<1>1. ASSUME UNCHANGED <<Kept, stored, saved>> PROVE UNCHANGED Delivery!vars
  BY <1>1 DEF Delivery!vars, Kept, Covered
<1>2. ASSUME NEW c \in Conn, NEW f \in Files, Store(c, f) \/ StoreFails(c, f)
      PROVE  [Delivery!Next]_(Delivery!vars)
  <2>1. UNCHANGED <<toVerify, verified, lastSent, saved>> /\ stored' \in {stored, stored \cup {f}}
    BY <1>2 DEF Store, StoreFails, worker
  <2>2. f \in Kept \cup stored
    BY DEF OnePlace, GivenUp, DeliveryInv, AckedStored
  <2>3. CASE stored' = stored
    BY <1>1, <2>1, <2>3 DEF Kept
  <2>4. CASE stored' # stored
    <3>1. Delivery!Receive(f)
      BY <2>1, <2>2, <2>4 DEF Delivery!Receive, Kept, Covered
    <3> QED
      BY <3>1 DEF Delivery!Next
  <2> QED
    BY <2>3, <2>4
<1>3. CASE ReadPong
  <2>1. CASE UNCHANGED lastSent
    BY <1>1, <1>3, <2>1 DEF ReadPong, Kept, server
  <2>2. CASE acking' = lastSent /\ lastSent' = {}
    <3>1. lastSent \in SUBSET Files /\ lastSent \subseteq stored
      BY <1>3, <2>2 DEF ReadPong, DeliveryInv, TypeOK, Typed, AckedStored, server
    <3>2. Delivery!Discard(lastSent)
      BY <1>3, <2>2, <3>1 DEF ReadPong, Delivery!Discard, OnePlace, Kept, server, Covered
    <3> QED
      BY <3>1, <3>2 DEF Delivery!Next
  <2> QED
    BY <1>3, <2>1, <2>2 DEF ReadPong
<1>4. ASSUME NEW f \in Files, Confirm(f) PROVE [Delivery!Next]_(Delivery!vars)
  <2> DEFINE batch == Covered(saved)'
  <2>1. UNCHANGED <<toVerify, verified, lastSent, stored>>
    BY <1>4 DEF Confirm, server
  <2>2. Covered(saved) \subseteq batch
    <3>1. Covered(completed) \subseteq Covered(completed)' /\ saved' \in {saved, completed'}
      BY <1>4, ConfirmCovers DEF Covered
    <3> QED
      BY <3>1 DEF MemoryAhead, Covered
  <2>3. batch \subseteq Files \ Kept
    <3>1. batch \subseteq GivenUp' /\ batch \subseteq Files
      BY DEF MemoryAhead, GivenUp, Covered
    <3> QED
      BY <2>1, <3>1 DEF OnePlace, Kept
  <2>4. Delivery!Record(batch)
    BY <2>1, <2>2, <2>3 DEF Delivery!Record, Kept
  <2> QED
    BY <2>3, <2>4 DEF Delivery!Next
<1>5. CASE WorkerRestart
  <2>1. Delivery!Crash
    BY <1>5 DEF WorkerRestart, Delivery!Crash, Replan, server, Covered
  <2> QED
    BY <2>1 DEF Delivery!Next
<1>6. ASSUME NEW f \in Files, PushVerified(f) PROVE UNCHANGED <<Kept, stored, saved>>
  BY <1>6 DEF PushVerified, Kept, server
<1>7. ASSUME NEW c \in Conn, Collect(c) PROVE UNCHANGED <<Kept, stored, saved>>
  BY <1>7 DEF Collect, Batch, Kept, server
<1>8. ASSUME NEW c \in Conn,
             \/ Dial(c) \/ Tick(c) \/ TickClosed(c) \/ ReadVersion(c) \/ Send(c) \/ SendFails(c)
             \/ Register(c) \/ Receive(c) \/ Answer(c) \/ HangUp(c) \/ Break(c)
      PROVE UNCHANGED <<Kept, stored, saved>>
  BY <1>8 DEF Dial, Tick, TickClosed, ReadVersion, Send, SendFails, Register, Receive,
              Answer, HangUp, Break, Kept, worker, server
<1>9. LoseConn \/ ServerRestart \/ UNCHANGED vars => UNCHANGED <<Kept, stored, saved>>
  BY DEF LoseConn, ServerRestart, vars, Kept, worker, server
<1> QED
  BY <1>1, <1>2, <1>3, <1>4, <1>5, <1>6, <1>7, <1>8, <1>9 DEF Next, Reporting, Reading, Handling

\* Reporter, hub and everything that can fail between them deliver every report
\* at least once, as AtLeastOnce says, for every tree and number of failures.
THEOREM ImplementsAtLeastOnce == Spec => DeliversAtLeastOnce
<1>1. PlaceInv /\ PlaceInv' /\ [Next]_vars => [Delivery!Next]_(Delivery!vars)
  BY DeliverySteps
<1> QED
  BY PlaceInit, PlaceKept, DeliveryStarts, <1>1, PTL DEF Spec, DeliversAtLeastOnce, Delivery!Spec

=============================================================================
