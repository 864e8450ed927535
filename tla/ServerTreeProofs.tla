-------------------------- MODULE ServerTreeProofs --------------------------
(***************************************************************************)
(* The directory totals the server maintains incrementally are those a     *)
(* recount would give, for every tree, every set of workers and every      *)
(* interleaving of reports, lost answers, reconnections and restarts; what *)
(* it knows of hashes and best statuses is what the table holds.           *)
(***************************************************************************)
EXTENDS ServerTree, FiniteSetTheorems, TLAPS

\* Two sets that differ at most in x: what one step of bubbleDelta accounts for.
LEMMA OneElementApart ==
  ASSUME NEW Old, IsFiniteSet(Old), NEW New, NEW x, New \ {x} = Old \ {x}
  PROVE  Cardinality(New) = Cardinality(Old) - (IF x \in Old THEN 1 ELSE 0)
                                             + (IF x \in New THEN 1 ELSE 0)
<1>1. Cardinality(Old) \in Nat
  BY FS_CardinalityType
<1>2. CASE x \in Old <=> x \in New
  <2>1. New = Old
    BY <1>2
  <2> QED
    BY <2>1, <1>1, <1>2
<1>3. CASE x \in Old /\ x \notin New
  <2>1. New = Old \ {x}
    BY <1>3
  <2>2. Cardinality(New) = Cardinality(Old) - 1
    BY <2>1, <1>3, FS_RemoveElement
  <2> QED
    BY <2>2, <1>1, <1>3
<1>4. CASE x \notin Old /\ x \in New
  <2>1. New = Old \cup {x}
    BY <1>4
  <2>2. Cardinality(New) = Cardinality(Old) + 1
    BY <2>1, <1>4, FS_AddElement
  <2> QED
    BY <2>2, <1>1, <1>4
<1> QED
  BY <1>2, <1>3, <1>4

\* A set with two different elements has two at least.
LEMMA TwoElements ==
  ASSUME NEW S, IsFiniteSet(S), NEW x \in S, NEW y \in S, x # y
  PROVE  Cardinality(S) >= 2
<1>1. IsFiniteSet({x}) /\ Cardinality({x}) = 1
  BY FS_Singleton
<1>2. IsFiniteSet({x, y}) /\ Cardinality({x, y}) = 2
  <2>1. {x, y} = {x} \cup {y} /\ y \notin {x}
    OBVIOUS
  <2> QED
    BY <1>1, <2>1, FS_AddElement
<1>3. {x, y} \in SUBSET S
  OBVIOUS
<1>4. Cardinality({x, y}) <= Cardinality(S) /\ Cardinality(S) \in Nat
  BY <1>3, FS_Subset, FS_CardinalityType
<1> QED
  BY <1>2, <1>4

\* The range of a directory is a finite set of files.
LEMMA SpanFinite ==
  ASSUME NEW d \in Dirs
  PROVE  IsFiniteSet(Span(d)) /\ Span(d) \subseteq Files
<1>1. FileStart[d] \in 0 .. NumFiles /\ FileEnd[d] \in 0 .. NumFiles /\ NumFiles \in Nat
  BY TreeAssumption
<1>2. FileStart[d] \in Int /\ FileEnd[d] - 1 \in Int
  BY <1>1
<1>3. IsFiniteSet(Span(d))
  BY <1>2, FS_Interval DEF Span
<1>4. Span(d) \subseteq Files
  BY <1>1 DEF Span, Files
<1> QED
  BY <1>3, <1>4

\* Recounted totals are natural numbers.
LEMMA RecountType ==
  ASSUME NEW best, NEW conf
  PROVE  /\ RecountStatus(best) \in [Dirs -> [Counted -> Nat]]
         /\ RecountConflict(conf) \in [Dirs -> Nat]
<1>1. ASSUME NEW d \in Dirs, NEW s \in Counted
      PROVE  Cardinality({f \in Span(d) : best[f] = s}) \in Nat
  BY SpanFinite, FS_Subset, FS_CardinalityType
<1>2. ASSUME NEW d \in Dirs
      PROVE  Cardinality(conf \cap Span(d)) \in Nat
  <2>1. conf \cap Span(d) \in SUBSET Span(d)
    OBVIOUS
  <2> QED
    BY <2>1, SpanFinite, FS_Subset, FS_CardinalityType
<1> QED
  BY <1>1, <1>2 DEF RecountStatus, RecountConflict

\* A set of statuses that contains None has a greatest element.
LEMMA GreatestExists ==
  ASSUME NEW S \in SUBSET Status, StatusNone \in S
  PROVE  \E s \in S : \A t \in S : t <= s
<1>1. \A t \in S : t \in {0, 1, 2, 3, 4}
  BY DEF Status, StatusNone, StatusFailed
<1>2. \E s \in S : \A t \in S : t <= s
  <2>1. CASE 4 \in S  BY <2>1, <1>1
  <2>2. CASE 4 \notin S /\ 3 \in S  BY <2>2, <1>1
  <2>3. CASE 4 \notin S /\ 3 \notin S /\ 2 \in S  BY <2>3, <1>1
  <2>4. CASE 4 \notin S /\ 3 \notin S /\ 2 \notin S /\ 1 \in S  BY <2>4, <1>1
  <2>5. CASE 4 \notin S /\ 3 \notin S /\ 2 \notin S /\ 1 \notin S
    BY <2>5, <1>1 DEF StatusNone
  <2> QED  BY <2>1, <2>2, <2>3, <2>4, <2>5
<1> QED
  BY <1>2

LEMMA GreatestStatus ==
  ASSUME NEW S \in SUBSET Status, StatusNone \in S
  PROVE  (CHOOSE s \in S : \A t \in S : t <= s) \in Status
<1>1. \E s \in S : \A t \in S : t <= s
  BY GreatestExists
<1> QED
  BY <1>1

\* The number of reporters a file can have is finite, and what is stored of it
\* fits the counter.
LEMMA ReporterCount ==
  ASSUME NEW m
  PROVE  Cardinality(Reporters(m)) % CountWidth \in 0 .. CountWidth
<1>1. IsFiniteSet(Keys)
  BY ServerAssumption, FS_AddElement DEF Keys
<1>2. Cardinality(Reporters(m)) \in Nat
  <2>1. Reporters(m) \in SUBSET Keys
    BY DEF Reporters
  <2> QED
    BY <2>1, <1>1, FS_Subset, FS_CardinalityType
<1>3. CountWidth \in Nat \ {0}
  BY ServerAssumption
<1>4. \A n \in Nat, w \in Nat \ {0} : n % w \in 0 .. w
  OBVIOUS
<1> QED
  BY <1>2, <1>3, <1>4

-----------------------------------------------------------------------------
(* Types and totals are inductive together: that a total stays a natural   *)
(* number is only clear because it counts something.                       *)

IInv == TypeOK /\ AggregatesMatch

\* Hydration, at start-up and after a crash, establishes the invariant's part
\* about the tree from a well-typed table.
LEMMA HydratedTypes ==
  ASSUME itemStatus \in [Worker -> [Files -> Row \cup {NoRow}]],
         NEW best, NEW hashes, NEW count, NEW conf, NEW sc, NEW cc,
         Hydrated(itemStatus, best, hashes, count, conf, sc, cc)
  PROVE  /\ best \in [Files -> Status]
         /\ count \in [Files -> 0 .. CountWidth]
         /\ conf \subseteq Files
         /\ hashes \in [Files -> [Keys -> SHA1 \cup {NoSHA1, Absent}]]
         /\ sc = RecountStatus(best) /\ sc \in [Dirs -> [Counted -> Nat]]
         /\ cc = RecountConflict(conf) /\ cc \in [Dirs -> Nat]
<1>1. ASSUME NEW f \in Files, NEW w \in RowsOf(itemStatus, f)
      PROVE  /\ itemStatus[w][f].status \in Status
             /\ itemStatus[w][f].sha1 \in SHA1 \cup {NoSHA1}
  BY <1>1 DEF RowsOf, Row
<1>2. best \in [Files -> Status]
  <2>1. ASSUME NEW f \in Files
        PROVE  LET seen == {StatusNone} \cup {itemStatus[w][f].status : w \in RowsOf(itemStatus, f)}
               IN  (CHOOSE s \in seen : \A t \in seen : t <= s) \in Status
    <3> DEFINE seen == {StatusNone} \cup {itemStatus[w][f].status : w \in RowsOf(itemStatus, f)}
    <3>1. StatusNone \in Status
      BY DEF Status, StatusNone, StatusFailed
    <3>2. seen \in SUBSET Status /\ StatusNone \in seen
      BY <1>1, <3>1
    <3> HIDE DEF seen
    <3>3. (CHOOSE s \in seen : \A t \in seen : t <= s) \in Status
      BY <3>2, GreatestStatus
    <3> QED
      BY <3>3 DEF seen
  <2> QED
    BY <2>1 DEF Hydrated, HydratedBest
<1>3. hashes \in [Files -> [Keys -> SHA1 \cup {NoSHA1, Absent}]]
  <2>1. PICK last \in [Files -> Worker] :
          /\ \A f \in Files : NullKeyed(itemStatus, f) # {} => last[f] \in NullKeyed(itemStatus, f)
          /\ hashes = HydratedHashes(itemStatus, last)
    BY DEF Hydrated
  <2>2. \A f \in Files : NullKeyed(itemStatus, f) \subseteq RowsOf(itemStatus, f)
    BY DEF NullKeyed
  <2> QED
    BY <1>1, <2>1, <2>2 DEF HydratedHashes
<1>4. count \in [Files -> 0 .. CountWidth]
  BY ReporterCount DEF Hydrated
<1>5. conf \subseteq Files
  BY DEF Hydrated
<1>6. sc = RecountStatus(best) /\ cc = RecountConflict(conf)
  BY DEF Hydrated
<1> QED
  BY <1>2, <1>3, <1>4, <1>5, <1>6, RecountType

\* The step that matters: the deltas bubbled up from one file keep every
\* directory's totals equal to a recount.
LEMMA ApplyKeepsTotals ==
  ASSUME TypeOK, AggregatesMatch,
         NEW f \in Files, NEW w \in Worker, NEW status \in Status, NEW sha1 \in SHA1,
         ApplyReport(f, w, status, sha1)
  PROVE  /\ bestStatus' \in [Files -> Status]
         /\ reportCount' \in [Files -> 0 .. CountWidth]
         /\ conflicts' \subseteq Files
         /\ fileHashes' \in [Files -> [Keys -> SHA1 \cup {NoSHA1, Absent}]]
         /\ AggregatesMatch'
<1> DEFINE m    == TrackHash(fileHashes[f], w, sha1)
           best == BetterStatus(bestStatus[f], status)
<1>1. PICK conflict \in ConflictOutcomes(m) :
        /\ fileHashes' = [fileHashes EXCEPT ![f] = m]
        /\ reportCount' =
             [reportCount EXCEPT ![f] =
                IF Reporters(m) # {} THEN Cardinality(Reporters(m)) % CountWidth
                ELSE IF @ = 0 THEN 1 ELSE @]
        /\ bestStatus' = [bestStatus EXCEPT ![f] = best]
        /\ conflicts' = IF conflict THEN conflicts \cup {f} ELSE conflicts \ {f}
        /\ IF NothingToBubble(bestStatus[f], best, f \in conflicts, conflict)
           THEN UNCHANGED <<statusCount, conflictCount>>
           ELSE /\ statusCount' = BubbleStatus(f, bestStatus[f], best)
                /\ conflictCount' = BubbleConflict(f, f \in conflicts, conflict)
  BY DEF ApplyReport
<1>2. conflict \in BOOLEAN
  BY <1>1 DEF ConflictOutcomes
<1>3. best \in Status /\ bestStatus' \in [Files -> Status]
  BY <1>1 DEF TypeOK, BetterStatus
<1>4. m \in [Keys -> SHA1 \cup {NoSHA1, Absent}]
  BY DEF TypeOK, TrackHash, Keys
<1>5. fileHashes' \in [Files -> [Keys -> SHA1 \cup {NoSHA1, Absent}]]
  BY <1>1, <1>4 DEF TypeOK
<1>6. reportCount' \in [Files -> 0 .. CountWidth]
  <2>1. Cardinality(Reporters(m)) % CountWidth \in 0 .. CountWidth
    BY ReporterCount
  <2>2. 1 \in 0 .. CountWidth
    BY ServerAssumption
  <2> HIDE DEF m
  <2> QED
    BY <1>1, <2>1, <2>2 DEF TypeOK
<1>7. conflicts' \subseteq Files
  BY <1>1 DEF TypeOK
<1>8. statusCount' = RecountStatus(bestStatus')
  <2>1. ASSUME NEW d \in Dirs, NEW s \in Counted
        PROVE  Cardinality({g \in Span(d) : bestStatus'[g] = s})
               = IF d \notin Lineage[DirIdx[f]] THEN statusCount[d][s]
                 ELSE statusCount[d][s] - (IF s = bestStatus[f] THEN 1 ELSE 0)
                                        + (IF s = best THEN 1 ELSE 0)
    <3>1. statusCount[d][s] = Cardinality({g \in Span(d) : bestStatus[g] = s})
      BY DEF AggregatesMatch, RecountStatus
    <3>2. d \in Lineage[DirIdx[f]] <=> f \in Span(d)
      BY TreeAssumption
    <3>3. IsFiniteSet(Span(d)) /\ Span(d) \subseteq Files
      BY SpanFinite
    <3>4. \A g \in Span(d) : bestStatus'[g] = IF g = f THEN best ELSE bestStatus[g]
      BY <1>1, <3>3 DEF TypeOK
    <3> DEFINE Old == {g \in Span(d) : bestStatus[g] = s}
               New == {g \in Span(d) : bestStatus'[g] = s}
    <3> HIDE DEF best
    <3>5. IsFiniteSet(Old) /\ Cardinality(Old) \in Nat
      BY <3>3, FS_Subset, FS_CardinalityType
    <3>6. New \ {f} = Old \ {f}
      BY <3>4
    <3>7. /\ f \in Old <=> f \in Span(d) /\ s = bestStatus[f]
          /\ f \in New <=> f \in Span(d) /\ s = best
      BY <3>4
    <3>8. statusCount[d][s] = Cardinality(Old)
      BY <3>1
    <3> HIDE DEF Old, New
    <3>9. Cardinality(New) = Cardinality(Old) - (IF f \in Old THEN 1 ELSE 0)
                                              + (IF f \in New THEN 1 ELSE 0)
      BY <3>5, <3>6, OneElementApart
    <3>10. Cardinality(New) = IF d \notin Lineage[DirIdx[f]] THEN statusCount[d][s]
                 ELSE statusCount[d][s] - (IF s = bestStatus[f] THEN 1 ELSE 0)
                                        + (IF s = best THEN 1 ELSE 0)
      BY <3>2, <3>5, <3>7, <3>8, <3>9
    <3> QED
      BY <3>10 DEF New
  <2>2. CASE NothingToBubble(bestStatus[f], best, f \in conflicts, conflict)
    <3>1. bestStatus' = bestStatus
      BY <1>1, <2>2 DEF NothingToBubble, TypeOK
    <3> QED
      BY <1>1, <2>2, <3>1 DEF AggregatesMatch
  <2>3. CASE ~ NothingToBubble(bestStatus[f], best, f \in conflicts, conflict)
    <3>1. statusCount' = BubbleStatus(f, bestStatus[f], best)
      BY <1>1, <2>3
    <3>2. ASSUME NEW d \in Dirs
          PROVE  BubbleStatus(f, bestStatus[f], best)[d] = RecountStatus(bestStatus')[d]
      <4>1. statusCount[d] = [s \in Counted |-> statusCount[d][s]]
        BY DEF TypeOK
      <4> HIDE DEF best
      <4>2. CASE d \notin Lineage[DirIdx[f]]
        BY <2>1, <4>1, <4>2 DEF BubbleStatus, RecountStatus
      <4>3. CASE d \in Lineage[DirIdx[f]]
        BY <2>1, <4>3 DEF BubbleStatus, RecountStatus
      <4> QED
        BY <4>2, <4>3
    <3> HIDE DEF best
    <3> QED
      BY <3>1, <3>2 DEF BubbleStatus, RecountStatus
  <2> QED
    BY <2>2, <2>3
<1>9. conflictCount' = RecountConflict(conflicts')
  <2> DEFINE dec == IF f \in conflicts /\ ~conflict THEN 1 ELSE 0
             inc == IF ~(f \in conflicts) /\ conflict THEN 1 ELSE 0
  <2>1. ASSUME NEW d \in Dirs
        PROVE  Cardinality(conflicts' \cap Span(d))
               = IF d \notin Lineage[DirIdx[f]] THEN conflictCount[d]
                 ELSE conflictCount[d] - dec + inc
    <3> DEFINE Old == conflicts \cap Span(d)
               New == conflicts' \cap Span(d)
               out == IF f \in Old THEN 1 ELSE 0
               in  == IF f \in New THEN 1 ELSE 0
    <3>1. conflictCount[d] = Cardinality(Old)
      BY DEF AggregatesMatch, RecountConflict
    <3>2. d \in Lineage[DirIdx[f]] <=> f \in Span(d)
      BY TreeAssumption
    <3>3. IsFiniteSet(Old) /\ Cardinality(Old) \in Nat
      <4>1. Old \in SUBSET Span(d)
        OBVIOUS
      <4> QED
        BY <4>1, SpanFinite, FS_Subset, FS_CardinalityType
    <3>4. New \ {f} = Old \ {f}
      <4>1. CASE conflict
        BY <1>1, <4>1
      <4>2. CASE ~conflict
        BY <1>1, <4>2
      <4> QED
        BY <4>1, <4>2
    <3>5. f \in conflicts' <=> conflict
      BY <1>1
    <3>6. CASE f \notin Span(d)
      <4>1. New = Old
        BY <3>4, <3>6
      <4> QED
        BY <4>1, <3>1, <3>2, <3>6
    <3>7. CASE f \in Span(d)
      <4>1. out \in Int /\ in \in Int /\ dec \in Int /\ inc \in Int
        OBVIOUS
      <4>2. in - out = inc - dec
        BY <3>5, <3>7
      <4>3. d \in Lineage[DirIdx[f]]
        BY <3>2, <3>7
      <4>4. Cardinality(New) = Cardinality(Old) - out + in
        BY <3>3, <3>4, OneElementApart
      <4> HIDE DEF Old, New, out, in, dec, inc
      <4>5. Cardinality(New) = conflictCount[d] - dec + inc
        BY <4>1, <4>2, <4>4, <3>1, <3>3
      <4> QED
        BY <4>3, <4>5 DEF New
    <3> QED
      BY <3>6, <3>7
  <2>2. CASE NothingToBubble(bestStatus[f], best, f \in conflicts, conflict)
    <3>1. conflicts' = conflicts
      BY <1>1, <1>2, <2>2 DEF NothingToBubble
    <3> QED
      BY <1>1, <2>2, <3>1 DEF AggregatesMatch
  <2>3. CASE ~ NothingToBubble(bestStatus[f], best, f \in conflicts, conflict)
    <3>1. conflictCount' = BubbleConflict(f, f \in conflicts, conflict)
      BY <1>1, <2>3
    <3> QED
      BY <2>1, <3>1 DEF BubbleConflict, RecountConflict
  <2> QED
    BY <2>2, <2>3
<1> QED
  BY <1>3, <1>5, <1>6, <1>7, <1>8, <1>9 DEF AggregatesMatch

\* Every step of the server keeps types and totals.
LEMMA StepKeepsIInv ==
  ASSUME IInv, [Next]_vars
  PROVE  IInv'
<1> USE DEF IInv
<1>1. ASSUME NEW h \in Handler, NEW w \in Worker, Connect(h, w)
      PROVE  IInv'
  BY <1>1 DEF Connect, tree, TypeOK, AggregatesMatch
<1>2. ASSUME NEW h \in Handler, NEW w \in Worker, Disconnect(h, w)
      PROVE  IInv'
  BY <1>2 DEF Disconnect, tree, TypeOK, AggregatesMatch
<1>3. ASSUME NEW w \in Worker, NEW f \in Files, NEW sha1 \in SHA1, Store(w, f, sha1)
      PROVE  itemStatus' \in [Worker -> [Files -> Row \cup {NoRow}]]
  <2>1. [status |-> StatusVerified, sha1 |-> sha1, keyed |-> TRUE] \in Row
    BY DEF Row, Status, StatusNone, StatusFailed, StatusVerified
  <2> QED
    BY <1>3, <2>1 DEF Store, TypeOK
<1>4. ASSUME NEW h \in Handler, NEW w \in Worker, NEW f \in Files, NEW sha1 \in SHA1,
             Upsert(h, w, f, sha1)
      PROVE  IInv'
  BY <1>3, <1>4 DEF Upsert, tree, TypeOK, AggregatesMatch
<1>5. ASSUME NEW h \in Handler, NEW w \in Worker, NEW f \in Files, NEW sha1 \in SHA1,
             UpsertUnanswered(h, w, f, sha1)
      PROVE  IInv'
  BY <1>3, <1>5 DEF UpsertUnanswered, tree, TypeOK, AggregatesMatch
<1>6. ASSUME NEW h \in Handler, Apply(h)
      PROVE  IInv'
  <2>1. applying[h] \in Worker \X Files \X SHA1
    BY <1>6 DEF Apply, TypeOK
  <2>2. applying[h][1] \in Worker /\ applying[h][2] \in Files /\ applying[h][3] \in SHA1
    BY <2>1
  <2>3. StatusVerified \in Status
    BY DEF Status, StatusNone, StatusFailed, StatusVerified
  <2>4. ApplyReport(applying[h][2], applying[h][1], StatusVerified, applying[h][3])
    BY <1>6 DEF Apply
  <2>5. /\ bestStatus' \in [Files -> Status]
        /\ reportCount' \in [Files -> 0 .. CountWidth]
        /\ conflicts' \subseteq Files
        /\ fileHashes' \in [Files -> [Keys -> SHA1 \cup {NoSHA1, Absent}]]
        /\ AggregatesMatch'
    BY <2>2, <2>3, <2>4, ApplyKeepsTotals
  <2>6. statusCount' \in [Dirs -> [Counted -> Nat]] /\ conflictCount' \in [Dirs -> Nat]
    BY <2>5, RecountType DEF AggregatesMatch
  <2>7. /\ itemStatus' \in [Worker -> [Files -> Row \cup {NoRow}]]
        /\ conns' \in [Worker -> Handler \cup {NoHandler}]
        /\ applying' \in [Handler -> (Worker \X Files \X SHA1) \cup {Idle}]
        /\ behind' \subseteq Worker \X Files
    BY <1>6 DEF Apply, TypeOK
  <2> QED
    BY <2>5, <2>6, <2>7 DEF TypeOK
<1>7. ASSUME Restart
      PROVE  IInv'
  <2>1. /\ bestStatus' \in [Files -> Status]
        /\ reportCount' \in [Files -> 0 .. CountWidth]
        /\ conflicts' \subseteq Files
        /\ fileHashes' \in [Files -> [Keys -> SHA1 \cup {NoSHA1, Absent}]]
        /\ statusCount' = RecountStatus(bestStatus') /\ statusCount' \in [Dirs -> [Counted -> Nat]]
        /\ conflictCount' = RecountConflict(conflicts') /\ conflictCount' \in [Dirs -> Nat]
    <3>1. Hydrated(itemStatus, bestStatus', fileHashes', reportCount', conflicts',
                   statusCount', conflictCount')
      BY <1>7 DEF Restart
    <3>2. itemStatus \in [Worker -> [Files -> Row \cup {NoRow}]]
      BY DEF TypeOK
    <3> QED
      BY <3>1, <3>2, HydratedTypes
  <2>2. /\ itemStatus' \in [Worker -> [Files -> Row \cup {NoRow}]]
        /\ conns' \in [Worker -> Handler \cup {NoHandler}]
        /\ applying' \in [Handler -> (Worker \X Files \X SHA1) \cup {Idle}]
        /\ behind' \subseteq Worker \X Files
    BY <1>7 DEF Restart, TypeOK
  <2> QED
    BY <2>1, <2>2 DEF TypeOK, AggregatesMatch
<1>8. CASE UNCHANGED vars
  BY <1>8 DEF vars, tree, TypeOK, AggregatesMatch
<1> QED
  BY <1>1, <1>2, <1>4, <1>5, <1>6, <1>7, <1>8 DEF Next

LEMMA InitIInv == Init => IInv
<1> SUFFICES ASSUME Init PROVE IInv
  OBVIOUS
<1>1. itemStatus \in [Worker -> [Files -> Row \cup {NoRow}]]
  BY ServerAssumption DEF Init
<1>2. Hydrated(itemStatus, bestStatus, fileHashes, reportCount, conflicts,
               statusCount, conflictCount)
  BY DEF Init
<1>3. /\ bestStatus \in [Files -> Status]
      /\ reportCount \in [Files -> 0 .. CountWidth]
      /\ conflicts \subseteq Files
      /\ fileHashes \in [Files -> [Keys -> SHA1 \cup {NoSHA1, Absent}]]
      /\ statusCount = RecountStatus(bestStatus) /\ statusCount \in [Dirs -> [Counted -> Nat]]
      /\ conflictCount = RecountConflict(conflicts) /\ conflictCount \in [Dirs -> Nat]
  BY <1>1, <1>2, HydratedTypes
<1>4. /\ conns \in [Worker -> Handler \cup {NoHandler}]
      /\ applying \in [Handler -> (Worker \X Files \X SHA1) \cup {Idle}]
      /\ behind \subseteq Worker \X Files
  BY DEF Init
<1> QED
  BY <1>1, <1>3, <1>4 DEF IInv, TypeOK, AggregatesMatch

\* Every reachable state is well typed; in particular no total is negative.
THEOREM TypeCorrect == Spec => []TypeOK
<1>1. IInv /\ [Next]_vars => IInv'
  BY StepKeepsIInv
<1>2. IInv => TypeOK
  BY DEF IInv
<1> QED
  BY <1>1, <1>2, InitIInv, PTL DEF Spec

\* The totals served for a directory always equal a recount of its files.
THEOREM TotalsCorrect == Spec => []AggregatesMatch
<1>1. IInv /\ [Next]_vars => IInv'
  BY StepKeepsIInv
<1>2. IInv => AggregatesMatch
  BY DEF IInv
<1> QED
  BY <1>1, <1>2, InitIInv, PTL DEF Spec

-----------------------------------------------------------------------------
(* The conflict flag.                                                      *)

\* Without a NULL hash the outcome of hasConflictLocked does not depend on the
\* iteration order of the map: it is true exactly for two different hashes.
LEMMA OutcomeExact ==
  ASSUME NEW m, NEW c \in ConflictOutcomes(m),
         NoSHA1 \notin {m[k] : k \in Reporters(m)}
  PROVE  c <=> Cardinality({m[k] : k \in Reporters(m)}) > 1
<1> DEFINE R     == Reporters(m)
           known == {m[k] : k \in R}
<1>1. IsFiniteSet(R) /\ Cardinality(R) \in Nat
  <2>1. IsFiniteSet(Keys)
    BY ServerAssumption, FS_AddElement DEF Keys
  <2>2. R \in SUBSET Keys
    BY DEF Reporters
  <2> QED
    BY <2>1, <2>2, FS_Subset, FS_CardinalityType
<1>2. CASE Cardinality(R) < 2
  <2>1. c = FALSE
    BY <1>2 DEF ConflictOutcomes
  <2>2. Cardinality(R) = 0 \/ Cardinality(R) = 1
    BY <1>1, <1>2
  <2>3. known = {} \/ \E x : known = {x}
    <3>1. CASE Cardinality(R) = 0
      <4>1. R = {}
        BY <3>1, <1>1, FS_EmptySet
      <4> QED
        BY <4>1
    <3>2. CASE Cardinality(R) = 1
      <4>1. PICK k : R = {k}
        BY <3>2, <1>1, FS_Singleton
      <4>2. known = {m[k]}
        BY <4>1
      <4> QED
        BY <4>2
    <3> QED
      BY <2>2, <3>1, <3>2
  <2>4. Cardinality(known) = 0 \/ Cardinality(known) = 1
    BY <2>3, FS_EmptySet, FS_Singleton
  <2> QED
    BY <2>1, <2>4
<1>3. CASE ~(Cardinality(R) < 2)
  <2>1. known \ {NoSHA1} = known /\ NoSHA1 \notin known
    OBVIOUS
  <2>2. CASE Cardinality(known) > 1
    <3>1. c = TRUE
      BY <1>3, <2>1, <2>2 DEF ConflictOutcomes
    <3> QED
      BY <2>2, <3>1
  <2>3. CASE ~(Cardinality(known) > 1)
    <3>1. c = FALSE
      BY <1>3, <2>1, <2>3 DEF ConflictOutcomes
    <3> QED
      BY <2>3, <3>1
  <2> QED
    BY <2>2, <2>3
<1> QED
  BY <1>2, <1>3

\* The flag is at every moment one that hasConflictLocked may return for the
\* hashes as they are.
FlagPossible == \A f \in Files : (f \in conflicts) \in ConflictOutcomes(fileHashes[f])

LEMMA FlagStep ==
  ASSUME TypeOK, FlagPossible, [Next]_vars
  PROVE  FlagPossible'
<1>1. ASSUME NEW h \in Handler, Apply(h)
      PROVE  FlagPossible'
  <2> DEFINE f == applying[h][2]
             w == applying[h][1]
             m == TrackHash(fileHashes[f], w, applying[h][3])
  <2>1. f \in Files
    BY <1>1 DEF Apply, TypeOK
  <2>2. PICK conflict \in ConflictOutcomes(m) :
          /\ fileHashes' = [fileHashes EXCEPT ![f] = m]
          /\ conflicts' = IF conflict THEN conflicts \cup {f} ELSE conflicts \ {f}
    BY <1>1 DEF Apply, ApplyReport
  <2>3. conflict \in BOOLEAN
    BY <2>2 DEF ConflictOutcomes
  <2>4. (f \in conflicts') = conflict
    <3>1. CASE conflict
      BY <2>2, <2>3, <3>1
    <3>2. CASE ~conflict
      BY <2>2, <2>3, <3>2
    <3> QED
      BY <3>1, <3>2
  <2>5. fileHashes'[f] = m
    BY <2>1, <2>2 DEF TypeOK
  <2>6. ASSUME NEW g \in Files, g # f
        PROVE  (g \in conflicts') = (g \in conflicts) /\ fileHashes'[g] = fileHashes[g]
    <3> HIDE DEF f, m
    <3>1. g \in conflicts' <=> g \in conflicts
      BY <2>2, <2>6
    <3>2. fileHashes'[g] = fileHashes[g]
      BY <2>2, <2>6 DEF TypeOK
    <3> QED
      BY <3>1, <3>2
  <2>7. (f \in conflicts') \in ConflictOutcomes(fileHashes'[f])
    BY <2>2, <2>4, <2>5
  <2>8. ASSUME NEW g \in Files
        PROVE  (g \in conflicts') \in ConflictOutcomes(fileHashes'[g])
    <3>1. CASE g = f
      BY <2>7, <3>1
    <3>2. CASE g # f
      BY <2>6, <3>2 DEF FlagPossible
    <3> QED
      BY <3>1, <3>2
  <2> QED
    BY <2>8 DEF FlagPossible, ConflictOutcomes, Reporters
<1>2. ASSUME Restart
      PROVE  FlagPossible'
  BY <1>2 DEF Restart, Hydrated, FlagPossible, ConflictOutcomes, Reporters
<1>3. CASE UNCHANGED <<fileHashes, conflicts>>
  BY <1>3 DEF FlagPossible, ConflictOutcomes, Reporters
<1>4. [Next]_vars => (\E h \in Handler : Apply(h)) \/ Restart \/ UNCHANGED <<fileHashes, conflicts>>
  BY DEF Next, vars, tree, Connect, Disconnect, Upsert, UpsertUnanswered
<1> QED
  BY <1>1, <1>2, <1>3, <1>4

\* In every reachable state a file whose known hashes are all real is flagged
\* exactly when two of them differ.
THEOREM ConflictsCorrect == Spec => []ConflictFlagExact
<1>1. Init => FlagPossible
  BY DEF Init, Hydrated, FlagPossible
<1>2. TypeOK /\ FlagPossible /\ [Next]_vars => FlagPossible'
  BY FlagStep
<1>3. FlagPossible => ConflictFlagExact
  <2> SUFFICES ASSUME FlagPossible, NEW f \in Files,
                      NoSHA1 \notin {fileHashes[f][k] : k \in Reporters(fileHashes[f])}
               PROVE  f \in conflicts
                      <=> Cardinality({fileHashes[f][k] : k \in Reporters(fileHashes[f])}) > 1
    BY DEF ConflictFlagExact
  <2>1. (f \in conflicts) \in ConflictOutcomes(fileHashes[f])
    BY DEF FlagPossible
  <2> QED
    BY <2>1, OutcomeExact
<1> QED
  BY <1>1, <1>2, <1>3, TypeCorrect, PTL DEF Spec

-----------------------------------------------------------------------------
(* The tree and the table.  Both theorems need that a replaced connection  *)
(* does not stay inside a report (run tree_overlap refutes them without)   *)
(* and that the rows from before have a worker key (tree_null_key).        *)

\* What the theorems ask of the rows earlier versions have left.
AllKeyed == \A r \in LegacyRows : r.keyed
NoneHigher == \A r \in LegacyRows : r.status <= StatusVerified

\* The row of w and f is stored and not yet applied, or its answer was lost.
HalfDone(w, f) ==
  \/ <<w, f>> \in behind
  \/ \E h \in Handler : applying[h] # Idle /\ applying[h][1] = w /\ applying[h][2] = f

\* A goroutine inside a report is the registered one of its worker, and its row is
\* in the table: nobody else can overwrite it before it is applied.
OwnRow ==
  \A h \in Handler : applying[h] # Idle =>
    LET w == applying[h][1]
        f == applying[h][2]
    IN  /\ conns[w] = h
        /\ itemStatus[w][f] # NoRow
        /\ itemStatus[w][f].sha1 = applying[h][3]
        /\ itemStatus[w][f].status = StatusVerified

\* Every row has a key, and the tree knows the hash of every row that is not half done.
HashesFollow ==
  /\ \A w \in Worker, f \in Files : itemStatus[w][f] # NoRow => itemStatus[w][f].keyed
  /\ \A w \in Worker, f \in Files :
       ~HalfDone(w, f) =>
         fileHashes[f][w] = IF itemStatus[w][f] = NoRow THEN Absent ELSE itemStatus[w][f].sha1

TableInv == TypeOK /\ FlagPossible /\ OwnRow /\ HashesFollow

\* Hydration of a table whose rows have keys.
LEMMA HydratedFollows ==
  ASSUME NEW best, NEW hashes, NEW count, NEW conf, NEW sc, NEW cc,
         \A w \in Worker, f \in Files : itemStatus[w][f] # NoRow => itemStatus[w][f].keyed,
         Hydrated(itemStatus, best, hashes, count, conf, sc, cc)
  PROVE  \A w \in Worker, f \in Files :
           hashes[f][w] = IF itemStatus[w][f] = NoRow THEN Absent ELSE itemStatus[w][f].sha1
<1>1. PICK last : hashes = HydratedHashes(itemStatus, last)
  BY DEF Hydrated
<1>2. \A f \in Files : NullKeyed(itemStatus, f) = {}
  BY DEF NullKeyed, RowsOf
<1> SUFFICES ASSUME NEW w \in Worker, NEW f \in Files
             PROVE  hashes[f][w] = IF itemStatus[w][f] = NoRow THEN Absent ELSE itemStatus[w][f].sha1
  OBVIOUS
<1>3. w \in Keys /\ w # Anon
  BY ServerAssumption DEF Keys
<1>4. hashes[f][w] = IF w \in RowsOf(itemStatus, f) THEN itemStatus[w][f].sha1 ELSE Absent
  BY <1>1, <1>2, <1>3 DEF HydratedHashes
<1> QED
  BY <1>4 DEF RowsOf

LEMMA TableInit == AllKeyed /\ Init => TableInv
<1> SUFFICES ASSUME AllKeyed, Init PROVE TableInv
  OBVIOUS
<1>1. TypeOK /\ FlagPossible
  BY InitIInv DEF IInv, Init, Hydrated, FlagPossible
<1>2. \A w \in Worker, f \in Files : itemStatus[w][f] # NoRow => itemStatus[w][f].keyed
  BY DEF Init, AllKeyed
<1>3. OwnRow
  BY DEF Init, OwnRow
<1>4. \A w \in Worker, f \in Files :
        fileHashes[f][w] = IF itemStatus[w][f] = NoRow THEN Absent ELSE itemStatus[w][f].sha1
  BY <1>2, HydratedFollows DEF Init
<1> QED
  BY <1>1, <1>2, <1>3, <1>4 DEF TableInv, HashesFollow

\* What storing a row does to the table.
LEMMA StoredRow ==
  ASSUME TypeOK, NEW w \in Worker, NEW f \in Files, NEW sha1 \in SHA1, Store(w, f, sha1)
  PROVE  /\ itemStatus'[w][f] = [status |-> StatusVerified, sha1 |-> sha1, keyed |-> TRUE]
         /\ itemStatus'[w][f] # NoRow
         /\ \A v \in Worker, g \in Files : v # w \/ g # f => itemStatus'[v][g] = itemStatus[v][g]
<1>1. [status |-> StatusVerified, sha1 |-> sha1, keyed |-> TRUE] \in Row
  BY DEF Row, Status, StatusNone, StatusFailed, StatusVerified
<1>2. itemStatus' = [itemStatus EXCEPT ![w][f] = [status |-> StatusVerified, sha1 |-> sha1, keyed |-> TRUE]]
  BY DEF Store
<1>3. itemStatus'[w][f] = [status |-> StatusVerified, sha1 |-> sha1, keyed |-> TRUE]
  BY <1>2 DEF TypeOK
<1>4. \A v \in Worker, g \in Files : v # w \/ g # f => itemStatus'[v][g] = itemStatus[v][g]
  BY <1>2 DEF TypeOK
<1> QED
  BY <1>1, <1>3, <1>4, ServerAssumption

LEMMA TableStep ==
  ASSUME Overlap = FALSE, TableInv, TypeOK', [Next]_vars
  PROVE  TableInv'
<1> USE DEF TableInv
<1>0. FlagPossible'
  BY FlagStep
<1>1. ASSUME NEW h \in Handler, NEW w \in Worker, Connect(h, w) \/ Disconnect(h, w)
      PROVE  OwnRow' /\ HashesFollow'
  <2>1. UNCHANGED <<itemStatus, fileHashes, applying, behind>>
    BY <1>1 DEF Connect, Disconnect, tree
  <2>2. OwnRow'
    <3> SUFFICES ASSUME NEW g \in Handler, applying[g] # Idle
                 PROVE  conns'[applying[g][1]] = g
      BY <2>1 DEF OwnRow
    <3>1. applying[g][1] \in Worker /\ conns[applying[g][1]] = g
      BY DEF OwnRow, TypeOK
    <3>2. applying[g][1] # w
      BY <1>1, <3>1 DEF Connect, Disconnect
    <3> QED
      BY <1>1, <3>1, <3>2 DEF Connect, Disconnect, TypeOK
  <2> QED
    BY <2>1, <2>2 DEF HashesFollow, HalfDone
<1>2. ASSUME NEW h \in Handler, NEW w \in Worker, NEW f \in Files, NEW sha1 \in SHA1,
             Upsert(h, w, f, sha1) \/ UpsertUnanswered(h, w, f, sha1)
      PROVE  OwnRow' /\ HashesFollow'
  <2>1. /\ Store(w, f, sha1) /\ conns[w] = h /\ applying[h] = Idle
        /\ UNCHANGED <<fileHashes, conns>>
    BY <1>2 DEF Upsert, UpsertUnanswered, tree
  <2>2. /\ itemStatus'[w][f] = [status |-> StatusVerified, sha1 |-> sha1, keyed |-> TRUE]
        /\ itemStatus'[w][f] # NoRow
        /\ \A v \in Worker, g \in Files : v # w \/ g # f => itemStatus'[v][g] = itemStatus[v][g]
    BY <2>1, StoredRow
  <2>3. \A g \in Handler : applying'[g] = applying[g] \/ (g = h /\ applying'[g] = <<w, f, sha1>>)
    BY <1>2 DEF Upsert, UpsertUnanswered, TypeOK
  <2>4. OwnRow'
    <3> SUFFICES ASSUME NEW g \in Handler, applying'[g] # Idle
                 PROVE  LET v == applying'[g][1]
                            e == applying'[g][2]
                        IN  /\ conns'[v] = g
                            /\ itemStatus'[v][e] # NoRow
                            /\ itemStatus'[v][e].sha1 = applying'[g][3]
                            /\ itemStatus'[v][e].status = StatusVerified
      BY DEF OwnRow
    <3>1. CASE g = h /\ applying'[g] = <<w, f, sha1>>
      BY <2>1, <2>2, <3>1
    <3>2. CASE applying'[g] = applying[g]
      <4>1. /\ applying[g][1] \in Worker /\ applying[g][2] \in Files
            /\ conns[applying[g][1]] = g /\ g # h
        BY <2>1, <3>2 DEF OwnRow, TypeOK
      <4>2. applying[g][1] # w
        BY <2>1, <4>1
      <4> QED
        BY <2>1, <2>2, <3>2, <4>1, <4>2 DEF OwnRow
    <3> QED
      BY <2>3, <3>1, <3>2
  <2>5. HalfDone(w, f)'
    <3>1. <<w, f, sha1>> # Idle
      BY ServerAssumption
    <3>2. <<w, f>> \in behind' \/ applying'[h] = <<w, f, sha1>>
      BY <1>2 DEF Upsert, UpsertUnanswered, TypeOK
    <3>3. CASE <<w, f>> \in behind'
      BY <3>3 DEF HalfDone
    <3>4. CASE applying'[h] = <<w, f, sha1>>
      <4>1. applying'[h] # Idle /\ applying'[h][1] = w /\ applying'[h][2] = f
        BY <3>1, <3>4
      <4> QED
        BY <4>1 DEF HalfDone
    <3> QED
      BY <3>2, <3>3, <3>4
  <2>6. ASSUME NEW v \in Worker, NEW e \in Files, HalfDone(v, e)
        PROVE  HalfDone(v, e)'
    BY <1>2, <2>1, <2>6 DEF Upsert, UpsertUnanswered, HalfDone, TypeOK
  <2> QED
    BY <2>1, <2>2, <2>4, <2>5, <2>6 DEF HashesFollow
<1>3. ASSUME NEW h \in Handler, Apply(h)
      PROVE  OwnRow' /\ HashesFollow'
  <2> DEFINE w == applying[h][1]
             f == applying[h][2]
             s == applying[h][3]
  <2>1. w \in Worker /\ f \in Files /\ s \in SHA1
    BY <1>3 DEF Apply, TypeOK
  <2>2. /\ itemStatus[w][f] # NoRow /\ itemStatus[w][f].sha1 = s /\ conns[w] = h
    BY <1>3 DEF Apply, OwnRow
  <2>3. fileHashes' = [fileHashes EXCEPT ![f] = [fileHashes[f] EXCEPT ![w] = s]]
    BY <1>3, <2>1, ServerAssumption DEF Apply, ApplyReport, TrackHash
  <2>4. /\ behind' = behind \ {<<w, f>>} /\ applying' = [applying EXCEPT ![h] = Idle]
        /\ UNCHANGED <<itemStatus, conns>>
    BY <1>3 DEF Apply
  <2>5. OwnRow'
    BY <2>4 DEF OwnRow, TypeOK
  <2>6. fileHashes'[f][w] = s
    BY <2>1, <2>3 DEF TypeOK, Keys
  <2>7. ASSUME NEW v \in Worker, NEW e \in Files, v # w \/ e # f
        PROVE  fileHashes'[e][v] = fileHashes[e][v] /\ (HalfDone(v, e) => HalfDone(v, e)')
    <3>1. fileHashes'[e][v] = fileHashes[e][v]
      BY <2>1, <2>3, <2>7 DEF TypeOK, Keys
    <3>2. HalfDone(v, e) => HalfDone(v, e)'
      BY <2>4, <2>7 DEF HalfDone, TypeOK
    <3> QED
      BY <3>1, <3>2
  <2> HIDE DEF w, f, s
  <2>8. ASSUME NEW v \in Worker, NEW e \in Files, ~HalfDone(v, e)'
        PROVE  fileHashes'[e][v] = IF itemStatus'[v][e] = NoRow THEN Absent ELSE itemStatus'[v][e].sha1
    BY <2>1, <2>2, <2>4, <2>6, <2>7, <2>8 DEF HashesFollow
  <2> QED
    BY <2>4, <2>5, <2>8 DEF HashesFollow
<1>4. ASSUME Restart
      PROVE  OwnRow' /\ HashesFollow'
  <2>1. Hydrated(itemStatus, bestStatus', fileHashes', reportCount', conflicts', statusCount', conflictCount')
    BY <1>4 DEF Restart
  <2>2. \A w \in Worker, f \in Files : itemStatus[w][f] # NoRow => itemStatus[w][f].keyed
    BY DEF HashesFollow
  <2>3. \A w \in Worker, f \in Files :
          fileHashes'[f][w] = IF itemStatus[w][f] = NoRow THEN Absent ELSE itemStatus[w][f].sha1
    BY <2>1, <2>2, HydratedFollows
  <2> QED
    BY <1>4, <2>2, <2>3 DEF Restart, OwnRow, HashesFollow
<1>5. CASE UNCHANGED vars
  <2>1. UNCHANGED <<itemStatus, fileHashes, conns, applying, behind>>
    BY <1>5 DEF vars, tree
  <2> QED
    BY <1>0, <2>1 DEF OwnRow, HashesFollow, HalfDone
<1> QED
  BY <1>0, <1>1, <1>2, <1>3, <1>4, <1>5 DEF Next

\* Without overlapping connections the invariant holds whatever the rows from before
\* say, as long as they have keys.
LEMMA TableCorrect ==
  ASSUME Overlap = FALSE, AllKeyed
  PROVE  Spec => []TableInv
<1>1. Init => TableInv
  BY TableInit
<1>2. TypeOK' /\ TableInv /\ [Next]_vars => TableInv'
  BY TableStep
<1> QED
  BY <1>1, <1>2, TypeCorrect, PTL DEF Spec

\* Two real hashes that differ leave hasConflictLocked no choice.
LEMMA DisagreementSeen ==
  ASSUME NEW m, NEW v \in Keys, NEW w \in Keys,
         m[v] \in SHA1, m[w] \in SHA1, m[v] # m[w],
         NEW c \in ConflictOutcomes(m)
  PROVE  c
<1> DEFINE R    == Reporters(m)
           real == {m[k] : k \in R} \ {NoSHA1}
<1>1. v \in R /\ w \in R /\ m[v] \in real /\ m[w] \in real
  BY ServerAssumption DEF Reporters
<1>2. IsFiniteSet(R) /\ Cardinality(R) \in Nat
  <2>1. IsFiniteSet(Keys) /\ R \in SUBSET Keys
    BY ServerAssumption, FS_AddElement DEF Keys, Reporters
  <2> QED
    BY <2>1, FS_Subset, FS_CardinalityType
<1>3. IsFiniteSet(real) /\ Cardinality(real) \in Nat
  <2> DEFINE known == {m[k] : k \in R}
  <2>1. [k \in R |-> m[k]] \in Surjection(R, known)
    BY DEF Surjection
  <2>2. IsFiniteSet(known)
    BY <1>2, <2>1, FS_Surjection
  <2>3. real \in SUBSET known
    OBVIOUS
  <2> QED
    BY <2>2, <2>3, FS_Subset, FS_CardinalityType
<1>4. Cardinality(R) >= 2
  <2>1. v # w
    OBVIOUS
  <2> QED
    BY <1>1, <1>2, <2>1, TwoElements
<1>5. Cardinality(real) >= 2
  <2> HIDE DEF real
  <2> QED
    BY <1>1, <1>3, TwoElements
<1>6. ~(Cardinality(R) < 2) /\ Cardinality(real) > 1
  BY <1>2, <1>3, <1>4, <1>5
<1>7. ConflictOutcomes(m) = {TRUE}
  BY <1>6 DEF ConflictOutcomes
<1> QED
  BY <1>7

\* Two rows that disagree about a file's hash are reported as a conflict as soon as
\* no update is under way (handleFileReport, hydrateFromState, hasConflictLocked).
THEOREM ConflictsSeen ==
  ASSUME Overlap = FALSE, AllKeyed
  PROVE  Spec => []StoredConflictSeen
<1>1. TableInv => StoredConflictSeen
  <2> SUFFICES ASSUME TableInv, Quiescent, NEW f \in Files,
                      NEW v \in RowsOf(itemStatus, f), NEW w \in RowsOf(itemStatus, f),
                      itemStatus[v][f].sha1 \in SHA1, itemStatus[w][f].sha1 \in SHA1,
                      itemStatus[v][f].sha1 # itemStatus[w][f].sha1
               PROVE  f \in conflicts
    BY DEF StoredConflictSeen
  <2> DEFINE m == fileHashes[f]
  <2>1. v \in Worker /\ w \in Worker /\ ~HalfDone(v, f) /\ ~HalfDone(w, f)
    BY DEF RowsOf, Quiescent, HalfDone
  <2>2. m[v] = itemStatus[v][f].sha1 /\ m[w] = itemStatus[w][f].sha1
    BY <2>1 DEF TableInv, HashesFollow, RowsOf
  <2>3. v \in Keys /\ w \in Keys /\ m[v] \in SHA1 /\ m[w] \in SHA1 /\ m[v] # m[w]
    BY <2>1, <2>2 DEF Keys
  <2>4. (f \in conflicts) \in ConflictOutcomes(m)
    BY DEF TableInv, FlagPossible
  <2> HIDE DEF m
  <2> QED
    BY <2>3, <2>4, DisagreementSeen
<1> QED
  BY <1>1, TableCorrect, PTL

-----------------------------------------------------------------------------
(* The best status.                                                        *)

\* The tree's best status of a file is that of a row at least as high, and as high
\* as every row that is not half done; no row is higher than what a report writes.
BestFollows ==
  /\ \A w \in Worker, f \in Files :
       itemStatus[w][f] # NoRow => itemStatus[w][f].status <= StatusVerified
  /\ \A f \in Files :
       \/ bestStatus[f] = StatusNone
       \/ \E w \in RowsOf(itemStatus, f) : bestStatus[f] <= itemStatus[w][f].status
  /\ \A f \in Files : \A w \in RowsOf(itemStatus, f) :
       ~HalfDone(w, f) => itemStatus[w][f].status <= bestStatus[f]

\* The statuses hydration takes the greatest of.
Seen(db, f) == {StatusNone} \cup {db[w][f].status : w \in RowsOf(db, f)}

LEMMA SeenType ==
  ASSUME itemStatus \in [Worker -> [Files -> Row \cup {NoRow}]], NEW f \in Files
  PROVE  Seen(itemStatus, f) \in SUBSET Status /\ StatusNone \in Seen(itemStatus, f)
<1>1. StatusNone \in Status
  BY DEF Status, StatusNone, StatusFailed
<1> QED
  BY <1>1 DEF Seen, RowsOf, Row

\* HydratedBest is the one status of a row, or None, that no row exceeds.
LEMMA BestIsGreatest ==
  ASSUME itemStatus \in [Worker -> [Files -> Row \cup {NoRow}]], NEW f \in Files, NEW b
  PROVE  b = HydratedBest(itemStatus)[f]
         <=> b \in Seen(itemStatus, f) /\ \A t \in Seen(itemStatus, f) : t <= b
<1> DEFINE seen == Seen(itemStatus, f)
<1>1. seen \in SUBSET Status /\ StatusNone \in seen
  BY SeenType
<1>2. \A t \in seen : t \in Int
  BY <1>1 DEF Status, StatusNone, StatusFailed
<1>3. \E s \in seen : \A t \in seen : t <= s
  BY <1>1, GreatestExists
<1>4. HydratedBest(itemStatus)[f] = CHOOSE s \in seen : \A t \in seen : t <= s
  BY DEF HydratedBest, Seen
<1>5. \A a, c \in seen : (\A t \in seen : t <= a) /\ (\A t \in seen : t <= c) => a = c
  BY <1>2
<1> HIDE DEF seen
<1>6. LET s == CHOOSE s \in seen : \A t \in seen : t <= s
      IN  s \in seen /\ \A t \in seen : t <= s
  BY <1>3
<1>7. b = HydratedBest(itemStatus)[f] <=> b \in seen /\ \A t \in seen : t <= b
  BY <1>4, <1>5, <1>6
<1> QED
  BY <1>7 DEF seen

LEMMA BestHydrated ==
  ASSUME itemStatus \in [Worker -> [Files -> Row \cup {NoRow}]],
         NEW best, best = HydratedBest(itemStatus), NEW f \in Files
  PROVE  /\ \/ best[f] = StatusNone
            \/ \E w \in RowsOf(itemStatus, f) : best[f] <= itemStatus[w][f].status
         /\ \A w \in RowsOf(itemStatus, f) : itemStatus[w][f].status <= best[f]
<1>1. best[f] \in Seen(itemStatus, f) /\ \A t \in Seen(itemStatus, f) : t <= best[f]
  BY BestIsGreatest
<1> QED
  BY <1>1 DEF Seen

LEMMA BestInit == NoneHigher /\ Init => BestFollows
<1> SUFFICES ASSUME NoneHigher, Init PROVE BestFollows
  OBVIOUS
<1>1. itemStatus \in [Worker -> [Files -> Row \cup {NoRow}]]
  BY ServerAssumption DEF Init
<1>2. bestStatus = HydratedBest(itemStatus)
  BY DEF Init, Hydrated
<1>3. \A w \in Worker, f \in Files :
        itemStatus[w][f] # NoRow => itemStatus[w][f].status <= StatusVerified
  BY DEF Init, NoneHigher
<1> QED
  BY <1>1, <1>2, <1>3, BestHydrated DEF BestFollows

LEMMA BestStep ==
  ASSUME TableInv, BestFollows, [Next]_vars
  PROVE  BestFollows'
<1> USE DEF TableInv
<1>1. ASSUME NEW h \in Handler, NEW w \in Worker, Connect(h, w) \/ Disconnect(h, w)
      PROVE  BestFollows'
  <2>1. UNCHANGED <<itemStatus, bestStatus, applying, behind>>
    BY <1>1 DEF Connect, Disconnect, tree
  <2> QED
    BY <2>1 DEF BestFollows, HalfDone, RowsOf
<1>2. ASSUME NEW h \in Handler, NEW w \in Worker, NEW f \in Files, NEW sha1 \in SHA1,
             Upsert(h, w, f, sha1) \/ UpsertUnanswered(h, w, f, sha1)
      PROVE  BestFollows'
  <2>1. Store(w, f, sha1) /\ applying[h] = Idle /\ UNCHANGED bestStatus
    BY <1>2 DEF Upsert, UpsertUnanswered, tree
  <2>2. /\ itemStatus'[w][f] = [status |-> StatusVerified, sha1 |-> sha1, keyed |-> TRUE]
        /\ itemStatus'[w][f] # NoRow
        /\ \A v \in Worker, g \in Files : v # w \/ g # f => itemStatus'[v][g] = itemStatus[v][g]
    BY <2>1, StoredRow
  <2>3. \A v \in Worker, g \in Files :
          itemStatus'[v][g] # NoRow => itemStatus'[v][g].status <= StatusVerified
    BY <2>2 DEF BestFollows, StatusVerified
  <2>4. HalfDone(w, f)'
    <3>1. <<w, f, sha1>> # Idle
      BY ServerAssumption
    <3>2. <<w, f>> \in behind' \/ applying'[h] = <<w, f, sha1>>
      BY <1>2 DEF Upsert, UpsertUnanswered, TypeOK
    <3>3. CASE <<w, f>> \in behind'
      BY <3>3 DEF HalfDone
    <3>4. CASE applying'[h] = <<w, f, sha1>>
      <4>1. applying'[h] # Idle /\ applying'[h][1] = w /\ applying'[h][2] = f
        BY <3>1, <3>4
      <4> QED
        BY <4>1 DEF HalfDone
    <3> QED
      BY <3>2, <3>3, <3>4
  <2>5. ASSUME NEW v \in Worker, NEW e \in Files, HalfDone(v, e)
        PROVE  HalfDone(v, e)'
    BY <1>2, <2>1, <2>5 DEF Upsert, UpsertUnanswered, HalfDone, TypeOK
  <2>6. ASSUME NEW g \in Files, bestStatus[g] # StatusNone
        PROVE  \E v \in RowsOf(itemStatus', g) : bestStatus[g] <= itemStatus'[v][g].status
    <3>1. PICK v \in RowsOf(itemStatus, g) : bestStatus[g] <= itemStatus[v][g].status
      BY <2>6 DEF BestFollows
    <3>2. CASE v = w /\ g = f
      <4>1. itemStatus[v][g].status <= StatusVerified /\ itemStatus[v][g].status \in Int
        BY DEF BestFollows, RowsOf, TypeOK, Row, Status, StatusNone, StatusFailed
      <4>2. bestStatus[g] \in Int
        BY DEF TypeOK, Status, StatusNone, StatusFailed
      <4>3. bestStatus[g] <= itemStatus'[w][f].status
        BY <2>2, <3>1, <4>1, <4>2 DEF StatusVerified
      <4> QED
        BY <2>2, <3>2, <4>3 DEF RowsOf
    <3>3. CASE v # w \/ g # f
      BY <2>2, <3>1, <3>3 DEF RowsOf
    <3> QED
      BY <3>2, <3>3
  <2>7. ASSUME NEW g \in Files, NEW v \in RowsOf(itemStatus', g), ~HalfDone(v, g)'
        PROVE  itemStatus'[v][g].status <= bestStatus[g]
    <3>1. v \in Worker /\ (v # w \/ g # f) /\ ~HalfDone(v, g)
      BY <2>4, <2>5, <2>7 DEF RowsOf
    <3>2. itemStatus'[v][g] = itemStatus[v][g] /\ v \in RowsOf(itemStatus, g)
      BY <2>2, <3>1 DEF RowsOf
    <3> QED
      BY <3>1, <3>2 DEF BestFollows
  <2> QED
    BY <2>1, <2>3, <2>6, <2>7 DEF BestFollows
<1>3. ASSUME NEW h \in Handler, Apply(h)
      PROVE  BestFollows'
  <2> DEFINE w == applying[h][1]
             f == applying[h][2]
  <2>1. w \in Worker /\ f \in Files
    BY <1>3 DEF Apply, TypeOK
  <2>2. w \in RowsOf(itemStatus, f) /\ itemStatus[w][f].status = StatusVerified
    BY <1>3, <2>1 DEF Apply, OwnRow, RowsOf
  <2>3. bestStatus' = [bestStatus EXCEPT ![f] = BetterStatus(bestStatus[f], StatusVerified)]
    BY <1>3 DEF Apply, ApplyReport
  <2>4. /\ behind' = behind \ {<<w, f>>} /\ applying' = [applying EXCEPT ![h] = Idle]
        /\ itemStatus' = itemStatus
    BY <1>3 DEF Apply
  <2>5. \A g \in Files : bestStatus'[g] = bestStatus[g] \/ (g = f /\ bestStatus'[g] = StatusVerified)
    BY <2>1, <2>3 DEF BetterStatus, TypeOK
  <2>6. ASSUME NEW g \in Files
        PROVE  bestStatus[g] <= bestStatus'[g] /\ bestStatus[g] \in Int /\ bestStatus'[g] \in Int
    <3>1. bestStatus[g] \in Int
      BY DEF TypeOK, Status, StatusNone, StatusFailed
    <3>2. bestStatus'[g] = bestStatus[g] \/ bestStatus'[g] = BetterStatus(bestStatus[g], StatusVerified)
      BY <2>1, <2>3 DEF TypeOK
    <3> QED
      BY <3>1, <3>2 DEF BetterStatus, StatusVerified
  <2>7. StatusVerified <= bestStatus'[f]
    BY <2>1, <2>3 DEF BetterStatus, TypeOK, Status, StatusNone, StatusFailed, StatusVerified
  <2>8. ASSUME NEW v \in Worker, NEW e \in Files, v # w \/ e # f, HalfDone(v, e)
        PROVE  HalfDone(v, e)'
    BY <2>4, <2>8 DEF HalfDone, TypeOK
  <2> HIDE DEF w, f
  <2>9. ASSUME NEW g \in Files
        PROVE  \/ bestStatus'[g] = StatusNone
               \/ \E v \in RowsOf(itemStatus, g) : bestStatus'[g] <= itemStatus[v][g].status
    <3>1. CASE bestStatus'[g] = bestStatus[g]
      BY <3>1 DEF BestFollows
    <3>2. CASE g = f /\ bestStatus'[g] = StatusVerified
      BY <2>2, <3>2 DEF StatusVerified
    <3> QED
      BY <2>5, <3>1, <3>2
  <2>10. ASSUME NEW g \in Files, NEW v \in RowsOf(itemStatus, g), ~HalfDone(v, g)'
         PROVE  itemStatus[v][g].status <= bestStatus'[g]
    <3>1. v \in Worker /\ itemStatus[v][g].status \in Int
      BY DEF RowsOf, TypeOK, Row, Status, StatusNone, StatusFailed
    <3>2. CASE v = w /\ g = f
      BY <2>2, <2>7, <3>2
    <3>3. CASE v # w \/ g # f
      <4>1. itemStatus[v][g].status <= bestStatus[g]
        BY <2>8, <2>10, <3>1, <3>3 DEF BestFollows
      <4> QED
        BY <2>6, <3>1, <4>1
    <3> QED
      BY <3>2, <3>3
  <2> QED
    BY <2>4, <2>9, <2>10 DEF BestFollows
<1>4. ASSUME Restart
      PROVE  BestFollows'
  <2>1. bestStatus' = HydratedBest(itemStatus) /\ itemStatus' = itemStatus
    BY <1>4 DEF Restart, Hydrated
  <2>2. itemStatus \in [Worker -> [Files -> Row \cup {NoRow}]]
    BY DEF TypeOK
  <2> QED
    BY <2>1, <2>2, BestHydrated DEF BestFollows
<1>5. CASE UNCHANGED vars
  <2>1. UNCHANGED <<itemStatus, bestStatus, applying, behind>>
    BY <1>5 DEF vars, tree
  <2> QED
    <3>1. \A w \in Worker, f \in Files : HalfDone(w, f) => HalfDone(w, f)'
      BY <2>1 DEF HalfDone
    <3>2. itemStatus' = itemStatus /\ bestStatus' = bestStatus
      BY <2>1
    <3> QED
      BY <3>1, <3>2 DEF BestFollows, RowsOf
<1> QED
  BY <1>1, <1>2, <1>3, <1>4, <1>5 DEF Next

\* Whenever no report is half done, the live tree is the one a restart would build
\* from the table: best statuses and hashes are the same (ApplyReport against
\* HydrateFromDB).
THEOREM RestartChangesNothing ==
  ASSUME Overlap = FALSE, AllKeyed, NoneHigher
  PROVE  Spec => []RestartInvisible
<1>1. Init => BestFollows
  BY BestInit
<1>2. TableInv /\ BestFollows /\ [Next]_vars => BestFollows'
  BY BestStep
<1>3. TableInv /\ BestFollows => RestartInvisible
  <2> SUFFICES ASSUME TableInv, BestFollows, Quiescent
               PROVE  /\ bestStatus = HydratedBest(itemStatus)
                      /\ \A f \in Files, w \in Worker :
                           fileHashes[f][w] = IF itemStatus[w][f] = NoRow THEN Absent
                                              ELSE itemStatus[w][f].sha1
    BY DEF RestartInvisible
  <2>1. \A w \in Worker, f \in Files : ~HalfDone(w, f)
    BY DEF Quiescent, HalfDone
  <2>2. ASSUME NEW f \in Files
        PROVE  bestStatus[f] = HydratedBest(itemStatus)[f]
    <3> DEFINE b == bestStatus[f]
    <3>1. /\ itemStatus \in [Worker -> [Files -> Row \cup {NoRow}]]
          /\ b \in Status
      BY DEF TableInv, TypeOK
    <3>2. \A w \in RowsOf(itemStatus, f) : itemStatus[w][f].status <= b /\ itemStatus[w][f].status \in Int
      BY <2>1, <3>1 DEF BestFollows, RowsOf, Row, Status, StatusNone, StatusFailed
    <3>3. StatusNone <= b /\ b \in Int
      BY <3>1 DEF Status, StatusNone, StatusFailed
    <3>4. \A t \in Seen(itemStatus, f) : t <= b
      BY <3>2, <3>3 DEF Seen
    <3>5. b = StatusNone \/ \E w \in RowsOf(itemStatus, f) : b <= itemStatus[w][f].status
      BY DEF BestFollows
    <3>6. b = StatusNone \/ \E w \in RowsOf(itemStatus, f) : b = itemStatus[w][f].status
      BY <3>2, <3>3, <3>5
    <3>7. b \in Seen(itemStatus, f)
      BY <3>6 DEF Seen
    <3> QED
      BY <3>1, <3>4, <3>7, BestIsGreatest
  <2>3. bestStatus = HydratedBest(itemStatus)
    BY <2>2 DEF TableInv, TypeOK, HydratedBest
  <2> QED
    BY <2>1, <2>3 DEF TableInv, HashesFollow
<1> QED
  BY <1>1, <1>2, <1>3, TableCorrect, PTL DEF Spec

=============================================================================
