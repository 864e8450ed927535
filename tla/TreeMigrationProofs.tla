------------------------- MODULE TreeMigrationProofs -------------------------
(***************************************************************************)
(* TLAPS proofs about TreeMigration, for trees and sites of any size, any  *)
(* number of requests at a time and any number of failures: types, what    *)
(* the crawl leaves of the baseline, when it is over, that its report and  *)
(* the sizes it writes are right, that both trees are numbered as they     *)
(* should be, that rows follow their paths, and that the numbers of what   *)
(* is in a directory are a range.                                          *)
(***************************************************************************)
EXTENDS TreeMigration, FiniteSetTheorems, SequenceTheorems, WellFoundedInduction, TLAPS

-----------------------------------------------------------------------------
(* Listings.                                                               *)

\* A finite set of numbers can be listed in order: a number comes behind as many
\* as are smaller.
LEMMA SortedExists ==
  ASSUME NEW S \in SUBSET Nat, IsFiniteSet(S)
  PROVE  \E s \in SetToSeqs(S) : \A i, j \in DOMAIN s : i < j => s[i] < s[j]
<1> DEFINE n == Cardinality(S)
           before(p) == {q \in S : q < p}
           rank == [p \in S |-> Cardinality(before(p)) + 1]
<1>1. n \in Nat
  BY FS_CardinalityType
<1>2. \A p \in S : IsFiniteSet(before(p)) /\ Cardinality(before(p)) \in Nat
  BY FS_Subset, FS_CardinalityType
<1>3. \A p \in S : Cardinality(before(p)) < n
  <2> TAKE p \in S
  <2>1. before(p) \in SUBSET (S \ {p})
    OBVIOUS
  <2>2. IsFiniteSet(S \ {p}) /\ Cardinality(S \ {p}) = n - 1
    BY FS_RemoveElement
  <2>3. Cardinality(before(p)) <= Cardinality(S \ {p})
    BY <2>1, <2>2, FS_Subset
  <2> QED
    BY <1>1, <1>2, <2>2, <2>3
<1>4. \A p, q \in S : p < q => Cardinality(before(p)) < Cardinality(before(q))
  <2> SUFFICES ASSUME NEW p \in S, NEW q \in S, p < q
               PROVE  Cardinality(before(p)) < Cardinality(before(q))
    OBVIOUS
  <2>1. before(p) \cup {p} \in SUBSET before(q)
    <3>1. p \in Nat /\ q \in Nat
      OBVIOUS
    <3>2. \A r \in before(p) : r \in S /\ r \in Nat /\ r < p
      OBVIOUS
    <3>3. \A r \in before(p) : r \in S /\ r < q
      BY <3>1, <3>2
    <3> QED
      BY <3>3
  <2>2. p \notin before(p)
    OBVIOUS
  <2> HIDE DEF before
  <2>3. Cardinality(before(p) \cup {p}) = Cardinality(before(p)) + 1
    BY <1>2, <2>2, FS_AddElement
  <2>4. Cardinality(before(p) \cup {p}) <= Cardinality(before(q))
    BY <1>2, <2>1, FS_Subset
  <2> QED
    BY <1>2, <2>3, <2>4
<1>5. /\ rank \in [S -> 1 .. n]
      /\ \A p, q \in S : p < q => rank[p] < rank[q]
  <2> HIDE DEF before, n
  <2>1. \A p \in S : rank[p] \in 1 .. n
    BY <1>1, <1>2, <1>3
  <2>2. \A p, q \in S : p < q => rank[p] < rank[q]
    BY <1>2, <1>4
  <2> QED
    BY <2>1, <2>2
<1> HIDE DEF rank, before
<1>6. rank \in Injection(S, 1 .. n)
  <2>1. DOMAIN rank = S
    BY <1>5
  <2>2. ASSUME NEW a \in S, NEW b \in S, rank[a] = rank[b]
        PROVE  a = b
    <3>1. rank[a] \in Nat /\ rank[b] \in Nat
      BY <1>5
    <3>2. ~(a < b) /\ ~(b < a)
      BY <1>5, <2>2, <3>1
    <3> QED
      BY <3>2
  <2> QED
    BY <1>5, <2>1, <2>2 DEF Injection, IsInjective
<1>7. rank \in Surjection(S, 1 .. n)
  <2>1. IsFiniteSet(1 .. n) /\ Cardinality(1 .. n) = n
    BY <1>1, FS_Interval
  <2> QED
    BY <1>6, <2>1, FS_Injection
<1> DEFINE s == [i \in 1 .. n |-> CHOOSE p \in S : rank[p] = i]
<1>8. \A i \in 1 .. n : s[i] \in S /\ rank[s[i]] = i
  BY <1>7 DEF Surjection
<1>9. DOMAIN s = 1 .. n /\ s \in [1 .. n -> S]
  BY <1>8
<1> HIDE DEF s
<1>10. s \in SetToSeqs(S)
  <2>1. \A i, j \in 1 .. n : i # j => s[i] # s[j]
    BY <1>8
  <2> QED
    BY <1>9, <2>1 DEF SetToSeqs
<1>11. ASSUME NEW i \in 1 .. n, NEW j \in 1 .. n, i < j
       PROVE  s[i] < s[j]
  <2>1. s[i] \in Nat /\ s[j] \in Nat /\ rank[s[i]] = i /\ rank[s[j]] = j
    BY <1>8
  <2>2. s[i] # s[j] /\ ~(s[j] < s[i])
    BY <1>1, <1>5, <1>8, <1>11, <2>1
  <2> QED
    BY <2>1, <2>2
<1> QED
  BY <1>9, <1>10, <1>11

\* No entry twice.
Distinct(s) == \A i, j \in DOMAIN s : s[i] = s[j] => i = j

LEMMA AreSeqs ==
  ASSUME NEW S, NEW n \in Nat, NEW f \in [1 .. n -> S]
  PROVE  f \in Seq(S)
OBVIOUS

\* A listing is a sequence of the entries of a directory, each once.
LEMMA ListingIs ==
  ASSUME NEW d \in Path, CrawlAssumption
  PROVE  /\ Listing(d) \in Seq(Path \ {Root})
         /\ ToSet(Listing(d)) = Listed(d, "dir") \cup Listed(d, "file")
         /\ Distinct(Listing(d))
<1> DEFINE S == Listed(d, "dir") \cup Listed(d, "file")
           n == Cardinality(S)
<1>1. S \in SUBSET Nat /\ S \in SUBSET (Path \ {Root}) /\ S \in SUBSET Path /\ IsFiniteSet(Path)
  BY DEF CrawlAssumption, Listed
<1>2. IsFiniteSet(S)
  BY <1>1, FS_Subset
<1>3. Listing(d) \in SetToSeqs(S)
  <2>1. \E s \in SetToSeqs(S) : \A i, j \in DOMAIN s : i < j => s[i] < s[j]
    BY <1>1, <1>2, SortedExists
  <2> QED
    BY <2>1 DEF Listing
<1> DEFINE L == Listing(d)
<1> HIDE DEF S, L
<1>4. n \in Nat
  BY <1>2, FS_CardinalityType
<1> HIDE DEF n
<1>5. /\ L \in [1 .. n -> S]
      /\ \A i, j \in 1 .. n : i # j => L[i] # L[j]
  BY <1>3 DEF L, n, SetToSeqs
<1>6. L \in [1 .. n -> Path \ {Root}]
  BY <1>1, <1>5
<1>7. L \in Seq(Path \ {Root})
  BY <1>4, <1>6, AreSeqs
<1>8. Distinct(L)
  BY <1>5 DEF Distinct
<1>9. L \in Injection(1 .. n, S)
  BY <1>5 DEF Injection, IsInjective
<1>10. L \in Surjection(1 .. n, S)
  <2>1. IsFiniteSet(1 .. n) /\ Cardinality(1 .. n) = n
    BY <1>4, FS_Interval
  <2> QED
    BY <1>2, <1>9, <2>1, FS_Injection DEF n
<1>11. ToSet(L) = S
  <2>1. \A p \in S : p \in ToSet(L)
    BY <1>5, <1>10 DEF ToSet, Surjection
  <2>2. \A p \in ToSet(L) : p \in S
    BY <1>5 DEF ToSet
  <2> QED
    BY <2>1, <2>2
<1> QED
  BY <1>7, <1>8, <1>11 DEF L, S

\* The first entry and those behind it.
LEMMA Tails ==
  ASSUME NEW S, NEW q \in Seq(S), q # <<>>
  PROVE  /\ Head(q) \in S /\ Head(q) \in ToSet(q) /\ Tail(q) \in Seq(S)
         /\ ToSet(q) = {Head(q)} \cup ToSet(Tail(q))
         /\ Distinct(q) => Distinct(Tail(q)) /\ Head(q) \notin ToSet(Tail(q))
<1>1. Head(q) \in S /\ Tail(q) \in Seq(S) /\ Len(Tail(q)) = Len(q) - 1 /\ Len(q) \in Nat /\ Len(q) # 0
  BY HeadTailProperties, EmptySeq
<1>2. DOMAIN q = 1 .. Len(q) /\ DOMAIN Tail(q) = 1 .. Len(q) - 1
  BY <1>1
<1>3. Head(q) = q[1] /\ \A i \in 1 .. Len(q) - 1 : Tail(q)[i] = q[i + 1]
  BY <1>1
<1>4. \A i \in DOMAIN q : i # 1 => i - 1 \in DOMAIN Tail(q) /\ Tail(q)[i - 1] = q[i]
  BY <1>1, <1>2, <1>3
<1>5. \A i \in DOMAIN Tail(q) : i + 1 \in DOMAIN q /\ i + 1 # 1 /\ Tail(q)[i] = q[i + 1]
  BY <1>1, <1>2, <1>3
<1>6. 1 \in DOMAIN q
  BY <1>1, <1>2
<1>7. ToSet(q) \subseteq {Head(q)} \cup ToSet(Tail(q))
  <2> SUFFICES ASSUME NEW i \in DOMAIN q, i # 1
               PROVE  q[i] \in ToSet(Tail(q))
    BY <1>3 DEF ToSet
  <2>1. i - 1 \in DOMAIN Tail(q) /\ Tail(q)[i - 1] = q[i]
    BY <1>4
  <2> QED
    BY <2>1 DEF ToSet
<1>8. {Head(q)} \cup ToSet(Tail(q)) \subseteq ToSet(q)
  BY <1>3, <1>5, <1>6 DEF ToSet
<1>9. ASSUME Distinct(q) PROVE Distinct(Tail(q)) /\ Head(q) \notin ToSet(Tail(q))
  <2>1. ASSUME NEW i \in DOMAIN Tail(q), NEW j \in DOMAIN Tail(q), Tail(q)[i] = Tail(q)[j]
        PROVE  i = j
    <3>1. i + 1 = j + 1
      BY <1>5, <1>9, <2>1 DEF Distinct
    <3> QED
      BY <1>2, <3>1
  <2>2. Head(q) \notin ToSet(Tail(q))
    BY <1>3, <1>5, <1>6, <1>9 DEF Distinct, ToSet
  <2> QED
    BY <2>1, <2>2 DEF Distinct
<1> QED
  BY <1>1, <1>7, <1>8, <1>9

\* A new entry behind the others.
LEMMA Appends ==
  ASSUME NEW S, NEW q \in Seq(S), NEW e \in S
  PROVE  /\ WithNew(q, e) \in Seq(S)
         /\ ToSet(WithNew(q, e)) = ToSet(q) \cup {e}
         /\ \A b \in Seq(S) : IsPrefix(b, q) => IsPrefix(b, WithNew(q, e))
<1> DEFINE t == Append(q, e)
<1>1. t \in Seq(S) /\ Len(t) = Len(q) + 1 /\ Len(q) \in Nat
  OBVIOUS
<1>2. DOMAIN t = DOMAIN q \cup {Len(q) + 1} /\ t[Len(q) + 1] = e /\ \A i \in DOMAIN q : t[i] = q[i]
  OBVIOUS
<1>3. ToSet(t) = ToSet(q) \cup {e}
  <2> HIDE DEF t
  <2>1. ToSet(t) \subseteq ToSet(q) \cup {e}
    BY <1>2 DEF ToSet
  <2>2. ToSet(q) \cup {e} \subseteq ToSet(t)
    BY <1>2 DEF ToSet
  <2> QED
    BY <2>1, <2>2
<1>4. ASSUME NEW b \in Seq(S), IsPrefix(b, q) PROVE IsPrefix(b, t)
  <2>1. Len(b) <= Len(q) /\ Len(b) \in Nat /\ DOMAIN q = 1 .. Len(q)
    BY <1>4 DEF IsPrefix
  <2>2. \A i \in 1 .. Len(b) : t[i] = q[i]
    BY <1>1, <1>2, <2>1
  <2> HIDE DEF t
  <2>3. SubSeq(t, 1, Len(b)) = SubSeq(q, 1, Len(b))
    BY <1>1, <2>1, <2>2
  <2> QED
    BY <1>1, <1>4, <2>1, <2>3 DEF IsPrefix
<1> QED
  BY <1>1, <1>3, <1>4 DEF WithNew

LEMMA AppendAdds ==
  ASSUME NEW S, NEW q \in Seq(S), NEW e \in S
  PROVE  ToSet(WithNew(q, e)) = ToSet(q) \cup {e}
BY Appends

-----------------------------------------------------------------------------
(* Types and the entries of a listing.                                     *)

Requesting == {"asking", "heading"}

Within == Path \ {Root}

Reports ==
  [addedDirs : SUBSET Within, addedFiles : SUBSET Within, updatedFiles : SUBSET Within,
   mismatches : SUBSET Within, missingDirs : SUBSET Within, missingFiles : SUBSET Within,
   conflicts : SUBSET Within, emptyDirs : SUBSET Path]

\* What the crawl and the session keep.
CrawlTypes ==
  /\ remote \in [Path \ {Root} -> Remote] /\ remote \in Remotes
  /\ dirs \in [Path -> Seq(Path)] /\ files \in [Path -> Seq(Path)] /\ size \in [Path -> Size]
  /\ pc \in [Path -> {"none", "queued", "getting", "listing", "asking", "heading", "waiting",
                      "done", "failed"}]
  /\ left \in [Path -> Seq(Path \ {Root})]
  /\ report \in Reports
  /\ faults \in 0 .. MaxFaults

MigrationTypes ==
  /\ phase \in Updating \cup {"crawling", "failed", "committed", "aborted"}
  /\ DOMAIN table = Updating /\ DOMAIN stored = Updating

\* What is left of a listing is of its directory and comes once, and only a goroutine
\* that goes through its listing has entries left.  A goroutine that asks for a size
\* does so for the first of them, a file the tree lacks or lists otherwise.
LeftOK(d) ==
  /\ ToSet(left[d]) \subseteq Listed(d, "dir") \cup Listed(d, "file")
  /\ Distinct(left[d])
  /\ left[d] # <<>> => pc[d] \in {"listing"} \cup Requesting
  /\ pc[d] \in Requesting =>
       /\ left[d] # <<>>
       /\ Head(left[d]) \in Listed(d, "file")
       /\ Head(left[d]) \notin ToSet(dirs[d])
       /\ ~Known(Head(left[d]), d)

\* A directory holds entries of its own, each as a directory or as a file.
EntriesOK(d) ==
  /\ ToSet(dirs[d]) \subseteq {p \in Path \ {Root} : Up[p] = d}
  /\ ToSet(files[d]) \subseteq {p \in Path \ {Root} : Up[p] = d}
  /\ ToSet(dirs[d]) \cap ToSet(files[d]) = {}

EntriesInv == \A d \in Path : LeftOK(d) /\ EntriesOK(d)

CrawlInv == CrawlTypes /\ EntriesInv

-----------------------------------------------------------------------------
(* What one step does, entry by entry.                                     *)

\* Nothing but what belongs to a directory, and its goroutine, changes.
Elsewhere(d) ==
  /\ remote' = remote
  /\ \A p \in Path \ {Root} : Up[p] # d => size'[p] = size[p]
  /\ \A e \in Path \ {d} :
       dirs'[e] = dirs[e] /\ files'[e] = files[e] /\ pc'[e] = pc[e] /\ left'[e] = left[e]

LEMMA FirstLeft ==
  ASSUME CrawlTypes, NEW d \in Path, LeftOK(d), left[d] # <<>>, CrawlAssumption
  PROVE  /\ Head(left[d]) \in Path \ {Root} /\ Up[Head(left[d])] = d
         /\ Head(left[d]) \in ToSet(left[d]) /\ Tail(left[d]) \in Seq(Path \ {Root})
         /\ ToSet(Tail(left[d])) = ToSet(left[d]) \ {Head(left[d])}
         /\ Distinct(Tail(left[d]))
         /\ Head(left[d]) \in Listed(d, "dir") \cup Listed(d, "file")
<1>1. left[d] \in Seq(Path \ {Root})
  BY DEF CrawlTypes
<1>2. Distinct(left[d]) /\ ToSet(left[d]) \subseteq Listed(d, "dir") \cup Listed(d, "file")
  BY DEF LeftOK
<1>3. /\ Head(left[d]) \in Path \ {Root} /\ Head(left[d]) \in ToSet(left[d])
      /\ Tail(left[d]) \in Seq(Path \ {Root})
      /\ ToSet(left[d]) = {Head(left[d])} \cup ToSet(Tail(left[d]))
      /\ Distinct(Tail(left[d])) /\ Head(left[d]) \notin ToSet(Tail(left[d]))
  BY <1>1, <1>2, Tails
<1>4. Up[Head(left[d])] = d
  BY <1>2, <1>3 DEF Listed
<1> QED
  BY <1>2, <1>3, <1>4

\* An entry that is a directory is a conflict, or one of the tree, or added to it.
LEMMA EntryDirDoes ==
  ASSUME CrawlInv, NEW d \in Path, EntryDir(d), CrawlAssumption
  PROVE  \E p \in Listed(d, "dir") \cap ToSet(left[d]) :
           /\ remote' = remote /\ files' = files /\ size' = size /\ pc' = pc /\ faults' = faults
           /\ pc[d] = "listing"
           /\ left' = [left EXCEPT ![d] = Tail(@)] /\ left[d] # <<>>
           /\ left'[d] \in Seq(Path \ {Root}) /\ Distinct(left'[d])
           /\ ToSet(left'[d]) = ToSet(left[d]) \ {p}
           /\ Elsewhere(d)
           /\ \/ /\ p \in ToSet(files[d]) /\ dirs' = dirs
                 /\ report' = [report EXCEPT !.conflicts = @ \cup {p}]
              \/ /\ p \notin ToSet(files[d]) /\ p \in ToSet(dirs[d])
                 /\ dirs' = dirs /\ report' = report
              \/ /\ p \notin ToSet(files[d]) /\ p \notin ToSet(dirs[d])
                 /\ dirs' = [dirs EXCEPT ![d] = WithNew(@, p)]
                 /\ report' = [report EXCEPT !.addedDirs = @ \cup {p}]
<1> DEFINE p == Head(left[d])
<1>1. LeftOK(d) /\ CrawlTypes /\ left[d] # <<>>
  BY DEF CrawlInv, EntriesInv, EntryDir
<1>2. /\ p \in Path \ {Root} /\ Up[p] = d /\ p \in ToSet(left[d])
      /\ Tail(left[d]) \in Seq(Path \ {Root}) /\ ToSet(Tail(left[d])) = ToSet(left[d]) \ {p}
      /\ Distinct(Tail(left[d]))
  BY <1>1, FirstLeft
<1>3. left \in [Path -> Seq(Path \ {Root})] /\ dirs \in [Path -> Seq(Path)]
  BY <1>1 DEF CrawlTypes
<1>4. left' = [left EXCEPT ![d] = Tail(@)]
  BY DEF EntryDir, Handled
<1>5. left'[d] = Tail(left[d]) /\ \A e \in Path \ {d} : left'[e] = left[e]
  BY <1>3, <1>4
<1>6. p \in Listed(d, "dir")
  BY <1>2 DEF EntryDir, Listed
<1>7. /\ remote' = remote /\ files' = files /\ size' = size /\ pc' = pc /\ faults' = faults
      /\ pc[d] = "listing"
  BY DEF EntryDir
<1>8. \/ /\ p \in ToSet(files[d]) /\ dirs' = dirs
         /\ report' = [report EXCEPT !.conflicts = @ \cup {p}]
      \/ /\ p \notin ToSet(files[d]) /\ p \in ToSet(dirs[d])
         /\ dirs' = dirs /\ report' = report
      \/ /\ p \notin ToSet(files[d]) /\ p \notin ToSet(dirs[d])
         /\ dirs' = [dirs EXCEPT ![d] = WithNew(@, p)]
         /\ report' = [report EXCEPT !.addedDirs = @ \cup {p}]
  BY DEF EntryDir
<1> HIDE DEF p
<1>9. Elsewhere(d)
  BY <1>3, <1>5, <1>7, <1>8 DEF Elsewhere
<1>10. /\ p \in Listed(d, "dir") \cap ToSet(left[d])
       /\ left[d] # <<>>
       /\ left'[d] \in Seq(Path \ {Root}) /\ Distinct(left'[d])
       /\ ToSet(left'[d]) = ToSet(left[d]) \ {p}
  BY <1>1, <1>2, <1>5, <1>6
<1> QED
  BY <1>4, <1>7, <1>8, <1>9, <1>10, Zenon

\* An entry that is a file is a conflict, or known, or to be asked about.
LEMMA EntryFileDoes ==
  ASSUME CrawlInv, NEW d \in Path, EntryFile(d), CrawlAssumption
  PROVE  /\ remote' = remote /\ dirs' = dirs /\ files' = files /\ size' = size /\ faults' = faults
         /\ pc[d] = "listing" /\ left[d] # <<>>
         /\ Elsewhere(d)
         /\ \E p \in Listed(d, "file") \cap ToSet(left[d]) :
              /\ p = Head(left[d])
              /\ \/ /\ left' = [left EXCEPT ![d] = Tail(@)] /\ pc' = pc
                    /\ left'[d] \in Seq(Path \ {Root}) /\ Distinct(left'[d])
                    /\ ToSet(left'[d]) = ToSet(left[d]) \ {p}
                    /\ \/ /\ p \in ToSet(dirs[d])
                          /\ report' = [report EXCEPT !.conflicts = @ \cup {p}]
                       \/ p \notin ToSet(dirs[d]) /\ Known(p, d) /\ report' = report
                 \/ /\ p \notin ToSet(dirs[d]) /\ ~Known(p, d) /\ report' = report
                    /\ left' = left /\ pc' = [pc EXCEPT ![d] = "asking"]
<1> DEFINE p == Head(left[d])
<1>1. LeftOK(d) /\ CrawlTypes /\ left[d] # <<>>
  BY DEF CrawlInv, EntriesInv, EntryFile
<1>2. /\ p \in Path \ {Root} /\ Up[p] = d /\ p \in ToSet(left[d])
      /\ Tail(left[d]) \in Seq(Path \ {Root}) /\ ToSet(Tail(left[d])) = ToSet(left[d]) \ {p}
      /\ Distinct(Tail(left[d]))
  BY <1>1, FirstLeft
<1>3. left \in [Path -> Seq(Path \ {Root})] /\ DOMAIN pc = Path
  BY <1>1 DEF CrawlTypes
<1>4. p \in Listed(d, "file")
  BY <1>2 DEF EntryFile, Listed
<1>5. /\ remote' = remote /\ dirs' = dirs /\ files' = files /\ size' = size /\ faults' = faults
      /\ pc[d] = "listing"
  BY DEF EntryFile
<1>6. \/ /\ left' = [left EXCEPT ![d] = Tail(@)] /\ pc' = pc
         /\ \/ p \in ToSet(dirs[d]) /\ report' = [report EXCEPT !.conflicts = @ \cup {p}]
            \/ p \notin ToSet(dirs[d]) /\ Known(p, d) /\ report' = report
      \/ /\ p \notin ToSet(dirs[d]) /\ ~Known(p, d) /\ report' = report
         /\ left' = left /\ pc' = [pc EXCEPT ![d] = "asking"]
  BY DEF EntryFile, Handled, GoTo
<1> HIDE DEF p
<1>7. left' = [left EXCEPT ![d] = Tail(@)] =>
        left'[d] = Tail(left[d]) /\ \A e \in Path \ {d} : left'[e] = left[e]
  BY <1>3
<1>8. Elsewhere(d)
  BY <1>3, <1>5, <1>6, <1>7 DEF Elsewhere
<1>9. /\ p \in Listed(d, "file") \cap ToSet(left[d]) /\ p = Head(left[d])
      /\ left' = [left EXCEPT ![d] = Tail(@)] =>
           /\ left'[d] \in Seq(Path \ {Root}) /\ Distinct(left'[d])
           /\ ToSet(left'[d]) = ToSet(left[d]) \ {p}
  BY <1>2, <1>4, <1>7 DEF p
<1> QED
  BY <1>1, <1>5, <1>6, <1>8, <1>9, Zenon
\* The exact size comes for a new file, which is added, or for a known one.
LEMMA AskedDoes ==
  ASSUME CrawlInv, NEW d \in Path, Asked(d), CrawlAssumption
  PROVE  \E p \in Listed(d, "file") \cap ToSet(left[d]) :
           /\ p \notin ToSet(dirs[d]) /\ ~Known(p, d)
           /\ remote' = remote /\ dirs' = dirs /\ faults' = faults
           /\ pc[d] = "heading" /\ pc' = [pc EXCEPT ![d] = "listing"]
           /\ left' = [left EXCEPT ![d] = Tail(@)] /\ left[d] # <<>>
           /\ left'[d] \in Seq(Path \ {Root}) /\ Distinct(left'[d])
           /\ ToSet(left'[d]) = ToSet(left[d]) \ {p}
           /\ size' = [size EXCEPT ![p] = remote[p].size]
           /\ Elsewhere(d)
           /\ \/ /\ p \notin ToSet(files[d])
                 /\ files' = [files EXCEPT ![d] = WithNew(@, p)]
                 /\ report' = [report EXCEPT !.addedFiles = @ \cup {p}]
              \/ /\ p \in ToSet(files[d]) /\ files' = files
                 /\ report' = [report EXCEPT
                                 !.mismatches = @ \cup {p},
                                 !.updatedFiles = IF remote[p].size = size[p] THEN @ ELSE @ \cup {p}]
<1> DEFINE p == Head(left[d])
<1>1. LeftOK(d) /\ CrawlTypes /\ pc[d] = "heading"
  BY DEF CrawlInv, EntriesInv, Asked
<1>2. left[d] # <<>> /\ p \in Listed(d, "file") /\ p \notin ToSet(dirs[d]) /\ ~Known(p, d)
  BY <1>1 DEF LeftOK, Requesting
<1>3. /\ p \in Path \ {Root} /\ Up[p] = d /\ p \in ToSet(left[d])
      /\ Tail(left[d]) \in Seq(Path \ {Root}) /\ ToSet(Tail(left[d])) = ToSet(left[d]) \ {p}
      /\ Distinct(Tail(left[d]))
  BY <1>1, <1>2, FirstLeft
<1>4. left \in [Path -> Seq(Path \ {Root})] /\ DOMAIN pc = Path /\ DOMAIN files = Path
      /\ DOMAIN size = Path
  BY <1>1 DEF CrawlTypes
<1>5. /\ remote' = remote /\ dirs' = dirs /\ faults' = faults
      /\ pc' = [pc EXCEPT ![d] = "listing"] /\ left' = [left EXCEPT ![d] = Tail(@)]
      /\ size' = [size EXCEPT ![p] = remote[p].size]
  BY DEF Asked, GoTo, Handled
<1>6. \/ /\ p \notin ToSet(files[d])
         /\ files' = [files EXCEPT ![d] = WithNew(@, p)]
         /\ report' = [report EXCEPT !.addedFiles = @ \cup {p}]
      \/ /\ p \in ToSet(files[d]) /\ files' = files
         /\ report' = [report EXCEPT
                         !.mismatches = @ \cup {p},
                         !.updatedFiles = IF remote[p].size = size[p] THEN @ ELSE @ \cup {p}]
  BY DEF Asked
<1> HIDE DEF p
<1>7. left'[d] = Tail(left[d]) /\ \A e \in Path \ {d} : left'[e] = left[e]
  BY <1>4, <1>5
<1>8. Elsewhere(d)
  <2>1. \A q \in Path \ {Root} : Up[q] # d => size'[q] = size[q]
    BY <1>3, <1>4, <1>5
  <2>2. \A e \in Path \ {d} : files'[e] = files[e]
    BY <1>4, <1>6
  <2>3. \A e \in Path \ {d} : pc'[e] = pc[e]
    BY <1>4, <1>5
  <2> QED
    BY <1>5, <1>7, <2>1, <2>2, <2>3 DEF Elsewhere
<1>9. /\ p \in Listed(d, "file") \cap ToSet(left[d])
      /\ left'[d] \in Seq(Path \ {Root}) /\ Distinct(left'[d])
      /\ ToSet(left'[d]) = ToSet(left[d]) \ {p}
  BY <1>2, <1>3, <1>7
<1> QED
  BY <1>1, <1>2, <1>5, <1>6, <1>8, <1>9, Zenon

\* What happens to a directory leaves the others' lists in order.
LEMMA LeftElsewhere ==
  ASSUME CrawlInv, NEW d \in Path, Elsewhere(d), NEW e \in Path \ {d}, CrawlAssumption
  PROVE  LeftOK(e)' /\ EntriesOK(e)'
<1>1. LeftOK(e) /\ EntriesOK(e) /\ CrawlTypes
  BY DEF CrawlInv, EntriesInv
<1>2. /\ remote' = remote /\ dirs'[e] = dirs[e] /\ files'[e] = files[e]
      /\ pc'[e] = pc[e] /\ left'[e] = left[e]
  BY DEF Elsewhere
<1>3. EntriesOK(e)'
  BY <1>1, <1>2 DEF EntriesOK
<1>4. \A kind : Listed(e, kind)' = Listed(e, kind)
  BY <1>2 DEF Listed
<1>5. left[e] # <<>> => Known(Head(left[e]), e)' = Known(Head(left[e]), e)
  <2> SUFFICES ASSUME left[e] # <<>>
               PROVE  Known(Head(left[e]), e)' = Known(Head(left[e]), e)
    OBVIOUS
  <2>1. Head(left[e]) \in Path \ {Root} /\ Up[Head(left[e])] = e
    BY <1>1, FirstLeft
  <2>2. size'[Head(left[e])] = size[Head(left[e])]
    BY <2>1 DEF Elsewhere
  <2> QED
    BY <1>2, <2>2 DEF Known
<1>6. LeftOK(e)'
  BY <1>1, <1>2, <1>4, <1>5 DEF LeftOK, Requesting
<1> QED
  BY <1>3, <1>6

\* When a step of a directory is over, its own lists are in order too.
LEMMA EntriesStep ==
  ASSUME CrawlInv, NEW d \in Path, Elsewhere(d), LeftOK(d)', EntriesOK(d)', CrawlAssumption
  PROVE  EntriesInv'
BY LeftElsewhere DEF EntriesInv
-----------------------------------------------------------------------------
(* Types and entries are kept.                                             *)

LEMMA Reported ==
  ASSUME NEW r \in Reports, NEW x \in SUBSET Within, NEW y \in SUBSET Within
  PROVE  /\ [r EXCEPT !.addedDirs = x] \in Reports /\ [r EXCEPT !.addedFiles = x] \in Reports
         /\ [r EXCEPT !.conflicts = x] \in Reports
         /\ [r EXCEPT !.mismatches = x, !.updatedFiles = y] \in Reports
         /\ [r EXCEPT !.missingDirs = x, !.missingFiles = y] \in Reports
BY DEF Reports

LEMMA ReportSets ==
  ASSUME NEW r \in Reports
  PROVE  /\ r.addedDirs \in SUBSET Within /\ r.addedFiles \in SUBSET Within
         /\ r.conflicts \in SUBSET Within /\ r.emptyDirs \in SUBSET Path
         /\ r.mismatches \in SUBSET Within /\ r.updatedFiles \in SUBSET Within
         /\ r.missingDirs \in SUBSET Within /\ r.missingFiles \in SUBSET Within
         /\ \A x \in SUBSET Path : [r EXCEPT !.emptyDirs = x] \in Reports
BY DEF Reports

LEMMA CrawlStart == ASSUME Init, CrawlAssumption PROVE CrawlInv
<1>1. CrawlTypes
  <2>1. remote \in [Path \ {Root} -> Remote] /\ remote \in Remotes
    BY DEF Init, CrawlInit, CrawlAssumption
  <2>2. dirs \in [Path -> Seq(Path)] /\ files \in [Path -> Seq(Path)] /\ size \in [Path -> Size]
    BY DEF Init, CrawlInit, CrawlAssumption
  <2>3. left = [p \in Path |-> <<>>] /\ <<>> \in Seq(Path \ {Root})
    BY EmptySeq DEF Init, CrawlInit
  <2>4. left \in [Path -> Seq(Path \ {Root})]
    BY <2>3
  <2>5. pc = [p \in Path |-> IF p = Root THEN "queued" ELSE "none"]
    BY DEF Init, CrawlInit
  <2>6. report = EmptyReport /\ faults = 0 /\ MaxFaults \in Nat
    BY DEF Init, CrawlInit, CrawlAssumption
  <2>7. EmptyReport \in Reports
    BY DEF EmptyReport, Reports
  <2>8. pc \in [Path -> {"none", "queued", "getting", "listing", "asking", "heading", "waiting",
                         "done", "failed"}]
    BY <2>5
  <2>9. faults \in 0 .. MaxFaults
    BY <2>6
  <2> QED
    BY <2>1, <2>2, <2>4, <2>6, <2>7, <2>8, <2>9 DEF CrawlTypes
<1>2. ASSUME NEW d \in Path
      PROVE  LeftOK(d) /\ EntriesOK(d)
  <2>1. left[d] = <<>> /\ pc[d] \in {"none", "queued"} /\ dirs[d] = BaseDirs[d] /\ files[d] = BaseFiles[d]
    BY DEF Init, CrawlInit
  <2>2. EntriesOK(d)
    BY <2>1 DEF EntriesOK, CrawlAssumption
  <2>3. DOMAIN left[d] = {}
    BY <2>1
  <2>4. ToSet(left[d]) = {} /\ Distinct(left[d])
    BY <2>3 DEF ToSet, Distinct
  <2> QED
    BY <2>1, <2>2, <2>4 DEF LeftOK, Requesting
<1> QED
  BY <1>1, <1>2 DEF CrawlInv, EntriesInv

\* A step that leaves the lists of the tree alone and has no request under way after it.
LEMMA GoesOn ==
  ASSUME CrawlInv, NEW d \in Path, Elsewhere(d), dirs' = dirs, files' = files,
         ToSet(left'[d]) \subseteq Listed(d, "dir") \cup Listed(d, "file"), Distinct(left'[d]),
         left'[d] # <<>> => pc'[d] = "listing",
         pc'[d] \notin Requesting, CrawlAssumption
  PROVE  EntriesInv'
<1>1. EntriesOK(d)'
  BY DEF CrawlInv, EntriesInv, EntriesOK
<1>2. LeftOK(d)'
  BY DEF LeftOK, Elsewhere, Listed
<1> QED
  BY <1>1, <1>2, EntriesStep

LEMMA GetKeeps ==
  ASSUME CrawlInv, NEW d \in Path, Get(d), CrawlAssumption
  PROVE  CrawlInv' /\ Elsewhere(d)
<1>1. CrawlTypes /\ LeftOK(d)
  BY DEF CrawlInv, EntriesInv
<1>2. pc \in [Path -> {"none", "queued", "getting", "listing", "asking", "heading", "waiting",
                       "done", "failed"}]
  BY <1>1 DEF CrawlTypes
<1>3. pc[d] = "queued" /\ pc' = [pc EXCEPT ![d] = "getting"]
  BY DEF Get, GoTo
<1>4. UNCHANGED <<remote, dirs, files, size, left, report, faults>>
  BY DEF Get
<1>5. pc'[d] = "getting" /\ Elsewhere(d)
  BY <1>2, <1>3, <1>4 DEF Elsewhere
<1>6. left[d] = <<>>
  BY <1>1, <1>3 DEF LeftOK, Requesting
<1>7. EntriesInv'
  BY <1>1, <1>4, <1>5, <1>6, GoesOn DEF LeftOK, Requesting
<1>8. CrawlTypes'
  BY <1>1, <1>2, <1>3, <1>4 DEF CrawlTypes
<1> QED
  BY <1>5, <1>7, <1>8 DEF CrawlInv

LEMMA GotKeeps ==
  ASSUME CrawlInv, NEW d \in Path, Got(d), CrawlAssumption
  PROVE  CrawlInv' /\ Elsewhere(d)
<1>1. CrawlTypes
  BY DEF CrawlInv
<1>2. pc \in [Path -> {"none", "queued", "getting", "listing", "asking", "heading", "waiting",
                       "done", "failed"}]
      /\ left \in [Path -> Seq(Path \ {Root})]
  BY <1>1 DEF CrawlTypes
<1>3. pc' = [pc EXCEPT ![d] = "listing"] /\ left' = [left EXCEPT ![d] = Listing(d)]
  BY DEF Got, GoTo
<1>4. UNCHANGED <<remote, dirs, files, size, faults>>
  BY DEF Got
<1>5. /\ Listing(d) \in Seq(Path \ {Root}) /\ Distinct(Listing(d))
      /\ ToSet(Listing(d)) = Listed(d, "dir") \cup Listed(d, "file")
  BY ListingIs
<1>6. pc'[d] = "listing" /\ left'[d] = Listing(d) /\ Elsewhere(d)
  BY <1>2, <1>3, <1>4 DEF Elsewhere
<1>7. EntriesInv'
  <2>1. /\ dirs' = dirs /\ files' = files /\ Distinct(left'[d])
        /\ ToSet(left'[d]) \subseteq Listed(d, "dir") \cup Listed(d, "file")
        /\ pc'[d] = "listing" /\ pc'[d] \notin Requesting
    BY <1>4, <1>5, <1>6 DEF Requesting
  <2> QED
    BY <1>6, <2>1, GoesOn
<1>8. report' \in Reports
  <2>1. report \in Reports
    BY <1>1 DEF CrawlTypes
  <2>2. report.emptyDirs \cup {d} \in SUBSET Path
    BY <2>1, ReportSets
  <2>3. [report EXCEPT !.emptyDirs = report.emptyDirs \cup {d}] \in Reports
    BY <2>1, <2>2, ReportSets
  <2> QED
    BY <2>1, <2>3 DEF Got
<1>9. left' \in [Path -> Seq(Path \ {Root})]
  BY <1>2, <1>3, <1>5
<1>10. CrawlTypes'
  BY <1>1, <1>2, <1>3, <1>4, <1>8, <1>9 DEF CrawlTypes
<1> QED
  BY <1>6, <1>7, <1>10 DEF CrawlInv

LEMMA EntryDirKeeps ==
  ASSUME CrawlInv, NEW d \in Path, EntryDir(d), CrawlAssumption
  PROVE  CrawlInv' /\ Elsewhere(d)
<1>1. PICK p \in Listed(d, "dir") \cap ToSet(left[d]) :
           /\ remote' = remote /\ files' = files /\ size' = size /\ pc' = pc /\ faults' = faults
           /\ pc[d] = "listing"
           /\ left' = [left EXCEPT ![d] = Tail(@)] /\ left[d] # <<>>
           /\ left'[d] \in Seq(Path \ {Root}) /\ Distinct(left'[d])
           /\ ToSet(left'[d]) = ToSet(left[d]) \ {p}
           /\ Elsewhere(d)
           /\ \/ /\ p \in ToSet(files[d]) /\ dirs' = dirs
                 /\ report' = [report EXCEPT !.conflicts = @ \cup {p}]
              \/ /\ p \notin ToSet(files[d]) /\ p \in ToSet(dirs[d])
                 /\ dirs' = dirs /\ report' = report
              \/ /\ p \notin ToSet(files[d]) /\ p \notin ToSet(dirs[d])
                 /\ dirs' = [dirs EXCEPT ![d] = WithNew(@, p)]
                 /\ report' = [report EXCEPT !.addedDirs = @ \cup {p}]
  BY EntryDirDoes
<1>2. CrawlTypes /\ LeftOK(d) /\ EntriesOK(d)
  BY DEF CrawlInv, EntriesInv
<1>3. dirs \in [Path -> Seq(Path)] /\ left \in [Path -> Seq(Path \ {Root})]
  BY <1>2 DEF CrawlTypes
<1>4. p \in Path /\ p \in Path \ {Root} /\ Up[p] = d
  BY DEF Listed
<1>5. WithNew(dirs[d], p) \in Seq(Path) /\ ToSet(WithNew(dirs[d], p)) = ToSet(dirs[d]) \cup {p}
  BY <1>3, <1>4, Appends
<1>6. \/ dirs' = dirs
      \/ p \notin ToSet(files[d]) /\ dirs' = [dirs EXCEPT ![d] = WithNew(dirs[d], p)]
  BY <1>1
<1>7. \/ dirs'[d] = dirs[d]
      \/ p \notin ToSet(files[d]) /\ dirs'[d] = WithNew(dirs[d], p)
  BY <1>3, <1>6
<1>8. EntriesOK(d)'
  <2>1. files'[d] = files[d]
    BY <1>1
  <2> QED
    BY <1>2, <1>4, <1>5, <1>7, <2>1 DEF EntriesOK
<1>9. LeftOK(d)'
  <2>1. pc'[d] = "listing"
    BY <1>1
  <2>2. \A kind : Listed(d, kind)' = Listed(d, kind)
    BY <1>1 DEF Listed
  <2> QED
    BY <1>1, <1>2, <2>1, <2>2 DEF LeftOK, Requesting
<1>10. EntriesInv'
  BY <1>1, <1>8, <1>9, EntriesStep
<1>11. dirs' \in [Path -> Seq(Path)]
  <2>1. [dirs EXCEPT ![d] = WithNew(dirs[d], p)] \in [Path -> Seq(Path)]
    BY <1>3, <1>5
  <2>2. CASE dirs' = dirs
    BY <1>3, <2>2
  <2>3. CASE dirs' = [dirs EXCEPT ![d] = WithNew(dirs[d], p)]
    BY <2>1, <2>3
  <2> QED
    BY <1>6, <2>2, <2>3
<1>12. report' \in Reports
  <2>1. report \in Reports
    BY <1>2 DEF CrawlTypes
  <2>2. report.conflicts \cup {p} \in SUBSET Within /\ report.addedDirs \cup {p} \in SUBSET Within
    BY <1>4, <2>1, ReportSets DEF Within
  <2>3. /\ [report EXCEPT !.conflicts = report.conflicts \cup {p}] \in Reports
        /\ [report EXCEPT !.addedDirs = report.addedDirs \cup {p}] \in Reports
    BY <2>1, <2>2, Reported
  <2>4. \/ report' = report
        \/ report' = [report EXCEPT !.conflicts = report.conflicts \cup {p}]
        \/ report' = [report EXCEPT !.addedDirs = report.addedDirs \cup {p}]
    BY <1>1
  <2> HIDE DEF Reports
  <2> QED
    BY <2>1, <2>3, <2>4, Zenon
<1>13. left' \in [Path -> Seq(Path \ {Root})]
  BY <1>1, <1>3
<1>14. CrawlTypes'
  BY <1>1, <1>2, <1>11, <1>12, <1>13 DEF CrawlTypes
<1> QED
  BY <1>1, <1>10, <1>14 DEF CrawlInv
LEMMA EntryFileKeeps ==
  ASSUME CrawlInv, NEW d \in Path, EntryFile(d), CrawlAssumption
  PROVE  CrawlInv' /\ Elsewhere(d)
<1>1. PICK p \in Listed(d, "file") \cap ToSet(left[d]) :
        /\ p = Head(left[d])
        /\ \/ /\ left' = [left EXCEPT ![d] = Tail(@)] /\ pc' = pc
              /\ left'[d] \in Seq(Path \ {Root}) /\ Distinct(left'[d])
              /\ ToSet(left'[d]) = ToSet(left[d]) \ {p}
              /\ \/ /\ p \in ToSet(dirs[d])
                    /\ report' = [report EXCEPT !.conflicts = @ \cup {p}]
                 \/ p \notin ToSet(dirs[d]) /\ Known(p, d) /\ report' = report
           \/ /\ p \notin ToSet(dirs[d]) /\ ~Known(p, d) /\ report' = report
              /\ left' = left /\ pc' = [pc EXCEPT ![d] = "asking"]
  BY EntryFileDoes
<1>2. /\ remote' = remote /\ dirs' = dirs /\ files' = files /\ size' = size /\ faults' = faults
      /\ pc[d] = "listing" /\ left[d] # <<>> /\ Elsewhere(d)
  BY EntryFileDoes
<1>3. CrawlTypes /\ LeftOK(d) /\ EntriesOK(d)
  BY DEF CrawlInv, EntriesInv
<1>4. pc \in [Path -> {"none", "queued", "getting", "listing", "asking", "heading", "waiting",
                       "done", "failed"}]
      /\ left \in [Path -> Seq(Path \ {Root})]
  BY <1>3 DEF CrawlTypes
<1>5. p \in Within
  BY DEF Listed, Within
<1>6. EntriesInv'
  <2>1. CASE /\ p \notin ToSet(dirs[d]) /\ ~Known(p, d)
             /\ left' = left /\ pc' = [pc EXCEPT ![d] = "asking"]
    <3>1. pc'[d] = "asking" /\ p \notin ToSet(dirs[d]) /\ ~Known(p, d)
      BY <1>4, <2>1
    <3>2. LeftOK(d)'
      <4>1. Known(Head(left[d]), d)' = Known(Head(left[d]), d)
        BY <1>2, <2>1 DEF Known
      <4>2. \A kind : Listed(d, kind)' = Listed(d, kind)
        BY <1>2 DEF Listed
      <4> QED
        BY <1>1, <1>2, <1>3, <2>1, <3>1, <4>1, <4>2 DEF LeftOK, Requesting
    <3>3. EntriesOK(d)'
      BY <1>2, <1>3 DEF EntriesOK
    <3> QED
      BY <1>2, <3>2, <3>3, EntriesStep
  <2>2. CASE /\ left' = [left EXCEPT ![d] = Tail(@)] /\ pc' = pc
             /\ left'[d] \in Seq(Path \ {Root}) /\ Distinct(left'[d])
             /\ ToSet(left'[d]) = ToSet(left[d]) \ {p}
    <3>1. ToSet(left'[d]) \subseteq Listed(d, "dir") \cup Listed(d, "file")
      BY <1>3, <2>2 DEF LeftOK
    <3>2. pc'[d] = "listing" /\ pc'[d] \notin Requesting
      BY <1>2, <2>2 DEF Requesting
    <3> QED
      BY <1>2, <2>2, <3>1, <3>2, GoesOn
  <2> QED
    BY <1>1, <2>1, <2>2
<1>7. report' \in Reports
  <2>1. report \in Reports
    BY <1>3 DEF CrawlTypes
  <2>2. report.conflicts \cup {p} \in SUBSET Within
    BY <1>5, <2>1, ReportSets
  <2>3. [report EXCEPT !.conflicts = report.conflicts \cup {p}] \in Reports
    BY <2>1, <2>2, Reported
  <2>4. report' = report \/ report' = [report EXCEPT !.conflicts = report.conflicts \cup {p}]
    BY <1>1
  <2> QED
    BY <2>1, <2>3, <2>4, Zenon
<1>8. left' \in [Path -> Seq(Path \ {Root})]
  <2>1. CASE left' = left
    BY <1>4, <2>1
  <2>2. CASE left' = [left EXCEPT ![d] = Tail(@)] /\ left'[d] \in Seq(Path \ {Root})
    BY <1>4, <2>2
  <2> QED
    BY <1>1, <2>1, <2>2
<1>9. pc' \in [Path -> {"none", "queued", "getting", "listing", "asking", "heading", "waiting",
                        "done", "failed"}]
  <2>1. pc' = pc \/ pc' = [pc EXCEPT ![d] = "asking"]
    BY <1>1
  <2> QED
    BY <1>4, <2>1
<1>10. CrawlTypes'
  BY <1>2, <1>3, <1>7, <1>8, <1>9 DEF CrawlTypes
<1> QED
  BY <1>2, <1>6, <1>10 DEF CrawlInv

LEMMA AskKeeps ==
  ASSUME CrawlInv, NEW d \in Path, Ask(d), CrawlAssumption
  PROVE  CrawlInv' /\ Elsewhere(d)
<1>1. CrawlTypes /\ LeftOK(d) /\ EntriesOK(d)
  BY DEF CrawlInv, EntriesInv
<1>2. pc \in [Path -> {"none", "queued", "getting", "listing", "asking", "heading", "waiting",
                       "done", "failed"}]
  BY <1>1 DEF CrawlTypes
<1>3. pc[d] = "asking" /\ pc' = [pc EXCEPT ![d] = "heading"]
  BY DEF Ask, GoTo
<1>4. UNCHANGED <<remote, dirs, files, size, left, report, faults>>
  BY DEF Ask
<1>5. pc'[d] = "heading" /\ Elsewhere(d)
  BY <1>2, <1>3, <1>4 DEF Elsewhere
<1>6. LeftOK(d)'
  <2>1. Known(Head(left[d]), d)' = Known(Head(left[d]), d)
    BY <1>4 DEF Known
  <2>2. \A kind : Listed(d, kind)' = Listed(d, kind)
    BY <1>4 DEF Listed
  <2> QED
    BY <1>1, <1>3, <1>4, <1>5, <2>1, <2>2 DEF LeftOK, Requesting
<1>7. EntriesOK(d)'
  BY <1>1, <1>4 DEF EntriesOK
<1>8. CrawlTypes'
  BY <1>1, <1>2, <1>3, <1>4 DEF CrawlTypes
<1> QED
  BY <1>5, <1>6, <1>7, <1>8, EntriesStep DEF CrawlInv

LEMMA AskedKeeps ==
  ASSUME CrawlInv, NEW d \in Path, Asked(d), CrawlAssumption
  PROVE  CrawlInv' /\ Elsewhere(d)
<1>1. PICK p \in Listed(d, "file") \cap ToSet(left[d]) :
           /\ p \notin ToSet(dirs[d]) /\ ~Known(p, d)
           /\ remote' = remote /\ dirs' = dirs /\ faults' = faults
           /\ pc[d] = "heading" /\ pc' = [pc EXCEPT ![d] = "listing"]
           /\ left' = [left EXCEPT ![d] = Tail(@)] /\ left[d] # <<>>
           /\ left'[d] \in Seq(Path \ {Root}) /\ Distinct(left'[d])
           /\ ToSet(left'[d]) = ToSet(left[d]) \ {p}
           /\ size' = [size EXCEPT ![p] = remote[p].size]
           /\ Elsewhere(d)
           /\ \/ /\ p \notin ToSet(files[d])
                 /\ files' = [files EXCEPT ![d] = WithNew(@, p)]
                 /\ report' = [report EXCEPT !.addedFiles = @ \cup {p}]
              \/ /\ p \in ToSet(files[d]) /\ files' = files
                 /\ report' = [report EXCEPT
                                 !.mismatches = @ \cup {p},
                                 !.updatedFiles = IF remote[p].size = size[p] THEN @ ELSE @ \cup {p}]
  BY AskedDoes
<1>2. CrawlTypes /\ LeftOK(d) /\ EntriesOK(d)
  BY DEF CrawlInv, EntriesInv
<1>3. /\ files \in [Path -> Seq(Path)] /\ left \in [Path -> Seq(Path \ {Root})]
      /\ size \in [Path -> Size] /\ remote \in [Path \ {Root} -> Remote]
  BY <1>2 DEF CrawlTypes
<1>4. pc \in [Path -> {"none", "queued", "getting", "listing", "asking", "heading", "waiting",
                       "done", "failed"}]
  BY <1>2 DEF CrawlTypes
<1>5. p \in Path /\ p \in Path \ {Root} /\ Up[p] = d
  BY DEF Listed
<1>6. WithNew(files[d], p) \in Seq(Path) /\ ToSet(WithNew(files[d], p)) = ToSet(files[d]) \cup {p}
  BY <1>3, <1>5, Appends
<1>7. files' = files \/ files' = [files EXCEPT ![d] = WithNew(files[d], p)]
  BY <1>1
<1>8. files' \in [Path -> Seq(Path)] /\ (files'[d] = files[d] \/ files'[d] = WithNew(files[d], p))
  <2>1. CASE files' = files
    BY <1>3, <2>1
  <2>2. CASE files' = [files EXCEPT ![d] = WithNew(files[d], p)]
    BY <1>3, <1>6, <2>2
  <2> QED
    BY <1>7, <2>1, <2>2
<1>9. EntriesOK(d)'
  <2>1. dirs'[d] = dirs[d] /\ p \notin ToSet(dirs[d])
    BY <1>1
  <2>2. ToSet(files'[d]) \subseteq ToSet(files[d]) \cup {p}
    BY <1>6, <1>8
  <2> QED
    BY <1>2, <1>5, <2>1, <2>2 DEF EntriesOK
<1>10. LeftOK(d)'
  <2>1. pc'[d] = "listing"
    BY <1>1, <1>4
  <2>2. \A kind : Listed(d, kind)' = Listed(d, kind)
    BY <1>1 DEF Listed
  <2> QED
    BY <1>1, <1>2, <2>1, <2>2 DEF LeftOK, Requesting
<1>11. EntriesInv'
  BY <1>1, <1>9, <1>10, EntriesStep
<1>12. report' \in Reports
  <2>1. report \in Reports
    BY <1>2 DEF CrawlTypes
  <2> DEFINE updated == IF remote[p].size = size[p] THEN report.updatedFiles
                        ELSE report.updatedFiles \cup {p}
  <2>2. /\ report.addedFiles \cup {p} \in SUBSET Within
        /\ report.mismatches \cup {p} \in SUBSET Within
        /\ updated \in SUBSET Within
    <3>1. p \in Within
      BY <1>5 DEF Within
    <3>2. /\ report.addedFiles \in SUBSET Within /\ report.mismatches \in SUBSET Within
          /\ report.updatedFiles \in SUBSET Within
      BY <2>1, ReportSets
    <3> QED
      BY <3>1, <3>2
  <2>3. \/ report' = [report EXCEPT !.addedFiles = report.addedFiles \cup {p}]
        \/ report' = [report EXCEPT !.mismatches = report.mismatches \cup {p}, !.updatedFiles = updated]
    BY <1>1
  <2> HIDE DEF updated
  <2>4. /\ [report EXCEPT !.addedFiles = report.addedFiles \cup {p}] \in Reports
        /\ [report EXCEPT !.mismatches = report.mismatches \cup {p}, !.updatedFiles = updated] \in Reports
    BY <2>1, <2>2, Reported
  <2> QED
    BY <2>3, <2>4, Zenon
<1>13. left' \in [Path -> Seq(Path \ {Root})]
  BY <1>1, <1>3
<1>14. size' \in [Path -> Size]
  <2>1. remote[p].size \in Size
    BY <1>3, <1>5 DEF Remote
  <2> QED
    BY <1>1, <1>3, <2>1
<1>15. pc' \in [Path -> {"none", "queued", "getting", "listing", "asking", "heading", "waiting",
                         "done", "failed"}]
  BY <1>1, <1>4
<1>16. CrawlTypes'
  BY <1>1, <1>2, <1>8, <1>12, <1>13, <1>14, <1>15 DEF CrawlTypes
<1> QED
  BY <1>1, <1>11, <1>16 DEF CrawlInv

LEMMA FailKeeps ==
  ASSUME CrawlInv, NEW d \in Path, RequestFails(d), CrawlAssumption
  PROVE  CrawlInv' /\ Elsewhere(d)
<1>1. CrawlTypes /\ LeftOK(d) /\ EntriesOK(d)
  BY DEF CrawlInv, EntriesInv
<1>2. pc \in [Path -> {"none", "queued", "getting", "listing", "asking", "heading", "waiting",
                       "done", "failed"}]
      /\ left \in [Path -> Seq(Path \ {Root})]
  BY <1>1 DEF CrawlTypes
<1>3. pc' = [pc EXCEPT ![d] = "failed"] /\ left' = [left EXCEPT ![d] = <<>>]
  BY DEF RequestFails, GoTo
<1>4. UNCHANGED <<remote, dirs, files, size, report>>
  BY DEF RequestFails
<1>5. faults' \in 0 .. MaxFaults
  BY <1>1 DEF RequestFails, Fault, CrawlTypes, CrawlAssumption
<1>6. pc'[d] = "failed" /\ left'[d] = <<>> /\ Elsewhere(d)
  BY <1>2, <1>3, <1>4 DEF Elsewhere
<1>7. DOMAIN left'[d] = {}
  BY <1>6
<1>8. ToSet(left'[d]) = {} /\ Distinct(left'[d])
  BY <1>7 DEF ToSet, Distinct
<1>9. EntriesInv'
  BY <1>4, <1>6, <1>8, GoesOn DEF Requesting
<1>10. left' \in [Path -> Seq(Path \ {Root})]
  <2>1. <<>> \in Seq(Path \ {Root})
    BY EmptySeq
  <2> QED
    BY <1>2, <1>3, <2>1
<1>11. CrawlTypes'
  BY <1>1, <1>2, <1>3, <1>4, <1>5, <1>10 DEF CrawlTypes
<1> QED
  BY <1>6, <1>9, <1>11 DEF CrawlInv
-----------------------------------------------------------------------------
(* The goroutines.                                                         *)

Over == {"done", "failed"}

\* A goroutine has been started by the one above, for a directory that is in the tree
\* and on the site; it is waited for until it is over; and a directory is only done
\* when those below it are.
StartedOK == \A p \in Path \ {Root} :
  pc[p] # "none" => pc[Up[p]] \in {"waiting"} \cup Over /\ p \in Below(Up[p])
AwaitedOK == \A p \in Path \ {Root} :
  pc[p] \notin {"none"} \cup Over => pc[Up[p]] = "waiting"
DoneOK == \A d \in Path : pc[d] = "done" => \A p \in Below(d) : pc[p] = "done"
GoInv == StartedOK /\ AwaitedOK /\ DoneOK

LEMMA GoStart == ASSUME Init, CrawlAssumption PROVE GoInv
<1>1. \A p \in Path \ {Root} : pc[p] = "none"
  BY DEF Init, CrawlInit
<1>2. \A p \in Path : pc[p] # "done"
  BY DEF Init, CrawlInit
<1> QED
  BY <1>1, <1>2 DEF GoInv, StartedOK, AwaitedOK, DoneOK

LEMMA BelowIs ==
  ASSUME NEW d \in Path, NEW p \in Below(d)
  PROVE  p \in Path \ {Root} /\ p \in Path /\ Up[p] = d
BY DEF Below, Listed

\* Steps of a goroutine that has not started those below, and its failure.
LEMMA GoLocal ==
  ASSUME CrawlInv, GoInv, NEW d \in Path, Elsewhere(d), CrawlAssumption,
         pc[d] \in {"queued", "getting", "listing"} \cup Requesting,
         pc'[d] \in {"queued", "getting", "listing", "failed"} \cup Requesting
  PROVE  GoInv'
<1>1. \A e \in Path \ {d} : pc'[e] = pc[e] /\ dirs'[e] = dirs[e]
  BY DEF Elsewhere
<1>2. \A e \in Path \ {d} : Below(e)' = Below(e)
  BY <1>1 DEF Elsewhere, Below, Listed
<1>3. /\ pc[d] \notin {"none", "waiting", "done", "failed"}
      /\ pc'[d] \notin {"none", "waiting", "done"}
  BY DEF Requesting
<1>4. \A p \in Path \ {Root} : Up[p] \in Path
  BY DEF CrawlAssumption
<1>5. \A p \in Path \ {Root} : pc[p] # "none" => Up[p] # d
  BY <1>3 DEF GoInv, StartedOK, Over
<1>6. \A p \in Path \ {Root} : pc'[p] # "none" => pc[p] # "none"
  BY <1>1, <1>3
<1>7. StartedOK'
  <2> SUFFICES ASSUME NEW p \in Path \ {Root}, pc'[p] # "none"
               PROVE  pc'[Up[p]] \in {"waiting"} \cup Over /\ p \in Below(Up[p])'
    BY DEF StartedOK
  <2>1. Up[p] \in Path \ {d}
    BY <1>4, <1>5, <1>6
  <2>2. pc[Up[p]] \in {"waiting"} \cup Over /\ p \in Below(Up[p])
    BY <1>6 DEF GoInv, StartedOK
  <2> QED
    BY <1>1, <1>2, <2>1, <2>2
<1>8. AwaitedOK'
  <2> SUFFICES ASSUME NEW p \in Path \ {Root}, pc'[p] \notin {"none"} \cup Over
               PROVE  pc'[Up[p]] = "waiting"
    BY DEF AwaitedOK
  <2>1. pc[p] \notin {"none"} \cup Over
    BY <1>1, <1>3 DEF Over
  <2> QED
    BY <1>1, <1>4, <1>5, <2>1 DEF GoInv, AwaitedOK
<1>9. DoneOK'
  <2> SUFFICES ASSUME NEW e \in Path, pc'[e] = "done", NEW p \in Below(e)'
               PROVE  pc'[p] = "done"
    BY DEF DoneOK
  <2>1. e # d /\ pc[e] = "done" /\ p \in Below(e)
    BY <1>1, <1>2, <1>3
  <2>2. pc[p] = "done" /\ p \in Path
    BY <2>1, BelowIs DEF GoInv, DoneOK
  <2> QED
    BY <1>1, <1>3, <2>2
<1> QED
  BY <1>7, <1>8, <1>9 DEF GoInv

\* At the end of its listing a goroutine starts those below, none of which was there.
LEMMA DescendDoes ==
  ASSUME CrawlInv, GoInv, NEW d \in Path, Descend(d), CrawlAssumption
  PROVE  /\ UNCHANGED <<remote, dirs, files, size, left, faults>>
         /\ pc[d] = "listing" /\ left[d] = <<>> /\ pc'[d] = "waiting"
         /\ \A p \in Below(d) : p # d /\ pc[p] = "none" /\ pc'[p] = "queued"
         /\ \A e \in Path \ {d} : e \notin Below(d) => pc'[e] = pc[e]
         /\ pc' \in [Path -> {"none", "queued", "getting", "listing", "asking", "heading",
                              "waiting", "done", "failed"}]
<1>1. pc \in [Path -> {"none", "queued", "getting", "listing", "asking", "heading", "waiting",
                       "done", "failed"}]
  BY DEF CrawlInv, CrawlTypes
<1>2. UNCHANGED <<remote, dirs, files, size, left, faults>> /\ pc[d] = "listing" /\ left[d] = <<>>
  BY DEF Descend
<1>3. pc' = [p \in Path |-> CASE p \in Below(d) -> "queued"
                              [] p = d -> "waiting"
                              [] OTHER -> pc[p]]
  BY DEF Descend
<1>4. ASSUME NEW p \in Below(d)
      PROVE  p # d /\ pc[p] = "none"
  <2>1. p \in Path \ {Root} /\ Up[p] = d
    BY BelowIs
  <2>2. pc[p] = "none"
    BY <1>2, <2>1 DEF GoInv, StartedOK, Over
  <2> QED
    BY <1>2, <2>2
<1>5. \A p \in Path : pc'[p] = IF p \in Below(d) THEN "queued" ELSE IF p = d THEN "waiting" ELSE pc[p]
  BY <1>3, <1>4
<1>6. \A p \in Below(d) : p \in Path
  BY BelowIs
<1>7. DOMAIN pc' = Path /\ pc' = [p \in Path |-> pc'[p]]
  BY <1>3
<1> HIDE DEF Below
<1>8. pc'[d] = "waiting" /\ \A p \in Below(d) : pc'[p] = "queued"
  BY <1>4, <1>5, <1>6
<1>9. \A p \in Path : pc'[p] \in {"none", "queued", "getting", "listing", "asking", "heading",
                                  "waiting", "done", "failed"}
  BY <1>1, <1>5
<1> QED
  BY <1>2, <1>4, <1>5, <1>7, <1>8, <1>9

LEMMA DescendKeeps ==
  ASSUME CrawlInv, GoInv, NEW d \in Path, Descend(d), CrawlAssumption
  PROVE  CrawlInv' /\ GoInv'
<1>1. /\ UNCHANGED <<remote, dirs, files, size, left, faults>>
      /\ pc[d] = "listing" /\ left[d] = <<>> /\ pc'[d] = "waiting"
      /\ \A p \in Below(d) : p # d /\ pc[p] = "none" /\ pc'[p] = "queued"
      /\ \A e \in Path \ {d} : e \notin Below(d) => pc'[e] = pc[e]
  BY DescendDoes
<1>2. \A p \in Below(d) : p \in Path \ {Root} /\ p \in Path /\ Up[p] = d
  BY BelowIs
<1>3. \A e \in Path : Below(e)' = Below(e) /\ \A kind : Listed(e, kind)' = Listed(e, kind)
  BY <1>1 DEF Below, Listed
<1>4. EntriesInv'
  <2> SUFFICES ASSUME NEW e \in Path PROVE LeftOK(e)' /\ EntriesOK(e)'
    BY DEF EntriesInv
  <2>1. LeftOK(e) /\ EntriesOK(e)
    BY DEF CrawlInv, EntriesInv
  <2>2. left'[e] = left[e] /\ dirs'[e] = dirs[e] /\ files'[e] = files[e]
    BY <1>1
  <2>3. \/ pc'[e] = pc[e]
        \/ left[e] = <<>> /\ pc'[e] \notin Requesting
    BY <1>1, <2>1 DEF LeftOK, Requesting
  <2>4. Known(Head(left[e]), e)' = Known(Head(left[e]), e)
    BY <1>1 DEF Known
  <2>5. LeftOK(e)'
    BY <1>3, <2>1, <2>2, <2>3, <2>4 DEF LeftOK
  <2> QED
    BY <2>1, <2>2, <2>5 DEF EntriesOK
<1>5. report' \in Reports
  <2>1. report \in Reports /\ dirs \in [Path -> Seq(Path)] /\ files \in [Path -> Seq(Path)]
    BY DEF CrawlInv, CrawlTypes
  <2>2. ToSet(dirs[d]) \subseteq Within /\ ToSet(files[d]) \subseteq Within
    BY DEF CrawlInv, EntriesInv, EntriesOK, Within
  <2> DEFINE x == report.missingDirs \cup (ToSet(dirs[d]) \ Listed(d, "dir"))
             y == report.missingFiles \cup (ToSet(files[d]) \ Listed(d, "file"))
  <2>3. x \in SUBSET Within /\ y \in SUBSET Within
    BY <2>1, <2>2, ReportSets
  <2>4. report' = [report EXCEPT !.missingDirs = x, !.missingFiles = y]
    BY DEF Descend
  <2> HIDE DEF x, y
  <2> QED
    BY <2>1, <2>3, <2>4, Reported
<1>6. CrawlTypes'
  BY <1>1, <1>5, DescendDoes DEF CrawlInv, CrawlTypes
<1>7. StartedOK'
  <2> SUFFICES ASSUME NEW p \in Path \ {Root}, pc'[p] # "none"
               PROVE  pc'[Up[p]] \in {"waiting"} \cup Over /\ p \in Below(Up[p])'
    BY DEF StartedOK
  <2>3. Up[p] \in Path
    BY DEF CrawlAssumption
  <2> SUFFICES pc'[Up[p]] \in {"waiting"} \cup Over /\ p \in Below(Up[p])
    BY <1>3, <2>3
  <2>1. CASE p \in Below(d)
    BY <1>1, <1>2, <2>1
  <2>2. CASE p \notin Below(d)
    <3>1. pc[p] # "none"
      BY <1>1, <2>2
    <3>2. pc[Up[p]] \in {"waiting"} \cup Over /\ p \in Below(Up[p]) /\ Up[p] \in Path
      BY <3>1 DEF GoInv, StartedOK, CrawlAssumption
    <3>3. Up[p] # d /\ Up[p] \notin Below(d)
      BY <1>1, <3>2 DEF Over
    <3> QED
      BY <1>1, <3>2, <3>3
  <2> QED
    BY <2>1, <2>2
<1>8. AwaitedOK'
  <2> SUFFICES ASSUME NEW p \in Path \ {Root}, pc'[p] \notin {"none"} \cup Over
               PROVE  pc'[Up[p]] = "waiting"
    BY DEF AwaitedOK
  <2>1. CASE p \in Below(d)
    BY <1>1, <1>2, <2>1
  <2>2. CASE p \notin Below(d)
    <3>1. pc[p] \notin {"none"} \cup Over
      BY <1>1, <2>2 DEF Over
    <3>2. pc[Up[p]] = "waiting" /\ Up[p] \in Path
      BY <3>1 DEF GoInv, AwaitedOK, CrawlAssumption
    <3>3. Up[p] \in Path \ {d} /\ Up[p] \notin Below(d)
      BY <1>1, <3>2
    <3>4. pc'[Up[p]] = pc[Up[p]]
      BY <1>1, <3>3, Zenon
    <3> QED
      BY <3>2, <3>4
  <2> QED
    BY <2>1, <2>2
<1>9. DoneOK'
  <2> SUFFICES ASSUME NEW e \in Path, pc'[e] = "done", NEW p \in Below(e)
               PROVE  pc'[p] = "done"
    BY <1>3 DEF DoneOK
  <2>1. pc[e] = "done"
    BY <1>1
  <2>2. pc[p] = "done" /\ p \in Path
    BY <2>1, BelowIs DEF GoInv, DoneOK
  <2> QED
    BY <1>1, <2>2
<1> QED
  BY <1>4, <1>6, <1>7, <1>8, <1>9 DEF CrawlInv, GoInv

LEMMA JoinKeeps ==
  ASSUME CrawlInv, GoInv, NEW d \in Path, Join(d), CrawlAssumption
  PROVE  CrawlInv' /\ GoInv' /\ Elsewhere(d)
<1>1. pc \in [Path -> {"none", "queued", "getting", "listing", "asking", "heading", "waiting",
                       "done", "failed"}]
      /\ CrawlTypes /\ LeftOK(d)
  BY DEF CrawlInv, CrawlTypes, EntriesInv
<1>2. UNCHANGED <<remote, dirs, files, size, left, report, faults>> /\ pc[d] = "waiting"
  BY DEF Join
<1>3. pc' = [pc EXCEPT ![d] = IF \E p \in Below(d) : pc[p] = "failed" THEN "failed" ELSE "done"]
  BY DEF Join, GoTo
<1>4. pc'[d] \in Over /\ (pc'[d] = "done" => \A p \in Below(d) : pc[p] # "failed")
  BY <1>1, <1>3 DEF Over
<1>5. \A e \in Path \ {d} : pc'[e] = pc[e]
  BY <1>1, <1>3
<1>6. Elsewhere(d)
  BY <1>2, <1>5 DEF Elsewhere
<1>7. left[d] = <<>>
  BY <1>1, <1>2 DEF LeftOK, Requesting
<1>8. EntriesInv'
  <2>1. /\ dirs' = dirs /\ files' = files /\ left'[d] = left[d]
        /\ pc'[d] \notin Requesting
    BY <1>2, <1>4 DEF Requesting, Over
  <2> QED
    BY <1>1, <1>6, <1>7, <2>1, GoesOn DEF LeftOK
<1>9. CrawlTypes'
  <2>1. pc' \in [Path -> {"none", "queued", "getting", "listing", "asking", "heading", "waiting",
                          "done", "failed"}]
    BY <1>1, <1>3
  <2> QED
    BY <1>1, <1>2, <2>1 DEF CrawlTypes
<1>10. \A p \in Below(d) : p \in Path \ {Root} /\ pc[p] \in Over /\ p # d
  BY <1>2, BelowIs DEF Join, AllBack, Over
<1>11. \A e \in Path : Below(e)' = Below(e)
  BY <1>2 DEF Below, Listed
<1>12. \A p \in Path \ {Root} : Up[p] \in Path
  BY DEF CrawlAssumption
<1>13. StartedOK'
  <2>1. \A p \in Path : pc'[p] # "none" => pc[p] # "none"
    BY <1>2, <1>5
  <2>2. \A e \in Path : pc[e] \in {"waiting"} \cup Over => pc'[e] \in {"waiting"} \cup Over
    BY <1>4, <1>5
  <2>3. ASSUME NEW p \in Path \ {Root}, pc'[p] # "none"
        PROVE  pc'[Up[p]] \in {"waiting"} \cup Over /\ p \in Below(Up[p])'
    <3>1. pc[Up[p]] \in {"waiting"} \cup Over /\ p \in Below(Up[p]) /\ Up[p] \in Path
      BY <1>12, <2>1, <2>3 DEF GoInv, StartedOK
    <3> QED
      BY <1>11, <2>2, <3>1
  <2> QED
    BY <2>3 DEF StartedOK
<1>14. AwaitedOK'
  <2> SUFFICES ASSUME NEW p \in Path \ {Root}, pc'[p] \notin {"none"} \cup Over
               PROVE  pc'[Up[p]] = "waiting"
    BY DEF AwaitedOK
  <2>1. p # d /\ pc[p] \notin {"none"} \cup Over
    BY <1>4, <1>5
  <2>2. pc[Up[p]] = "waiting" /\ p \in Below(Up[p])
    BY <2>1 DEF GoInv, AwaitedOK, StartedOK
  <2>3. Up[p] # d
    BY <1>10, <2>1, <2>2
  <2> QED
    BY <1>5, <1>12, <2>2, <2>3
<1>15. DoneOK'
  <2> SUFFICES ASSUME NEW e \in Path, pc'[e] = "done", NEW p \in Below(e)
               PROVE  pc'[p] = "done"
    BY <1>11 DEF DoneOK
  <2>1. CASE e = d
    BY <1>4, <1>5, <1>10, <2>1 DEF Over
  <2>2. CASE e # d
    <3>1. pc[p] = "done" /\ p \in Path
      BY <1>5, <2>2, BelowIs DEF GoInv, DoneOK
    <3> QED
      BY <1>2, <1>5, <3>1
  <2> QED
    BY <2>1, <2>2
<1> QED
  BY <1>6, <1>8, <1>9, <1>13, <1>14, <1>15 DEF CrawlInv, GoInv

\* A crawl that is over has no goroutine left, and one that succeeds none that failed.
LEMMA NoneLeft ==
  ASSUME GoInv, Ended, CrawlAssumption
  PROVE  /\ \A d \in Path : pc[d] \in {"none"} \cup Over
         /\ pc[Root] = "done" => \A d \in Path : pc[d] \in {"none", "done"}
<1>1. ASSUME NEW q \in Path, pc[q] \notin {"none"} \cup Over
      PROVE  FALSE
  <2> DEFINE S == {p \in Path \ {Root} : pc[p] \notin {"none"} \cup Over}
  <2>1. q \in S /\ S \in SUBSET (Path \ {Root}) /\ S # {}
    BY <1>1 DEF Ended, Over
  <2>2. PICK p \in S : Up[p] \notin S
    BY <2>1 DEF CrawlAssumption
  <2>3. pc[Up[p]] = "waiting" /\ Up[p] \in Path
    BY <2>2 DEF GoInv, AwaitedOK, CrawlAssumption
  <2>4. Up[p] # Root
    BY <2>3 DEF Ended
  <2> QED
    BY <2>2, <2>3, <2>4 DEF Over
<1>2. ASSUME pc[Root] = "done", NEW q \in Path, pc[q] \notin {"none", "done"}
      PROVE  FALSE
  <2> DEFINE S == {p \in Path \ {Root} : pc[p] \notin {"none", "done"}}
  <2>1. q \in S /\ S \in SUBSET (Path \ {Root}) /\ S # {}
    BY <1>2
  <2>2. PICK p \in S : Up[p] \notin S
    BY <2>1 DEF CrawlAssumption
  <2>3. pc[p] # "none" /\ pc[p] # "done"
    OBVIOUS
  <2>4. pc[Up[p]] \in {"waiting"} \cup Over /\ p \in Below(Up[p]) /\ Up[p] \in Path
    BY <2>3 DEF GoInv, StartedOK, CrawlAssumption
  <2>5. pc[Up[p]] = "done"
    BY <1>2, <2>2, <2>4 DEF Over
  <2>6. \A r \in Below(Up[p]) : pc[r] = "done"
    BY <2>4, <2>5 DEF GoInv, DoneOK
  <2> QED
    BY <2>3, <2>4, <2>6
<1> QED
  BY <1>1, <1>2
-----------------------------------------------------------------------------
(* What is left of the baseline.                                           *)

PrefixInv == \A d \in Path : IsPrefix(BaseDirs[d], dirs[d]) /\ IsPrefix(BaseFiles[d], files[d])

LEMMA PrefixStart == ASSUME Init, CrawlAssumption PROVE PrefixInv
<1> SUFFICES ASSUME NEW d \in Path
             PROVE  IsPrefix(BaseDirs[d], BaseDirs[d]) /\ IsPrefix(BaseFiles[d], BaseFiles[d])
  BY DEF PrefixInv, Init, CrawlInit
<1>1. BaseDirs[d] \in Seq(Path) /\ BaseFiles[d] \in Seq(Path)
  BY DEF CrawlAssumption
<1> QED
  BY <1>1 DEF IsPrefix

\* A list that stays or grows by one entry behind the others keeps its beginning.
LEMMA PrefixGrows ==
  ASSUME NEW q \in Seq(Path), NEW b \in Seq(Path), NEW r, IsPrefix(b, q),
         r = q \/ \E p \in Path : r = WithNew(q, p)
  PROVE  IsPrefix(b, r)
BY Appends

LEMMA PrefixStep ==
  ASSUME CrawlInv, PrefixInv, NEW d \in Path, Sync(d) \/ RequestFails(d), CrawlAssumption
  PROVE  PrefixInv'
<1>1. dirs \in [Path -> Seq(Path)] /\ files \in [Path -> Seq(Path)]
  BY DEF CrawlInv, CrawlTypes
<1>2. \A e \in Path :
        /\ dirs'[e] = dirs[e] \/ \E p \in Path : dirs'[e] = WithNew(dirs[e], p)
        /\ files'[e] = files[e] \/ \E p \in Path : files'[e] = WithNew(files[e], p)
  <2>1. CASE EntryDir(d)
    <3>1. PICK p \in Path : \/ dirs' = dirs
                            \/ dirs' = [dirs EXCEPT ![d] = WithNew(dirs[d], p)]
      <4>1. \A p \in Listed(d, "dir") : p \in Path
        BY DEF Listed
      <4> QED
        BY <2>1, <4>1, EntryDirDoes
    <3>2. files' = files
      BY <2>1 DEF EntryDir
    <3>3. \A e \in Path : dirs'[e] = dirs[e] \/ dirs'[e] = WithNew(dirs[e], p)
      <4>1. CASE dirs' = dirs
        BY <4>1
      <4>2. CASE dirs' = [dirs EXCEPT ![d] = WithNew(dirs[d], p)]
        BY <1>1, <4>2
      <4> QED
        BY <3>1, <4>1, <4>2
    <3> QED
      BY <3>2, <3>3
  <2>2. CASE Asked(d)
    <3>1. PICK p \in Path : \/ files' = files
                            \/ files' = [files EXCEPT ![d] = WithNew(files[d], p)]
      <4>1. \A p \in Listed(d, "file") : p \in Path
        BY DEF Listed
      <4> QED
        BY <2>2, <4>1, AskedDoes
    <3>2. dirs' = dirs
      BY <2>2 DEF Asked
    <3>3. \A e \in Path : files'[e] = files[e] \/ files'[e] = WithNew(files[e], p)
      <4>1. CASE files' = files
        BY <4>1
      <4>2. CASE files' = [files EXCEPT ![d] = WithNew(files[d], p)]
        BY <1>1, <4>2
      <4> QED
        BY <3>1, <4>1, <4>2
    <3> QED
      BY <3>2, <3>3
  <2>3. CASE Get(d) \/ Got(d) \/ EntryFile(d) \/ Ask(d) \/ Descend(d) \/ Join(d) \/ RequestFails(d)
    BY <2>3 DEF Get, Got, EntryFile, Ask, Descend, Join, RequestFails
  <2> QED
    BY <2>1, <2>2, <2>3 DEF Sync
<1>3. ASSUME NEW e \in Path
      PROVE  IsPrefix(BaseDirs[e], dirs'[e]) /\ IsPrefix(BaseFiles[e], files'[e])
  <2>1. /\ BaseDirs[e] \in Seq(Path) /\ BaseFiles[e] \in Seq(Path)
        /\ dirs[e] \in Seq(Path) /\ files[e] \in Seq(Path)
    BY <1>1 DEF CrawlAssumption
  <2>2. IsPrefix(BaseDirs[e], dirs[e]) /\ IsPrefix(BaseFiles[e], files[e])
    BY DEF PrefixInv
  <2> QED
    BY <1>2, <2>1, <2>2, PrefixGrows
<1> QED
  BY <1>3 DEF PrefixInv
-----------------------------------------------------------------------------
(* The report, path by path.                                               *)

\* The listing of its directory has shown a path, and the loop is done with it.
Seen(p) ==
  /\ remote[p].kind # "none"
  /\ pc[Up[p]] \in {"listing", "waiting", "done"} \cup Requesting
  /\ p \notin ToSet(left[Up[p]])

\* The listing of its directory is at its end.
Summed(p) == pc[Up[p]] \in {"waiting", "done"}

WasDir(p) == p \in ToSet(BaseDirs[Up[p]])
WasFile(p) == p \in ToSet(BaseFiles[Up[p]])
InDirs(p) == p \in ToSet(dirs[Up[p]])
InFiles(p) == p \in ToSet(files[Up[p]])
Fits(p) == remote[p].size = size[p] \/ remote[p].shown = FormatRoughSize[size[p]]

\* What the report says of a path, and the tree, is what its baseline and the site
\* say, as far as the listing has got.
Accounted(p) ==
  /\ p \in report.addedDirs <=> (Seen(p) /\ remote[p].kind = "dir" /\ ~WasDir(p) /\ ~WasFile(p))
  /\ p \in report.addedFiles <=> (Seen(p) /\ remote[p].kind = "file" /\ ~WasDir(p) /\ ~WasFile(p))
  /\ InDirs(p) <=> (WasDir(p) \/ p \in report.addedDirs)
  /\ InFiles(p) <=> (WasFile(p) \/ p \in report.addedFiles)
  /\ p \in report.conflicts <=>
       (Seen(p) /\ ((remote[p].kind = "dir" /\ WasFile(p)) \/ (remote[p].kind = "file" /\ WasDir(p))))
  /\ p \in report.mismatches <=>
       (/\ Seen(p) /\ remote[p].kind = "file" /\ WasFile(p)
        /\ remote[p].shown # FormatRoughSize[BaseSize[p]])
  /\ p \in report.updatedFiles <=> (p \in report.mismatches /\ remote[p].size # BaseSize[p])
  /\ p \in report.missingDirs <=> (Summed(p) /\ WasDir(p) /\ remote[p].kind # "dir")
  /\ p \in report.missingFiles <=> (Summed(p) /\ WasFile(p) /\ remote[p].kind # "file")
  /\ (WasFile(p) /\ ~(Seen(p) /\ remote[p].kind = "file")) => size[p] = BaseSize[p]
  /\ (Seen(p) /\ remote[p].kind = "file" /\ InFiles(p)) => Fits(p)

AccountInv == \A p \in Within : pc[Up[p]] # "failed" => Accounted(p)

\* The report says the same of a path after a step.
SameReport(p) ==
  /\ p \in report'.addedDirs <=> p \in report.addedDirs
  /\ p \in report'.addedFiles <=> p \in report.addedFiles
  /\ p \in report'.conflicts <=> p \in report.conflicts
  /\ p \in report'.mismatches <=> p \in report.mismatches
  /\ p \in report'.updatedFiles <=> p \in report.updatedFiles
  /\ p \in report'.missingDirs <=> p \in report.missingDirs
  /\ p \in report'.missingFiles <=> p \in report.missingFiles

LEMMA AccountStart == ASSUME Init, CrawlAssumption PROVE AccountInv
<1> SUFFICES ASSUME NEW p \in Within PROVE Accounted(p)
  BY DEF AccountInv
<1>1. Up[p] \in Path
  BY DEF Within, CrawlAssumption
<1>2. pc[Up[p]] \in {"none", "queued"}
  BY <1>1 DEF Init, CrawlInit
<1>3. ~Seen(p) /\ ~Summed(p)
  BY <1>2 DEF Seen, Summed, Requesting
<1>4. dirs = BaseDirs /\ files = BaseFiles /\ size = BaseSize
  BY DEF Init, CrawlInit
<1>5. /\ report.addedDirs = {} /\ report.addedFiles = {} /\ report.conflicts = {}
      /\ report.mismatches = {} /\ report.updatedFiles = {} /\ report.missingDirs = {}
      /\ report.missingFiles = {}
  BY DEF Init, CrawlInit, EmptyReport
<1>6. (InDirs(p) <=> WasDir(p)) /\ (InFiles(p) <=> WasFile(p))
  BY <1>4 DEF InDirs, InFiles, WasDir, WasFile
<1>7. size[p] = BaseSize[p]
  BY <1>4
<1> QED
  BY <1>3, <1>5, <1>6, <1>7 DEF Accounted

\* A path of which a step changes nothing the account is about.
LEMMA AccountSame ==
  ASSUME NEW p \in Within, Accounted(p), SameReport(p), remote' = remote, size'[p] = size[p],
         Seen(p)' <=> Seen(p), Summed(p)' <=> Summed(p),
         InDirs(p)' <=> InDirs(p), InFiles(p)' <=> InFiles(p)
  PROVE  Accounted(p)'
<1>1. (WasDir(p)' <=> WasDir(p)) /\ (WasFile(p)' <=> WasFile(p))
  BY DEF WasDir, WasFile
<1>2. Fits(p)' <=> Fits(p)
  BY DEF Fits
<1> QED
  BY <1>1, <1>2 DEF Accounted, SameReport

\* A step of another directory's goroutine.
LEMMA AccountElsewhere ==
  ASSUME NEW d \in Path, Elsewhere(d), NEW p \in Within, Up[p] # d, SameReport(p),
         AccountInv, CrawlAssumption
  PROVE  pc'[Up[p]] # "failed" => Accounted(p)'
<1>1. Up[p] \in Path \ {d}
  BY DEF Within, CrawlAssumption
<1>2. /\ remote' = remote /\ size'[p] = size[p] /\ pc'[Up[p]] = pc[Up[p]]
      /\ left'[Up[p]] = left[Up[p]] /\ dirs'[Up[p]] = dirs[Up[p]] /\ files'[Up[p]] = files[Up[p]]
  BY <1>1 DEF Elsewhere, Within
<1>3. /\ Seen(p)' <=> Seen(p)
      /\ Summed(p)' <=> Summed(p)
      /\ InDirs(p)' <=> InDirs(p)
      /\ InFiles(p)' <=> InFiles(p)
  BY <1>2 DEF Seen, Summed, InDirs, InFiles
<1> QED
  BY <1>2, <1>3, AccountSame DEF AccountInv

\* A step of a goroutine that is through with nothing new and says nothing.
LEMMA AccountQuiet ==
  ASSUME NEW d \in Path, Elsewhere(d), AccountInv, CrawlAssumption,
         size' = size, dirs' = dirs, files' = files,
         \A p \in Within : SameReport(p),
         \A p \in Within : Up[p] = d /\ pc'[d] # "failed" =>
           /\ pc[d] # "failed"
           /\ Seen(p)' <=> Seen(p)
           /\ Summed(p)' <=> Summed(p)
  PROVE  AccountInv'
<1> SUFFICES ASSUME NEW p \in Within, pc'[Up[p]] # "failed"
             PROVE  Accounted(p)'
  BY DEF AccountInv
<1>1. CASE Up[p] # d
  BY <1>1, AccountElsewhere
<1>2. CASE Up[p] = d
  <2>1. (InDirs(p)' <=> InDirs(p)) /\ (InFiles(p)' <=> InFiles(p)) /\ size'[p] = size[p]
    BY DEF InDirs, InFiles
  <2>2. remote' = remote
    BY DEF Elsewhere
  <2>3. Accounted(p)
    BY <1>2 DEF AccountInv
  <2>4. (Seen(p)' <=> Seen(p)) /\ (Summed(p)' <=> Summed(p))
    BY <1>2
  <2> QED
    BY <2>1, <2>2, <2>3, <2>4, AccountSame
<1> QED
  BY <1>1, <1>2

LEMMA GetAccounts ==
  ASSUME CrawlInv, AccountInv, NEW d \in Path, Get(d), CrawlAssumption
  PROVE  AccountInv'
<1>1. pc \in [Path -> {"none", "queued", "getting", "listing", "asking", "heading", "waiting",
                       "done", "failed"}]
  BY DEF CrawlInv, CrawlTypes
<1>2. /\ UNCHANGED <<remote, dirs, files, size, left, report>>
      /\ pc[d] = "queued" /\ pc'[d] = "getting"
  BY <1>1 DEF Get, GoTo
<1>3. \A p \in Within : SameReport(p)
  BY <1>2 DEF SameReport
<1>4. \A p \in Within : Up[p] = d => ~Seen(p) /\ ~Seen(p)' /\ ~Summed(p) /\ ~Summed(p)'
  BY <1>2 DEF Seen, Summed, Requesting
<1> QED
  BY <1>2, <1>3, <1>4, GetKeeps, AccountQuiet

LEMMA AskAccounts ==
  ASSUME CrawlInv, AccountInv, NEW d \in Path, Ask(d), CrawlAssumption
  PROVE  AccountInv'
<1>1. pc \in [Path -> {"none", "queued", "getting", "listing", "asking", "heading", "waiting",
                       "done", "failed"}]
  BY DEF CrawlInv, CrawlTypes
<1>2. /\ UNCHANGED <<remote, dirs, files, size, left, report>>
      /\ pc[d] = "asking" /\ pc'[d] = "heading"
  BY <1>1 DEF Ask, GoTo
<1>3. \A p \in Within : SameReport(p)
  BY <1>2 DEF SameReport
<1>4. \A p \in Within : Up[p] = d => (Seen(p)' <=> Seen(p)) /\ ~Summed(p) /\ ~Summed(p)'
  BY <1>2 DEF Seen, Summed, Requesting
<1> QED
  BY <1>2, <1>3, <1>4, AskKeeps, AccountQuiet

LEMMA JoinAccounts ==
  ASSUME CrawlInv, GoInv, AccountInv, NEW d \in Path, Join(d), CrawlAssumption
  PROVE  AccountInv'
<1>1. pc \in [Path -> {"none", "queued", "getting", "listing", "asking", "heading", "waiting",
                       "done", "failed"}]
  BY DEF CrawlInv, CrawlTypes
<1>2. /\ UNCHANGED <<remote, dirs, files, size, left, report>>
      /\ pc[d] = "waiting" /\ pc'[d] \in {"done", "failed"}
  BY <1>1 DEF Join, GoTo
<1>3. \A p \in Within : SameReport(p)
  BY <1>2 DEF SameReport
<1>4. ASSUME NEW p \in Within, Up[p] = d, pc'[d] # "failed"
      PROVE  (Seen(p)' <=> Seen(p)) /\ (Summed(p)' <=> Summed(p))
  <2>1. pc'[d] = "done"
    BY <1>2, <1>4
  <2> QED
    BY <1>2, <1>4, <2>1 DEF Seen, Summed, Requesting
<1> QED
  BY <1>2, <1>3, <1>4, JoinKeeps, AccountQuiet

LEMMA FailAccounts ==
  ASSUME CrawlInv, AccountInv, NEW d \in Path, RequestFails(d), CrawlAssumption
  PROVE  AccountInv'
<1>1. pc \in [Path -> {"none", "queued", "getting", "listing", "asking", "heading", "waiting",
                       "done", "failed"}]
  BY DEF CrawlInv, CrawlTypes
<1>2. UNCHANGED <<remote, dirs, files, size, report>> /\ pc'[d] = "failed"
  BY <1>1 DEF RequestFails, GoTo
<1>3. \A p \in Within : SameReport(p)
  BY <1>2 DEF SameReport
<1> QED
  BY <1>2, <1>3, FailKeeps, AccountQuiet

\* A listing comes: whatever the site has in the directory is left to be handled.
LEMMA GotAccounts ==
  ASSUME CrawlInv, AccountInv, NEW d \in Path, Got(d), CrawlAssumption
  PROVE  AccountInv'
<1>1. /\ pc \in [Path -> {"none", "queued", "getting", "listing", "asking", "heading", "waiting",
                          "done", "failed"}]
      /\ left \in [Path -> Seq(Path \ {Root})] /\ report \in Reports
      /\ remote \in [Path \ {Root} -> Remote]
  BY DEF CrawlInv, CrawlTypes
<1>2. /\ UNCHANGED <<remote, dirs, files, size>>
      /\ pc[d] = "getting" /\ pc'[d] = "listing" /\ left'[d] = Listing(d)
  BY <1>1 DEF Got, GoTo
<1>3. report' = report \/ report' = [report EXCEPT !.emptyDirs = @ \cup {d}]
  BY DEF Got
<1>4. \A p \in Within : SameReport(p)
  <2>1. CASE report' = report
    BY <2>1 DEF SameReport
  <2>2. CASE report' = [report EXCEPT !.emptyDirs = @ \cup {d}]
    BY <1>1, <2>2 DEF SameReport, Reports
  <2> QED
    BY <1>3, <2>1, <2>2
<1>5. ToSet(left'[d]) = Listed(d, "dir") \cup Listed(d, "file")
  BY <1>2, ListingIs
<1>6. ASSUME NEW p \in Within, Up[p] = d
      PROVE  ~Seen(p) /\ ~Seen(p)' /\ ~Summed(p) /\ ~Summed(p)'
  <2>1. remote[p].kind \in {"none", "dir", "file"}
    BY <1>1 DEF Within, Remote
  <2>2. remote[p].kind # "none" => p \in ToSet(left'[d])
    BY <1>5, <1>6, <2>1 DEF Listed, Within
  <2> QED
    BY <1>2, <1>6, <2>2 DEF Seen, Summed, Requesting
<1> QED
  BY <1>2, <1>4, <1>6, GotKeeps, AccountQuiet
\* A step that is through with one entry: the others stay as they were.
LEMMA AccountOthers ==
  ASSUME NEW d \in Path, Elsewhere(d), AccountInv, CrawlAssumption, NEW h \in Within, Up[h] = d,
         ToSet(left'[d]) = ToSet(left[d]) \ {h},
         pc[d] \in {"listing"} \cup Requesting, pc'[d] \in {"listing"} \cup Requesting,
         NEW p \in Within, p # h, SameReport(p), size'[p] = size[p],
         InDirs(p)' <=> InDirs(p), InFiles(p)' <=> InFiles(p)
  PROVE  pc'[Up[p]] # "failed" => Accounted(p)'
<1>1. CASE Up[p] # d
  BY <1>1, AccountElsewhere
<1>2. CASE Up[p] = d
  <2>1. Accounted(p)
    BY <1>2 DEF AccountInv, Requesting
  <2>2. remote' = remote
    BY DEF Elsewhere
  <2>3. Seen(p)' <=> Seen(p)
    BY <1>2, <2>2 DEF Seen
  <2>4. ~Summed(p) /\ ~Summed(p)'
    BY <1>2 DEF Summed, Requesting
  <2> QED
    BY <2>1, <2>2, <2>3, <2>4, AccountSame
<1> QED
  BY <1>1, <1>2

\* The account of the entry itself, before and after.
LEMMA HeadSeen ==
  ASSUME NEW d \in Path, Elsewhere(d), NEW h \in Within, Up[h] = d, h \in ToSet(left[d]),
         remote[h].kind # "none", ToSet(left'[d]) = ToSet(left[d]) \ {h},
         pc[d] \in {"listing"} \cup Requesting, pc'[d] \in {"listing"} \cup Requesting
  PROVE  ~Seen(h) /\ Seen(h)' /\ ~Summed(h) /\ ~Summed(h)' /\ remote' = remote
BY DEF Seen, Summed, Requesting, Elsewhere

LEMMA EntryDirAccounts ==
  ASSUME CrawlInv, AccountInv, NEW d \in Path, EntryDir(d), CrawlAssumption
  PROVE  AccountInv'
<1>1. PICK h \in Listed(d, "dir") \cap ToSet(left[d]) :
           /\ remote' = remote /\ files' = files /\ size' = size /\ pc' = pc /\ faults' = faults
           /\ pc[d] = "listing"
           /\ left' = [left EXCEPT ![d] = Tail(@)] /\ left[d] # <<>>
           /\ left'[d] \in Seq(Path \ {Root}) /\ Distinct(left'[d])
           /\ ToSet(left'[d]) = ToSet(left[d]) \ {h}
           /\ Elsewhere(d)
           /\ \/ /\ h \in ToSet(files[d]) /\ dirs' = dirs
                 /\ report' = [report EXCEPT !.conflicts = @ \cup {h}]
              \/ /\ h \notin ToSet(files[d]) /\ h \in ToSet(dirs[d])
                 /\ dirs' = dirs /\ report' = report
              \/ /\ h \notin ToSet(files[d]) /\ h \notin ToSet(dirs[d])
                 /\ dirs' = [dirs EXCEPT ![d] = WithNew(@, h)]
                 /\ report' = [report EXCEPT !.addedDirs = @ \cup {h}]
  BY EntryDirDoes
<1>2. h \in Within /\ Up[h] = d /\ h \in ToSet(left[d]) /\ remote[h].kind = "dir" /\ h \in Path
  BY DEF Listed, Within
<1>3. report \in Reports /\ dirs \in [Path -> Seq(Path)]
  BY DEF CrawlInv, CrawlTypes
<1>4. pc[d] = "listing" /\ pc'[d] = "listing" /\ Elsewhere(d) /\ remote' = remote /\ size' = size
      /\ ToSet(left'[d]) = ToSet(left[d]) \ {h}
  BY <1>1
<1>5. ~Seen(h) /\ Seen(h)' /\ ~Summed(h) /\ ~Summed(h)'
  BY <1>2, <1>4, HeadSeen
<1>6. Accounted(h)
  BY <1>2, <1>4 DEF AccountInv
<1>7. /\ \A p \in Within \ {h} : SameReport(p)
      /\ \A p \in Within \ {h} : InDirs(p)' <=> InDirs(p)
      /\ \/ InFiles(h) /\ (InDirs(h)' <=> InDirs(h)) /\ h \in report'.conflicts
            /\ (h \in report'.addedDirs <=> h \in report.addedDirs)
         \/ ~InFiles(h) /\ InDirs(h) /\ InDirs(h)'
            /\ (h \in report'.conflicts <=> h \in report.conflicts)
            /\ (h \in report'.addedDirs <=> h \in report.addedDirs)
         \/ ~InFiles(h) /\ ~InDirs(h) /\ InDirs(h)'
            /\ (h \in report'.conflicts <=> h \in report.conflicts) /\ h \in report'.addedDirs
      /\ h \in report'.addedFiles <=> h \in report.addedFiles
      /\ h \in report'.mismatches <=> h \in report.mismatches
      /\ h \in report'.updatedFiles <=> h \in report.updatedFiles
      /\ h \in report'.missingDirs <=> h \in report.missingDirs
      /\ h \in report'.missingFiles <=> h \in report.missingFiles
  <2>1. CASE /\ h \in ToSet(files[d]) /\ dirs' = dirs
             /\ report' = [report EXCEPT !.conflicts = @ \cup {h}]
    <3>1. /\ report'.conflicts = report.conflicts \cup {h}
          /\ report'.addedDirs = report.addedDirs /\ report'.addedFiles = report.addedFiles
          /\ report'.mismatches = report.mismatches /\ report'.updatedFiles = report.updatedFiles
          /\ report'.missingDirs = report.missingDirs /\ report'.missingFiles = report.missingFiles
      BY <1>3, <2>1 DEF Reports
    <3> QED
      BY <1>2, <2>1, <3>1 DEF SameReport, InDirs, InFiles
  <2>2. CASE /\ h \notin ToSet(files[d]) /\ h \in ToSet(dirs[d])
             /\ dirs' = dirs /\ report' = report
    BY <1>2, <2>2 DEF SameReport, InDirs, InFiles
  <2>3. CASE /\ h \notin ToSet(files[d]) /\ h \notin ToSet(dirs[d])
             /\ dirs' = [dirs EXCEPT ![d] = WithNew(@, h)]
             /\ report' = [report EXCEPT !.addedDirs = @ \cup {h}]
    <3>1. /\ report'.addedDirs = report.addedDirs \cup {h}
          /\ report'.conflicts = report.conflicts /\ report'.addedFiles = report.addedFiles
          /\ report'.mismatches = report.mismatches /\ report'.updatedFiles = report.updatedFiles
          /\ report'.missingDirs = report.missingDirs /\ report'.missingFiles = report.missingFiles
      BY <1>3, <2>3 DEF Reports
    <3>2. ToSet(WithNew(dirs[d], h)) = ToSet(dirs[d]) \cup {h}
      <4>1. dirs[d] \in Seq(Path) /\ h \in Path
        BY <1>2, <1>3
      <4> QED
        BY <4>1, AppendAdds
    <3>3. dirs'[d] = WithNew(dirs[d], h) /\ \A e \in Path \ {d} : dirs'[e] = dirs[e]
      BY <1>3, <2>3
    <3>4. \A p \in Within : Up[p] \in Path
      BY DEF Within, CrawlAssumption
    <3>5. \A p \in Within \ {h} : InDirs(p)' <=> InDirs(p)
      BY <3>2, <3>3, <3>4 DEF InDirs
    <3>6. ~InFiles(h) /\ ~InDirs(h) /\ InDirs(h)'
      BY <1>2, <2>3, <3>2, <3>3 DEF InDirs, InFiles
    <3> QED
      BY <3>1, <3>5, <3>6 DEF SameReport
  <2> QED
    BY <1>1, <2>1, <2>2, <2>3
<1>8. \A p \in Within : InFiles(p)' <=> InFiles(p)
  BY <1>1 DEF InFiles
<1>9. Accounted(h)'
  <2>1. (WasDir(h)' <=> WasDir(h)) /\ (WasFile(h)' <=> WasFile(h))
    BY DEF WasDir, WasFile
  <2>2. ~(WasDir(h) /\ WasFile(h))
    BY <1>2 DEF WasDir, WasFile, CrawlAssumption
  <2>3. remote[h]' = remote[h] /\ size[h]' = size[h] /\ remote[h].kind = "dir"
    BY <1>2, <1>4
  <2>4. remote'[h].kind = "dir"
    BY <2>3
  <2> QED
    BY <1>2, <1>4, <1>5, <1>6, <1>7, <1>8, <2>1, <2>2, <2>4 DEF Accounted
<1>10. ASSUME NEW p \in Within, pc'[Up[p]] # "failed"
       PROVE  Accounted(p)'
  <2>1. CASE p = h
    BY <1>9, <2>1
  <2>2. CASE p # h
    BY <1>2, <1>4, <1>7, <1>8, <1>10, <2>2, AccountOthers
  <2> QED
    BY <2>1, <2>2
<1> QED
  BY <1>10 DEF AccountInv
LEMMA EntryFileAccounts ==
  ASSUME CrawlInv, AccountInv, NEW d \in Path, EntryFile(d), CrawlAssumption
  PROVE  AccountInv'
<1>1. PICK h \in Listed(d, "file") \cap ToSet(left[d]) :
        /\ h = Head(left[d])
        /\ \/ /\ left' = [left EXCEPT ![d] = Tail(@)] /\ pc' = pc
              /\ left'[d] \in Seq(Path \ {Root}) /\ Distinct(left'[d])
              /\ ToSet(left'[d]) = ToSet(left[d]) \ {h}
              /\ \/ /\ h \in ToSet(dirs[d])
                    /\ report' = [report EXCEPT !.conflicts = @ \cup {h}]
                 \/ h \notin ToSet(dirs[d]) /\ Known(h, d) /\ report' = report
           \/ /\ h \notin ToSet(dirs[d]) /\ ~Known(h, d) /\ report' = report
              /\ left' = left /\ pc' = [pc EXCEPT ![d] = "asking"]
  BY EntryFileDoes
<1>2. /\ remote' = remote /\ dirs' = dirs /\ files' = files /\ size' = size
      /\ pc[d] = "listing" /\ Elsewhere(d)
  BY EntryFileDoes
<1>3. h \in Within /\ Up[h] = d /\ h \in ToSet(left[d]) /\ remote[h].kind = "file" /\ h \in Path
  BY DEF Listed, Within
<1>4. report \in Reports /\ DOMAIN pc = Path
  BY DEF CrawlInv, CrawlTypes
<1>5. \A p \in Within : (InDirs(p)' <=> InDirs(p)) /\ (InFiles(p)' <=> InFiles(p))
  BY <1>2 DEF InDirs, InFiles
<1>6. CASE report' = report /\ left' = left /\ pc' = [pc EXCEPT ![d] = "asking"]
  <2>1. pc'[d] = "asking"
    BY <1>4, <1>6
  <2>2. \A p \in Within : SameReport(p)
    BY <1>6 DEF SameReport
  <2>3. \A p \in Within : Up[p] = d => (Seen(p)' <=> Seen(p)) /\ ~Summed(p) /\ ~Summed(p)'
    BY <1>2, <1>6, <2>1 DEF Seen, Summed, Requesting
  <2> QED
    BY <1>2, <2>2, <2>3, AccountQuiet
<1>7. CASE /\ pc' = pc /\ ToSet(left'[d]) = ToSet(left[d]) \ {h}
           /\ \/ /\ h \in ToSet(dirs[d])
                 /\ report' = [report EXCEPT !.conflicts = @ \cup {h}]
              \/ h \notin ToSet(dirs[d]) /\ Known(h, d) /\ report' = report
  <2>1. pc[d] = "listing" /\ pc'[d] = "listing"
    BY <1>2, <1>7
  <2>2. ~Seen(h) /\ Seen(h)' /\ ~Summed(h) /\ ~Summed(h)'
    BY <1>2, <1>3, <1>7, <2>1, HeadSeen
  <2>3. Accounted(h)
    BY <1>3, <2>1 DEF AccountInv
  <2>4. /\ \A p \in Within \ {h} : SameReport(p)
        /\ \/ InDirs(h) /\ h \in report'.conflicts
           \/ ~InDirs(h) /\ Known(h, d) /\ (h \in report'.conflicts <=> h \in report.conflicts)
        /\ h \in report'.addedDirs <=> h \in report.addedDirs
        /\ h \in report'.addedFiles <=> h \in report.addedFiles
        /\ h \in report'.mismatches <=> h \in report.mismatches
        /\ h \in report'.updatedFiles <=> h \in report.updatedFiles
        /\ h \in report'.missingDirs <=> h \in report.missingDirs
        /\ h \in report'.missingFiles <=> h \in report.missingFiles
    <3>1. CASE /\ h \in ToSet(dirs[d])
               /\ report' = [report EXCEPT !.conflicts = @ \cup {h}]
      <4>1. /\ report'.conflicts = report.conflicts \cup {h}
            /\ report'.addedDirs = report.addedDirs /\ report'.addedFiles = report.addedFiles
            /\ report'.mismatches = report.mismatches
            /\ report'.updatedFiles = report.updatedFiles
            /\ report'.missingDirs = report.missingDirs
            /\ report'.missingFiles = report.missingFiles
        BY <1>4, <3>1 DEF Reports
      <4> QED
        BY <1>3, <3>1, <4>1 DEF SameReport, InDirs
    <3>2. CASE h \notin ToSet(dirs[d]) /\ Known(h, d) /\ report' = report
      BY <1>3, <3>2 DEF SameReport, InDirs
    <3> QED
      BY <1>7, <3>1, <3>2
  <2>5. Accounted(h)'
    <3>1. (WasDir(h)' <=> WasDir(h)) /\ (WasFile(h)' <=> WasFile(h)) /\ (Fits(h)' <=> Fits(h))
      BY <1>2 DEF WasDir, WasFile, Fits
    <3>2. ~(WasDir(h) /\ WasFile(h)) /\ ~(InDirs(h) /\ InFiles(h))
      <4>1. ToSet(dirs[d]) \cap ToSet(files[d]) = {}
        BY DEF CrawlInv, EntriesInv, EntriesOK
      <4> QED
        BY <1>3, <4>1 DEF WasDir, WasFile, InDirs, InFiles, CrawlAssumption
    <3>3. Known(h, d) => InFiles(h) /\ Fits(h) /\ remote[h].shown = FormatRoughSize[size[h]]
      BY <1>3 DEF Known, InFiles, Fits
    <3>4. remote'[h].kind = "file" /\ remote'[h] = remote[h] /\ size'[h] = size[h]
          /\ remote'[h].shown = remote[h].shown
      BY <1>2, <1>3
    <3>5. (InDirs(h)' <=> InDirs(h)) /\ (InFiles(h)' <=> InFiles(h))
      BY <1>3, <1>5
    <3>6. WasFile(h) => size[h] = BaseSize[h]
      BY <2>2, <2>3 DEF Accounted
    <3>7. CASE InDirs(h) /\ h \in report'.conflicts
      BY <1>3, <2>2, <2>3, <2>4, <3>1, <3>2, <3>4, <3>5, <3>7 DEF Accounted
    <3>8. CASE ~InDirs(h) /\ Known(h, d) /\ (h \in report'.conflicts <=> h \in report.conflicts)
      BY <1>3, <2>2, <2>3, <2>4, <3>1, <3>2, <3>3, <3>4, <3>5, <3>6, <3>8 DEF Accounted
    <3> QED
      BY <2>4, <3>7, <3>8
  <2>6. ASSUME NEW p \in Within, pc'[Up[p]] # "failed"
        PROVE  Accounted(p)'
    <3>1. CASE p = h
      BY <2>5, <3>1
    <3>2. CASE p # h
      BY <1>2, <1>3, <1>5, <1>7, <2>1, <2>4, <2>6, <3>2, AccountOthers
    <3> QED
      BY <3>1, <3>2
  <2> QED
    BY <2>6 DEF AccountInv
<1> QED
  BY <1>1, <1>6, <1>7

LEMMA AskedAccounts ==
  ASSUME CrawlInv, AccountInv, NEW d \in Path, Asked(d), CrawlAssumption
  PROVE  AccountInv'
<1>1. PICK h \in Listed(d, "file") \cap ToSet(left[d]) :
           /\ h \notin ToSet(dirs[d]) /\ ~Known(h, d)
           /\ remote' = remote /\ dirs' = dirs /\ faults' = faults
           /\ pc[d] = "heading" /\ pc' = [pc EXCEPT ![d] = "listing"]
           /\ left' = [left EXCEPT ![d] = Tail(@)] /\ left[d] # <<>>
           /\ left'[d] \in Seq(Path \ {Root}) /\ Distinct(left'[d])
           /\ ToSet(left'[d]) = ToSet(left[d]) \ {h}
           /\ size' = [size EXCEPT ![h] = remote[h].size]
           /\ Elsewhere(d)
           /\ \/ /\ h \notin ToSet(files[d])
                 /\ files' = [files EXCEPT ![d] = WithNew(@, h)]
                 /\ report' = [report EXCEPT !.addedFiles = @ \cup {h}]
              \/ /\ h \in ToSet(files[d]) /\ files' = files
                 /\ report' = [report EXCEPT
                                 !.mismatches = @ \cup {h},
                                 !.updatedFiles = IF remote[h].size = size[h] THEN @ ELSE @ \cup {h}]
  BY AskedDoes
<1>2. h \in Within /\ Up[h] = d /\ h \in ToSet(left[d]) /\ remote[h].kind = "file" /\ h \in Path
  BY DEF Listed, Within
<1>3. report \in Reports /\ files \in [Path -> Seq(Path)] /\ DOMAIN pc = Path /\ DOMAIN size = Path
  BY DEF CrawlInv, CrawlTypes
<1>4. pc[d] = "heading" /\ pc'[d] = "listing" /\ Elsewhere(d) /\ remote' = remote /\ dirs' = dirs
      /\ ToSet(left'[d]) = ToSet(left[d]) \ {h} /\ ~Known(h, d)
  BY <1>1, <1>3
<1>5. ~Seen(h) /\ Seen(h)' /\ ~Summed(h) /\ ~Summed(h)'
  BY <1>2, <1>4, HeadSeen DEF Requesting
<1>6. Accounted(h)
  BY <1>2, <1>4 DEF AccountInv
<1>7. size'[h] = remote[h].size /\ \A p \in Within \ {h} : size'[p] = size[p]
  BY <1>1, <1>2, <1>3 DEF Within
<1>8. /\ \A p \in Within \ {h} : SameReport(p)
      /\ \A p \in Within \ {h} : InFiles(p)' <=> InFiles(p)
      /\ InFiles(h)'
      /\ \/ ~InFiles(h) /\ h \in report'.addedFiles
            /\ (h \in report'.mismatches <=> h \in report.mismatches)
            /\ (h \in report'.updatedFiles <=> h \in report.updatedFiles)
         \/ InFiles(h) /\ h \in report'.mismatches
            /\ (h \in report'.updatedFiles <=>
                  (h \in report.updatedFiles \/ remote[h].size # size[h]))
            /\ (h \in report'.addedFiles <=> h \in report.addedFiles)
      /\ h \in report'.addedDirs <=> h \in report.addedDirs
      /\ h \in report'.conflicts <=> h \in report.conflicts
      /\ h \in report'.missingDirs <=> h \in report.missingDirs
      /\ h \in report'.missingFiles <=> h \in report.missingFiles
  <2>1. CASE /\ h \notin ToSet(files[d])
             /\ files' = [files EXCEPT ![d] = WithNew(@, h)]
             /\ report' = [report EXCEPT !.addedFiles = @ \cup {h}]
    <3>1. /\ report'.addedFiles = report.addedFiles \cup {h}
          /\ report'.conflicts = report.conflicts /\ report'.addedDirs = report.addedDirs
          /\ report'.mismatches = report.mismatches /\ report'.updatedFiles = report.updatedFiles
          /\ report'.missingDirs = report.missingDirs /\ report'.missingFiles = report.missingFiles
      BY <1>3, <2>1 DEF Reports
    <3>2. ToSet(WithNew(files[d], h)) = ToSet(files[d]) \cup {h}
      <4>1. files[d] \in Seq(Path) /\ h \in Path
        BY <1>2, <1>3
      <4> QED
        BY <4>1, AppendAdds
    <3>3. files'[d] = WithNew(files[d], h) /\ \A e \in Path \ {d} : files'[e] = files[e]
      BY <1>3, <2>1
    <3>4. \A p \in Within : Up[p] \in Path
      BY DEF Within, CrawlAssumption
    <3>5. \A p \in Within \ {h} : InFiles(p)' <=> InFiles(p)
      BY <3>2, <3>3, <3>4 DEF InFiles
    <3>6. ~InFiles(h) /\ InFiles(h)'
      BY <1>2, <2>1, <3>2, <3>3 DEF InFiles
    <3> QED
      BY <3>1, <3>5, <3>6 DEF SameReport
  <2>2. CASE /\ h \in ToSet(files[d]) /\ files' = files
             /\ report' = [report EXCEPT
                             !.mismatches = @ \cup {h},
                             !.updatedFiles = IF remote[h].size = size[h] THEN @ ELSE @ \cup {h}]
    <3>1. /\ report'.addedFiles = report.addedFiles
          /\ report'.conflicts = report.conflicts /\ report'.addedDirs = report.addedDirs
          /\ report'.mismatches = report.mismatches \cup {h}
          /\ report'.updatedFiles = IF remote[h].size = size[h] THEN report.updatedFiles
                                    ELSE report.updatedFiles \cup {h}
          /\ report'.missingDirs = report.missingDirs /\ report'.missingFiles = report.missingFiles
      BY <1>3, <2>2 DEF Reports
    <3>2. \A p \in Within : InFiles(p)' <=> InFiles(p)
      BY <2>2 DEF InFiles
    <3>3. InFiles(h)
      BY <1>2, <2>2 DEF InFiles
    <3>4. \A p \in Within \ {h} : SameReport(p)
      BY <3>1 DEF SameReport
    <3>5. h \in report'.updatedFiles <=> (h \in report.updatedFiles \/ remote[h].size # size[h])
      BY <3>1
    <3>6. h \in report'.mismatches
      BY <3>1
    <3> QED
      BY <1>2, <3>1, <3>2, <3>3, <3>4, <3>5, <3>6
  <2> QED
    BY <1>1, <2>1, <2>2
<1>9. \A p \in Within : InDirs(p)' <=> InDirs(p)
  BY <1>4 DEF InDirs
<1>10. Accounted(h)'
  <2>1. (WasDir(h)' <=> WasDir(h)) /\ (WasFile(h)' <=> WasFile(h))
    BY DEF WasDir, WasFile
  <2>2. ~InDirs(h)
    BY <1>1, <1>2 DEF InDirs
  <2>3. remote'[h].kind = "file" /\ remote'[h].size = remote[h].size
        /\ remote'[h].shown = remote[h].shown
    BY <1>2, <1>4
  <2>4. Fits(h)'
    BY <1>4, <1>7 DEF Fits
  <2>5. WasFile(h) => size[h] = BaseSize[h]
    BY <1>5, <1>6 DEF Accounted
  <2>6. InFiles(h) => remote[h].shown # FormatRoughSize[size[h]]
    BY <1>2, <1>4 DEF Known, InFiles
  <2>7. ~WasDir(h) /\ (InFiles(h) <=> WasFile(h))
    BY <1>5, <1>6, <2>2 DEF Accounted
  <2>8. CASE ~InFiles(h) /\ h \in report'.addedFiles
             /\ (h \in report'.mismatches <=> h \in report.mismatches)
             /\ (h \in report'.updatedFiles <=> h \in report.updatedFiles)
    BY <1>2, <1>5, <1>6, <1>8, <1>9, <2>1, <2>3, <2>4, <2>7, <2>8 DEF Accounted
  <2>9. CASE InFiles(h) /\ h \in report'.mismatches
             /\ (h \in report'.updatedFiles <=>
                  (h \in report.updatedFiles \/ remote[h].size # size[h]))
             /\ (h \in report'.addedFiles <=> h \in report.addedFiles)
    BY <1>2, <1>5, <1>6, <1>8, <1>9, <2>1, <2>3, <2>4, <2>5, <2>6, <2>7, <2>9 DEF Accounted
  <2> QED
    BY <1>8, <2>8, <2>9
<1>11. ASSUME NEW p \in Within, pc'[Up[p]] # "failed"
       PROVE  Accounted(p)'
  <2>1. CASE p = h
    BY <1>10, <2>1
  <2>2. CASE p # h
    <3>1. pc[d] \in {"listing"} \cup Requesting /\ pc'[d] \in {"listing"} \cup Requesting
      BY <1>4 DEF Requesting
    <3>2. /\ SameReport(p) /\ size'[p] = size[p]
          /\ InDirs(p)' <=> InDirs(p)
          /\ InFiles(p)' <=> InFiles(p)
      BY <1>7, <1>8, <1>9, <2>2
    <3> QED
      BY <1>2, <1>4, <1>11, <2>2, <3>1, <3>2, AccountOthers
  <2> QED
    BY <2>1, <2>2
<1> QED
  BY <1>11 DEF AccountInv

\* The end of a listing: what only the tree has is missing.
LEMMA DescendAccounts ==
  ASSUME CrawlInv, GoInv, AccountInv, NEW d \in Path, Descend(d), CrawlAssumption
  PROVE  AccountInv'
<1>1. /\ remote' = remote /\ dirs' = dirs /\ files' = files /\ size' = size /\ left' = left
      /\ pc[d] = "listing" /\ left[d] = <<>> /\ pc'[d] = "waiting"
  BY DescendDoes
<1>2. \A e \in Path \ {d} : pc'[e] = pc[e] \/ (pc[e] = "none" /\ pc'[e] = "queued")
  BY DescendDoes
<1>3. report \in Reports
  BY DEF CrawlInv, CrawlTypes
<1>4. /\ report'.missingDirs = report.missingDirs \cup (ToSet(dirs[d]) \ Listed(d, "dir"))
      /\ report'.missingFiles = report.missingFiles \cup (ToSet(files[d]) \ Listed(d, "file"))
      /\ report'.addedFiles = report.addedFiles
      /\ report'.conflicts = report.conflicts /\ report'.addedDirs = report.addedDirs
      /\ report'.mismatches = report.mismatches /\ report'.updatedFiles = report.updatedFiles
  BY <1>3 DEF Reports, Descend
<1>5. EntriesOK(d)
  BY DEF CrawlInv, EntriesInv
<1>6. \A p \in Within :
        /\ WasDir(p)' <=> WasDir(p)
        /\ WasFile(p)' <=> WasFile(p)
        /\ InDirs(p)' <=> InDirs(p)
        /\ InFiles(p)' <=> InFiles(p)
        /\ Fits(p)' <=> Fits(p)
  BY <1>1 DEF WasDir, WasFile, InDirs, InFiles, Fits
<1>7. ASSUME NEW p \in Within, pc'[Up[p]] # "failed", Up[p] # d
      PROVE  Accounted(p)'
  <2>1. Up[p] \in Path \ {d}
    BY <1>7 DEF Within, CrawlAssumption
  <2>2. p \notin ToSet(dirs[d]) /\ p \notin ToSet(files[d])
    BY <1>5, <1>7 DEF EntriesOK
  <2>3. SameReport(p)
    BY <1>4, <2>2 DEF SameReport
  <2>4. (Seen(p)' <=> Seen(p)) /\ (Summed(p)' <=> Summed(p)) /\ Accounted(p)
    <3>1. CASE pc'[Up[p]] = pc[Up[p]]
      BY <1>1, <1>7, <3>1 DEF Seen, Summed, AccountInv
    <3>2. CASE pc[Up[p]] = "none" /\ pc'[Up[p]] = "queued"
      BY <1>1, <3>2 DEF Seen, Summed, Requesting, AccountInv
    <3> QED
      BY <1>2, <2>1, <3>1, <3>2
  <2> QED
    BY <1>1, <1>6, <2>3, <2>4, AccountSame
<1>8. ASSUME NEW p \in Within, Up[p] = d
      PROVE  Accounted(p)'
  <2>1. Accounted(p)
    BY <1>1, <1>8 DEF AccountInv
  <2>2. (Seen(p)' <=> Seen(p)) /\ ~Summed(p) /\ Summed(p)'
    BY <1>1, <1>8 DEF Seen, Summed, Requesting
  <2>3. p \notin report.missingDirs /\ p \notin report.missingFiles
    BY <2>1, <2>2 DEF Accounted
  <2>4. /\ p \in report'.missingDirs <=> (InDirs(p) /\ remote[p].kind # "dir")
        /\ p \in report'.missingFiles <=> (InFiles(p) /\ remote[p].kind # "file")
    BY <1>4, <1>8, <2>3 DEF InDirs, InFiles, Listed, Within
  <2>5. /\ p \in report'.missingDirs <=> (WasDir(p) /\ remote[p].kind # "dir")
        /\ p \in report'.missingFiles <=> (WasFile(p) /\ remote[p].kind # "file")
    BY <2>1, <2>4 DEF Accounted
  <2>6. size'[p] = size[p] /\ remote' = remote
    BY <1>1
  <2> QED
    BY <1>4, <1>6, <2>1, <2>2, <2>5, <2>6 DEF Accounted
<1> QED
  BY <1>7, <1>8 DEF AccountInv
-----------------------------------------------------------------------------
(* Everything together.                                                    *)

\* The inductive invariant.
Inv ==
  CrawlInv /\ GoInv /\ PrefixInv /\ AccountInv /\ MigrationTypes /\ Cardinality(Holding) <= Concurrency

LEMMA SlotsKept ==
  ASSUME CrawlInv, CrawlAssumption, NEW d \in Path, Cardinality(Holding) <= Concurrency,
         Sync(d) \/ RequestFails(d), GoInv
  PROVE  Cardinality(Holding') <= Concurrency
<1>1. /\ Path \subseteq Nat /\ IsFiniteSet(Path) /\ Concurrency \in Nat
      /\ DOMAIN pc = Path
  BY DEF CrawlAssumption, CrawlInv, CrawlTypes
<1>2. Holding \in SUBSET Path /\ Holding' \in SUBSET Path
  BY DEF Holding
<1>3. IsFiniteSet(Holding) /\ IsFiniteSet(Holding') /\ Cardinality(Holding) \in Nat
      /\ Cardinality(Holding') \in Nat
  BY <1>1, <1>2, FS_Subset, FS_CardinalityType
<1>4. CASE Get(d) \/ Ask(d)
  <2>1. Holding' \in SUBSET (Holding \cup {d})
    BY <1>1, <1>4 DEF Holding, Get, Ask, GoTo
  <2>2. Cardinality(Holding) < Concurrency
    BY <1>4 DEF Get, Ask, HasSlot
  <2>3. IsFiniteSet(Holding \cup {d}) /\ Cardinality(Holding \cup {d}) <= Cardinality(Holding) + 1
    <3>1. /\ IsFiniteSet(Holding \cup {d})
          /\ Cardinality(Holding \cup {d}) =
               IF d \in Holding THEN Cardinality(Holding) ELSE Cardinality(Holding) + 1
      BY <1>3, FS_AddElement, Zenon
    <3> QED
      BY <1>3, <3>1
  <2>4. Cardinality(Holding') <= Cardinality(Holding \cup {d})
    BY <2>1, <2>3, FS_Subset
  <2>5. Cardinality(Holding \cup {d}) \in Nat
    BY <2>3, FS_CardinalityType
  <2> QED
    BY <1>1, <1>3, <2>2, <2>3, <2>4, <2>5
<1>5. CASE Holding' \in SUBSET Holding
  <2>1. Cardinality(Holding') <= Cardinality(Holding)
    BY <1>3, <1>5, FS_Subset
  <2> QED
    BY <1>1, <1>3, <2>1
<1>6. Got(d) \/ EntryDir(d) \/ EntryFile(d) \/ Asked(d) \/ Join(d) \/ RequestFails(d)
        => Holding' \in SUBSET Holding
  <2>1. CASE EntryFile(d)
    <3>1. \A e \in Path : pc'[e] = pc[e] \/ pc'[e] = "asking"
      BY <1>1, <2>1 DEF EntryFile, Handled, GoTo
    <3> QED
      BY <3>1 DEF Holding
  <2>2. CASE Got(d) \/ EntryDir(d) \/ Asked(d) \/ RequestFails(d)
    <3>1. \A e \in Path : pc'[e] = pc[e] \/ pc'[e] \in {"listing", "failed"}
      BY <1>1, <2>2 DEF Got, EntryDir, Asked, RequestFails, GoTo
    <3> QED
      BY <3>1 DEF Holding
  <2>3. CASE Join(d)
    <3>1. \A e \in Path : pc'[e] = pc[e] \/ pc'[e] \in {"done", "failed"}
      BY <1>1, <2>3 DEF Join, GoTo
    <3> QED
      BY <3>1 DEF Holding
  <2> QED
    BY <2>1, <2>2, <2>3
<1>7. Descend(d) => Holding' \in SUBSET Holding
  <2> SUFFICES ASSUME Descend(d) PROVE Holding' \in SUBSET Holding
    OBVIOUS
  <2>1. /\ pc'[d] = "waiting"
        /\ \A p \in Below(d) : pc'[p] = "queued"
        /\ \A e \in Path \ {d} : e \notin Below(d) => pc'[e] = pc[e]
    BY DescendDoes
  <2>2. \A e \in Path : pc'[e] = pc[e] \/ pc'[e] \in {"waiting", "queued"}
    BY <2>1
  <2> QED
    BY <2>2 DEF Holding
<1> QED
  BY <1>4, <1>5, <1>6, <1>7 DEF Sync

\* One step of the crawl.
LEMMA CrawlStep ==
  ASSUME Inv, NEW d \in Path, Sync(d) \/ RequestFails(d), CrawlAssumption
  PROVE  CrawlInv' /\ GoInv' /\ PrefixInv' /\ AccountInv'
<1> USE DEF Inv
<1>1. PrefixInv'
  BY PrefixStep
<1>2. CASE Descend(d)
  BY <1>1, <1>2, DescendKeeps, DescendAccounts
<1>3. CASE Join(d)
  BY <1>1, <1>3, JoinKeeps, JoinAccounts
<1>4. pc \in [Path -> {"none", "queued", "getting", "listing", "asking", "heading", "waiting",
                       "done", "failed"}]
  BY DEF CrawlInv, CrawlTypes
<1>5. CASE Get(d)
  <2>1. pc[d] = "queued" /\ pc'[d] = "getting"
    BY <1>4, <1>5 DEF Get, GoTo
  <2> QED
    BY <1>1, <1>5, <2>1, GetKeeps, GetAccounts, GoLocal
<1>6. CASE Got(d)
  <2>1. pc[d] = "getting" /\ pc'[d] = "listing"
    BY <1>4, <1>6 DEF Got, GoTo
  <2> QED
    BY <1>1, <1>6, <2>1, GotKeeps, GotAccounts, GoLocal
<1>7. CASE EntryDir(d)
  <2>1. pc[d] = "listing" /\ pc'[d] = "listing"
    BY <1>7 DEF EntryDir
  <2> QED
    BY <1>1, <1>7, <2>1, EntryDirKeeps, EntryDirAccounts, GoLocal
<1>8. CASE EntryFile(d)
  <2>1. pc[d] = "listing" /\ pc'[d] \in {"listing", "asking"}
    BY <1>4, <1>8 DEF EntryFile, Handled, GoTo
  <2>2. CrawlInv' /\ AccountInv' /\ Elsewhere(d)
    BY <1>8, EntryFileKeeps, EntryFileAccounts
  <2>3. pc[d] \in {"queued", "getting", "listing"} \cup Requesting
        /\ pc'[d] \in {"queued", "getting", "listing", "failed"} \cup Requesting
    BY <2>1 DEF Requesting
  <2> QED
    BY <1>1, <2>2, <2>3, GoLocal
<1>9. CASE Ask(d)
  <2>1. pc[d] = "asking" /\ pc'[d] = "heading"
    BY <1>4, <1>9 DEF Ask, GoTo
  <2> QED
    BY <1>1, <1>9, <2>1, AskKeeps, AskAccounts, GoLocal DEF Requesting
<1>10. CASE Asked(d)
  <2>1. pc[d] = "heading" /\ pc'[d] = "listing"
    BY <1>4, <1>10 DEF Asked, GoTo
  <2> QED
    BY <1>1, <1>10, <2>1, AskedKeeps, AskedAccounts, GoLocal DEF Requesting
<1>11. CASE RequestFails(d)
  <2>1. pc[d] \in {"getting", "heading"} /\ pc'[d] = "failed"
    BY <1>4, <1>11 DEF RequestFails, GoTo
  <2> QED
    BY <1>1, <1>11, <2>1, FailKeeps, FailAccounts, GoLocal DEF Requesting
<1> QED
  BY <1>2, <1>3, <1>5, <1>6, <1>7, <1>8, <1>9, <1>10, <1>11 DEF Sync
\* The session, and a state that stays, leave the crawl alone.
LEMMA CrawlStays ==
  ASSUME Inv, remote' = remote, UNCHANGED crawl, faults' \in 0 .. MaxFaults
  PROVE  CrawlInv' /\ GoInv' /\ PrefixInv' /\ AccountInv' /\ Holding' = Holding
<1>1. /\ remote' = remote /\ dirs' = dirs /\ files' = files /\ size' = size /\ pc' = pc
      /\ left' = left /\ report' = report
  BY DEF crawl
<1>2. CrawlTypes'
  BY <1>1 DEF Inv, CrawlInv, CrawlTypes
<1>3. \A d \in Path : LeftOK(d)' <=> LeftOK(d)
  BY <1>1 DEF LeftOK, Listed, Known
<1>4. \A d \in Path : EntriesOK(d)' <=> EntriesOK(d)
  BY <1>1 DEF EntriesOK
<1>5. CrawlInv'
  BY <1>2, <1>3, <1>4 DEF Inv, CrawlInv, EntriesInv
<1>6. \A d : Below(d)' = Below(d)
  BY <1>1 DEF Below, Listed
<1>7. GoInv'
  BY <1>1, <1>6 DEF Inv, GoInv, StartedOK, AwaitedOK, DoneOK
<1>8. PrefixInv'
  BY <1>1 DEF Inv, PrefixInv
<1>9. AccountInv'
  <2> SUFFICES ASSUME NEW p \in Within, pc'[Up[p]] # "failed"
               PROVE  Accounted(p)'
    BY DEF AccountInv
  <2>1. SameReport(p) /\ size'[p] = size[p] /\ Accounted(p)
    BY <1>1 DEF SameReport, Inv, AccountInv
  <2>2. /\ Seen(p)' <=> Seen(p)
        /\ Summed(p)' <=> Summed(p)
        /\ InDirs(p)' <=> InDirs(p)
        /\ InFiles(p)' <=> InFiles(p)
    BY <1>1 DEF Seen, Summed, InDirs, InFiles
  <2> QED
    BY <1>1, <2>1, <2>2, AccountSame
<1> QED
  BY <1>1, <1>5, <1>7, <1>8, <1>9 DEF Holding

LEMMA InvStart == ASSUME Init, CrawlAssumption PROVE Inv
<1>1. MigrationTypes
  BY DEF Init, MigrationTypes, Updating
<1>2. Holding = {}
  BY DEF Init, CrawlInit, Holding
<1>3. Cardinality(Holding) <= Concurrency
  BY <1>2, FS_EmptySet DEF CrawlAssumption
<1> QED
  BY <1>1, <1>3, CrawlStart, GoStart, PrefixStart, AccountStart DEF Inv

LEMMA InvStep == ASSUME Inv, [Next]_vars, CrawlAssumption PROVE Inv'
<1>1. CASE \E d \in Path : (Sync(d) \/ RequestFails(d)) /\ UNCHANGED migration
  <2>1. PICK d \in Path : (Sync(d) \/ RequestFails(d)) /\ UNCHANGED migration
    BY <1>1
  <2>2. CrawlInv' /\ GoInv' /\ PrefixInv' /\ AccountInv'
    BY <2>1, CrawlStep
  <2>3. Cardinality(Holding') <= Concurrency
    BY <2>1, SlotsKept DEF Inv
  <2>4. MigrationTypes'
    BY <2>1 DEF migration, Inv, MigrationTypes
  <2> QED
    BY <2>2, <2>3, <2>4 DEF Inv
<1>2. CASE Migrating \/ BreakOff \/ UNCHANGED vars
  <2>1. remote' = remote /\ UNCHANGED crawl
    BY <1>2 DEF Migrating, WriteMigration, NextStatement, MoveRow, MoveBlocked, BreakOff, vars
  <2>2. faults' = faults \/ Fault
    BY <1>2 DEF Migrating, WriteMigration, NextStatement, MoveRow, MoveBlocked, BreakOff, vars
  <2>3. faults \in 0 .. MaxFaults /\ MaxFaults \in Nat
    BY DEF Inv, CrawlInv, CrawlTypes, CrawlAssumption
  <2>4. faults' \in 0 .. MaxFaults
    BY <2>2, <2>3 DEF Fault
  <2>5. CrawlInv' /\ GoInv' /\ PrefixInv' /\ AccountInv' /\ Holding' = Holding
    BY <2>1, <2>4, CrawlStays
  <2>6. MigrationTypes
    BY DEF Inv
  <2>7. MigrationTypes'
    <3>1. CASE WriteMigration
      BY <2>6, <3>1 DEF WriteMigration, MigrationTypes, Updating
    <3>2. CASE NextStatement
      <4>1. table' = table /\ (stored' = stored \/ stored' = table)
        BY <3>2 DEF NextStatement, Updating
      <4>2. phase' \in {"statuses", "archives", "committed"}
        BY <3>2 DEF NextStatement, Updating
      <4> QED
        BY <2>6, <4>1, <4>2 DEF MigrationTypes, Updating
    <3>3. ASSUME NEW r, MoveRow(r) PROVE MigrationTypes'
      <4>1. phase' = phase /\ stored' = stored /\ DOMAIN table' = DOMAIN table
        BY <3>3 DEF MoveRow
      <4> QED
        BY <2>6, <4>1 DEF MigrationTypes
    <3>4. ASSUME BreakOff \/ \E r : MoveBlocked(r) PROVE MigrationTypes'
      <4>1. phase' = "aborted" /\ stored' = stored /\ table' = stored
        BY <3>4 DEF MoveBlocked, BreakOff, Undone
      <4> QED
        BY <2>6, <4>1 DEF MigrationTypes
    <3>5. CASE UNCHANGED vars
      BY <2>6, <3>5 DEF vars, migration, MigrationTypes
    <3> QED
      BY <1>2, <3>1, <3>2, <3>3, <3>4, <3>5 DEF Migrating
  <2> QED
    BY <2>5, <2>7 DEF Inv
<1> QED
  BY <1>1, <1>2 DEF Next, Crawling

\* The invariant everything below follows from: where every goroutine of the crawl
\* stands, what it has left, what it has added to the tree, and what it has reported.
THEOREM Invariance == Spec => []Inv
<1>1. Init => Inv
  BY InvStart, CrawlAssumption
<1>2. Inv /\ [Next]_vars => Inv'
  BY InvStep, CrawlAssumption
<1> QED
  BY <1>1, <1>2, PTL DEF Spec

-----------------------------------------------------------------------------
(* The theorems.                                                           *)

\* The variables have their types, and no more requests are under way than may be.
THEOREM TypeCorrect == Spec => []TypeOK
<1>1. Inv => TypeOK
  <2> SUFFICES ASSUME Inv PROVE TypeOK
    OBVIOUS
  <2>1. /\ remote \in Remotes
        /\ dirs \in [Path -> Seq(Path)] /\ files \in [Path -> Seq(Path)] /\ size \in [Path -> Size]
        /\ pc \in [Path -> {"none", "queued", "getting", "listing", "asking", "heading", "waiting",
                            "done", "failed"}]
        /\ left \in [Path -> Seq(Path \ {Root})] /\ report \in Reports /\ faults \in 0 .. MaxFaults
    BY DEF Inv, CrawlInv, CrawlTypes
  <2>2. left \in [Path -> Seq(Path)]
    <3>1. \A d \in Path : left[d] \in Seq(Path)
      BY <2>1, SeqMonotonic
    <3> QED
      BY <2>1, <3>1
  <2>3. DOMAIN report = DOMAIN EmptyReport
    BY <2>1 DEF Reports, EmptyReport
  <2>4. \A k \in DOMAIN report : report[k] \subseteq Path
    BY <2>1 DEF Reports, Within
  <2>5. /\ Cardinality(Holding) <= Concurrency
        /\ phase \in Updating \cup {"crawling", "failed", "committed", "aborted"}
        /\ DOMAIN table = Updating /\ DOMAIN stored = Updating
    BY DEF Inv, MigrationTypes
  <2> QED
    BY <2>1, <2>2, <2>3, <2>4, <2>5 DEF TypeOK
<1> QED
  BY <1>1, Invariance, PTL

\* The tree of the baseline stays a prefix of the new one, directory by directory, and
\* nothing becomes a directory and a file, whatever the site has and whatever fails.
THEOREM BaselineStays == Spec => []BaselineKept
<1>1. Inv => BaselineKept
  BY DEF Inv, PrefixInv, CrawlInv, EntriesInv, EntriesOK, BaselineKept
<1> QED
  BY <1>1, Invariance, PTL

\* When Sync returns, with or without an error, no goroutine of the crawl is left.
THEOREM CrawlLeavesNone == Spec => []CrawlIsOver
<1>1. Inv => CrawlIsOver
  BY NoneLeft, CrawlAssumption DEF Inv, CrawlIsOver, Over
<1> QED
  BY <1>1, Invariance, PTL

\* After a crawl that succeeds every file of the site that is in the tree has its exact
\* size, unless the listing does not show that it has another.
THEOREM SizesAreExact == Spec => []SizesExact
<1>1. Inv => SizesExact
  <2> SUFFICES ASSUME Inv, NEW d \in Path, pc[d] = "done",
                      NEW p \in ToSet(files[d]) \cap Listed(d, "file")
               PROVE  size[p] = remote[p].size \/ FormatRoughSize[size[p]] = remote[p].shown
    BY DEF SizesExact, Reached
  <2>1. p \in Within /\ Up[p] = d /\ remote[p].kind = "file"
    BY DEF Listed, Within
  <2>2. left[d] = <<>>
    BY DEF Inv, CrawlInv, EntriesInv, LeftOK, Requesting
  <2>3. p \notin ToSet(left[d])
    <3>1. DOMAIN left[d] = {}
      BY <2>2
    <3> QED
      BY <3>1 DEF ToSet
  <2>4. Seen(p) /\ InFiles(p)
    BY <2>1, <2>3 DEF Seen, InFiles
  <2>5. Accounted(p)
    BY <2>1 DEF Inv, AccountInv
  <2>6. Fits(p)
    BY <2>1, <2>4, <2>5 DEF Accounted
  <2> QED
    BY <2>6 DEF Fits
<1> QED
  BY <1>1, Invariance, PTL

\* The report of a crawl that succeeds is the difference between the baseline and the
\* site, however many goroutines have written it and in whichever order.
THEOREM ReportIsExact == Spec => []ReportExact
<1>1. Inv => ReportExact
  <2> SUFFICES ASSUME Inv, pc[Root] = "done" PROVE ReportExact
    BY DEF ReportExact
  <2> DEFINE within(kind) == UNION {Listed(d, kind) : d \in Reached}
             oldDirs == UNION {ToSet(BaseDirs[d]) : d \in Reached}
             oldFiles == UNION {ToSet(BaseFiles[d]) : d \in Reached}
             R(p) == p \in Within /\ pc[Up[p]] = "done"
  <2>1. \A d \in Path : pc[d] \in {"none", "done"}
    BY NoneLeft, CrawlAssumption DEF Inv, Ended
  <2>2. \A p \in Within : Up[p] \in Path
    BY CrawlAssumption DEF CrawlAssumption, Within
  <2>3. \A p, kind : p \in within(kind) <=> (R(p) /\ remote[p].kind = kind)
    BY <2>2 DEF Reached, Listed, Within
  <2>4. \A p : p \in oldDirs <=> (R(p) /\ WasDir(p))
    <3>1. \A d \in Path : \A p \in ToSet(BaseDirs[d]) : p \in Within /\ Up[p] = d
      BY CrawlAssumption DEF CrawlAssumption, Within
    <3> QED
      BY <2>2, <3>1 DEF Reached, WasDir
  <2>5. \A p : p \in oldFiles <=> (R(p) /\ WasFile(p))
    <3>1. \A d \in Path : \A p \in ToSet(BaseFiles[d]) : p \in Within /\ Up[p] = d
      BY CrawlAssumption DEF CrawlAssumption, Within
    <3> QED
      BY <2>2, <3>1 DEF Reached, WasFile
  <2>6. \A p \in Within : Accounted(p) /\ (Summed(p) <=> R(p)) /\ (Seen(p) <=> (R(p) /\ remote[p].kind # "none"))
    <3> SUFFICES ASSUME NEW p \in Within
                 PROVE  Accounted(p) /\ (Summed(p) <=> R(p)) /\ (Seen(p) <=> (R(p) /\ remote[p].kind # "none"))
      OBVIOUS
    <3>1. pc[Up[p]] \in {"none", "done"} /\ Up[p] \in Path
      BY <2>1, <2>2
    <3>2. left[Up[p]] = <<>>
      BY <3>1 DEF Inv, CrawlInv, EntriesInv, LeftOK, Requesting
    <3>3. p \notin ToSet(left[Up[p]])
      <4>1. DOMAIN left[Up[p]] = {}
        BY <3>2
      <4> QED
        BY <4>1 DEF ToSet
    <3>4. Accounted(p)
      BY <3>1 DEF Inv, AccountInv
    <3> QED
      BY <3>1, <3>3, <3>4 DEF Summed, Seen, Requesting
  <2>7. report \in Reports
    BY DEF Inv, CrawlInv, CrawlTypes
  <2>8. /\ report.addedDirs \subseteq Within /\ report.addedFiles \subseteq Within
        /\ report.conflicts \subseteq Within /\ report.mismatches \subseteq Within
        /\ report.updatedFiles \subseteq Within /\ report.missingDirs \subseteq Within
        /\ report.missingFiles \subseteq Within
    BY <2>7, ReportSets
  <2> HIDE DEF within, oldDirs, oldFiles
  <2>9. ASSUME NEW p
        PROVE  /\ p \in report.addedDirs <=> (p \in within("dir") /\ p \notin oldDirs /\ p \notin oldFiles)
               /\ p \in report.addedFiles <=> (p \in within("file") /\ p \notin oldDirs /\ p \notin oldFiles)
               /\ p \in report.missingDirs <=> (p \in oldDirs /\ p \notin within("dir"))
               /\ p \in report.missingFiles <=> (p \in oldFiles /\ p \notin within("file"))
               /\ p \in report.conflicts <=>
                    ((p \in oldFiles /\ p \in within("dir")) \/ (p \in oldDirs /\ p \in within("file")))
               /\ p \in report.mismatches <=>
                    (/\ p \in oldFiles /\ p \in within("file")
                     /\ remote[p].shown # FormatRoughSize[BaseSize[p]])
               /\ p \in report.updatedFiles <=> (p \in report.mismatches /\ remote[p].size # BaseSize[p])
    <3>1. CASE p \notin Within
      BY <2>3, <2>4, <2>5, <2>8, <3>1
    <3>2. CASE p \in Within
      BY <2>3, <2>4, <2>5, <2>6, <3>2 DEF Accounted
    <3> QED
      BY <3>1, <3>2
  <2>10. /\ report.addedDirs = within("dir") \ (oldDirs \cup oldFiles)
         /\ report.addedFiles = within("file") \ (oldDirs \cup oldFiles)
         /\ report.missingDirs = oldDirs \ within("dir")
         /\ report.missingFiles = oldFiles \ within("file")
         /\ report.conflicts = (oldFiles \cap within("dir")) \cup (oldDirs \cap within("file"))
    BY <2>9
  <2>11. report.mismatches = {p \in oldFiles \cap within("file") :
                                remote[p].shown # FormatRoughSize[BaseSize[p]]}
    BY <2>9
  <2>12. report.updatedFiles = {p \in report.mismatches : remote[p].size # BaseSize[p]}
    BY <2>9
  <2> QED
    BY <2>10, <2>11, <2>12 DEF ReportExact, within, oldDirs, oldFiles
<1> QED
  BY <1>1, Invariance, PTL
-----------------------------------------------------------------------------
(* What FlattenSeq does.  Induction is out of reach of the provers; that a *)
(* set of numbers has a least one, a first counterexample, takes its place. *)

Less == {p \in Nat \X Nat : p[1] < p[2]}

LEMMA LessWellFounded == IsWellFoundedOn(Less, Nat)
BY NatLessThanWellFounded DEF OpToRel, Less

LEMMA LeastExists ==
  ASSUME NEW S, S \subseteq Nat, S # {}
  PROVE  \E m \in S : \A n \in S : m <= n
<1>1. PICK m \in S : \A n \in S : <<n, m>> \notin Less
  BY LessWellFounded, WFMin
<1>2. \A n \in S : ~ (n < m)
  BY <1>1 DEF Less
<1> QED
  BY <1>2

LEMMA Concats ==
  ASSUME NEW S, NEW a \in Seq(S), NEW b \in Seq(S)
  PROVE  /\ a \o b \in Seq(S)
         /\ ToSet(a \o b) = ToSet(a) \cup ToSet(b)
         /\ Distinct(a) /\ Distinct(b) /\ ToSet(a) \cap ToSet(b) = {} => Distinct(a \o b)
<1> DEFINE c == a \o b
<1>1. c \in Seq(S) /\ Len(c) = Len(a) + Len(b) /\ Len(a) \in Nat /\ Len(b) \in Nat
  OBVIOUS
<1>2. /\ DOMAIN a = 1 .. Len(a) /\ DOMAIN b = 1 .. Len(b) /\ DOMAIN c = 1 .. Len(a) + Len(b)
      /\ \A i \in 1 .. Len(a) : c[i] = a[i]
      /\ \A i \in 1 .. Len(b) : c[Len(a) + i] = b[i]
  OBVIOUS
<1> HIDE DEF c
<1>3. \A i \in DOMAIN c : i \in DOMAIN a \/ (i - Len(a) \in DOMAIN b /\ i = Len(a) + (i - Len(a)))
  BY <1>1, <1>2
<1>4. \A i \in DOMAIN c : \/ i \in DOMAIN a /\ c[i] = a[i]
                          \/ i - Len(a) \in DOMAIN b /\ c[i] = b[i - Len(a)]
  BY <1>1, <1>2, <1>3
<1>5. \A i \in DOMAIN a : i \in DOMAIN c /\ c[i] = a[i]
  BY <1>1, <1>2
<1>6. \A i \in DOMAIN b : Len(a) + i \in DOMAIN c /\ c[Len(a) + i] = b[i]
  BY <1>1, <1>2
<1>7. ToSet(c) = ToSet(a) \cup ToSet(b)
  <2>1. ToSet(c) \subseteq ToSet(a) \cup ToSet(b)
    BY <1>4 DEF ToSet
  <2>2. ToSet(a) \cup ToSet(b) \subseteq ToSet(c)
    BY <1>5, <1>6 DEF ToSet
  <2> QED
    BY <2>1, <2>2
<1>8. ASSUME Distinct(a), Distinct(b), ToSet(a) \cap ToSet(b) = {} PROVE Distinct(c)
  <2> SUFFICES ASSUME NEW i \in DOMAIN c, NEW j \in DOMAIN c, c[i] = c[j] PROVE i = j
    BY DEF Distinct
  <2>1. \A k \in DOMAIN a : a[k] \in ToSet(a)
    BY DEF ToSet
  <2>2. \A k \in DOMAIN b : b[k] \in ToSet(b)
    BY DEF ToSet
  <2>3. i \in Nat /\ j \in Nat
    BY <1>1, <1>2
  <2>4. CASE i \in DOMAIN a /\ c[i] = a[i] /\ j \in DOMAIN a /\ c[j] = a[j]
    BY <1>8, <2>4 DEF Distinct
  <2>5. CASE i - Len(a) \in DOMAIN b /\ c[i] = b[i - Len(a)] /\ j - Len(a) \in DOMAIN b /\ c[j] = b[j - Len(a)]
    <3>1. i - Len(a) = j - Len(a)
      BY <1>8, <2>5 DEF Distinct
    <3> QED
      BY <1>1, <2>3, <3>1
  <2> QED
    BY <1>4, <1>8, <2>1, <2>2, <2>4, <2>5
<1> QED
  BY <1>1, <1>7, <1>8 DEF c

\* The concatenations of the first sequences of s.
Sums(F, s, n) == \A i \in 1 .. n : F[i] = IF i = 1 THEN s[1] ELSE F[i - 1] \o s[i]

LEMMA SumsExist ==
  ASSUME NEW S, NEW n \in Nat, NEW s \in [1 .. n -> Seq(S)]
  PROVE  \E F \in [1 .. n -> Seq(S)] : Sums(F, s, n)
<1> DEFINE Good(k) == \E F \in [1 .. k -> Seq(S)] : Sums(F, s, k)
           T == {k \in 0 .. n : ~ Good(k)}
<1>1. SUFFICES ASSUME T # {} PROVE FALSE
  <2>1. n \in 0 .. n
    OBVIOUS
  <2> HIDE DEF Good
  <2>2. Good(n)
    BY <1>1, <2>1
  <2> QED
    BY <2>2 DEF Good
<1>2. PICK m \in T : \A k \in T : m <= k
  <2>1. T \subseteq Nat
    OBVIOUS
  <2> HIDE DEF T
  <2> QED
    BY <1>1, <2>1, LeastExists
<1>3. m \in 0 .. n /\ ~ Good(m)
  BY <1>2
<1>4. m # 0
  <2>1. [i \in 1 .. 0 |-> <<>>] \in [1 .. 0 -> Seq(S)]
    OBVIOUS
  <2>2. Sums([i \in 1 .. 0 |-> <<>>], s, 0)
    BY DEF Sums
  <2>3. Good(0)
    BY <2>1, <2>2
  <2> HIDE DEF Good
  <2> QED
    BY <1>3, <2>3
<1>5. m - 1 \in 0 .. n /\ ~ (m <= m - 1) /\ m \in Nat \ {0}
  BY <1>3, <1>4
<1>6. Good(m - 1)
  <2> HIDE DEF Good
  <2> QED
    BY <1>2, <1>5
<1>7. PICK F \in [1 .. m - 1 -> Seq(S)] : Sums(F, s, m - 1)
  BY <1>6
<1> HIDE DEF T
<1> DEFINE last == IF m = 1 THEN s[1] ELSE F[m - 1] \o s[m]
           G == [i \in 1 .. m |-> IF i = m THEN last ELSE F[i]]
<1>8. last \in Seq(S)
  <2>1. s[m] \in Seq(S)
    BY <1>3, <1>5
  <2>2. CASE m = 1
    BY <2>1, <2>2
  <2>3. CASE m # 1
    <3>1. F[m - 1] \in Seq(S)
      BY <1>5, <1>7, <2>3
    <3> QED
      BY <2>1, <2>3, <3>1
  <2> QED
    BY <2>2, <2>3
<1> HIDE DEF last
<1>9. G \in [1 .. m -> Seq(S)]
  BY <1>5, <1>7, <1>8
<1>10. Sums(G, s, m)
  <2> SUFFICES ASSUME NEW i \in 1 .. m
               PROVE  G[i] = IF i = 1 THEN s[1] ELSE G[i - 1] \o s[i]
    BY DEF Sums
  <2>1. CASE i = m
    <3>1. i # 1 => G[i - 1] = F[i - 1]
      BY <1>5, <2>1
    <3> QED
      BY <2>1, <3>1 DEF last
  <2>2. CASE i # m
    <3>1. i \in 1 .. m - 1 /\ G[i] = F[i]
      BY <1>5, <2>2
    <3>2. i # 1 => G[i - 1] = F[i - 1]
      BY <1>5, <3>1
    <3>3. F[i] = IF i = 1 THEN s[1] ELSE F[i - 1] \o s[i]
      BY <1>7, <3>1 DEF Sums
    <3> QED
      BY <3>1, <3>2, <3>3
  <2> QED
    BY <2>1, <2>2
<1>11. Good(m)
  BY <1>9, <1>10
<1> HIDE DEF Good
<1> QED
  BY <1>3, <1>11

\* FlattenSeq is the last of them.
LEMMA FlattenIs ==
  ASSUME NEW S, NEW n \in Nat, NEW s \in [1 .. n -> Seq(S)]
  PROVE  /\ n = 0 => FlattenSeq(s) = <<>>
         /\ n # 0 => \E F \in [1 .. n -> Seq(S)] : Sums(F, s, n) /\ FlattenSeq(s) = F[n]
<1>1. s \in Seq(Seq(S)) /\ Len(s) = n /\ DOMAIN s = 1 .. n
  OBVIOUS
<1>2. ASSUME n = 0 PROVE FlattenSeq(s) = <<>>
  <2>1. s = <<>>
    BY <1>1, <1>2
  <2> QED
    BY <1>1, <1>2, <2>1 DEF FlattenSeq
<1>3. ASSUME n # 0 PROVE \E F \in [1 .. n -> Seq(S)] : Sums(F, s, n) /\ FlattenSeq(s) = F[n]
  <2> DEFINE Step(f) == [i \in 1 .. n |-> IF i = 1 THEN s[i] ELSE f[i - 1] \o s[i]]
             f == CHOOSE f : f = Step(f)
  <2>1. FlattenSeq(s) = f[n]
    BY <1>1, <1>3 DEF FlattenSeq
  <2>2. PICK F \in [1 .. n -> Seq(S)] : Sums(F, s, n)
    BY SumsExist
  <2>3. F = Step(F)
    BY <2>2 DEF Sums
  <2>4. f = Step(f)
    <3> HIDE DEF Step
    <3> QED
      BY <2>3
  <2> HIDE DEF f
  <2>5. \A i \in 1 .. n : f[i] = IF i = 1 THEN s[i] ELSE f[i - 1] \o s[i]
    BY <2>4
  <2>6. ASSUME NEW j \in 1 .. n, f[j] # F[j] PROVE FALSE
    <3> DEFINE T == {k \in 1 .. n : f[k] # F[k]}
    <3>1. T \subseteq Nat /\ j \in T
      BY <2>6
    <3> HIDE DEF T
    <3>2. PICK m \in T : \A k \in T : m <= k
      BY <3>1, LeastExists
    <3>3. m \in 1 .. n /\ f[m] # F[m]
      BY <3>2 DEF T
    <3>4. m # 1 => f[m - 1] = F[m - 1]
      <4> SUFFICES ASSUME m # 1 PROVE m - 1 \notin T /\ m - 1 \in 1 .. n
        BY DEF T
      <4> QED
        BY <3>2, <3>3
    <3>5. F[m] = IF m = 1 THEN s[1] ELSE F[m - 1] \o s[m]
      BY <2>2, <3>3 DEF Sums
    <3> QED
      BY <2>5, <3>3, <3>4, <3>5
  <2> HIDE DEF Step
  <2>7. n \in 1 .. n
    BY <1>3
  <2> QED
    BY <2>1, <2>2, <2>6, <2>7
<1> QED
  BY <1>2, <1>3

\* FlattenSeq keeps what is in the sequences, and each thing once if they do.
LEMMA FlattenKeeps ==
  ASSUME NEW S, NEW n \in Nat, NEW s \in [1 .. n -> Seq(S)]
  PROVE  /\ FlattenSeq(s) \in Seq(S)
         /\ ToSet(FlattenSeq(s)) = UNION {ToSet(s[i]) : i \in 1 .. n}
         /\ (\A i \in 1 .. n : Distinct(s[i]))
            /\ (\A i, j \in 1 .. n : i # j => ToSet(s[i]) \cap ToSet(s[j]) = {})
            => Distinct(FlattenSeq(s))
<1> DEFINE Apart == /\ \A i \in 1 .. n : Distinct(s[i])
                    /\ \A i, j \in 1 .. n : i # j => ToSet(s[i]) \cap ToSet(s[j]) = {}
           All(k) == UNION {ToSet(s[i]) : i \in 1 .. k}
<1>1. CASE n = 0
  <2>1. FlattenSeq(s) = <<>>
    BY <1>1, FlattenIs
  <2>2. <<>> \in Seq(S) /\ ToSet(<<>>) = {} /\ Distinct(<<>>)
    BY DEF ToSet, Distinct
  <2>3. All(n) = {}
    BY <1>1
  <2> HIDE DEF All
  <2> QED
    BY <2>1, <2>2, <2>3 DEF All
<1>2. CASE n # 0
  <2>1. PICK F \in [1 .. n -> Seq(S)] : Sums(F, s, n) /\ FlattenSeq(s) = F[n]
    BY <1>2, FlattenIs
  <2> DEFINE Right(k) == ToSet(F[k]) = All(k) /\ (Apart => Distinct(F[k]))
             T == {k \in 1 .. n : ~ Right(k)}
  <2>2. ASSUME T # {} PROVE FALSE
    <3>1. T \subseteq Nat
      OBVIOUS
    <3>2. PICK m \in T : \A k \in T : m <= k
      <4> HIDE DEF T
      <4> QED
        BY <2>2, <3>1, LeastExists
    <3>3. m \in 1 .. n /\ ~ Right(m)
      BY <3>2
    <3>4. s[m] \in Seq(S) /\ F[m] = IF m = 1 THEN s[1] ELSE F[m - 1] \o s[m]
      BY <2>1, <3>3 DEF Sums
    <3>5. CASE m = 1
      <4>1. All(1) = ToSet(s[1])
        OBVIOUS
      <4>2. Right(1)
        BY <3>3, <3>4, <3>5, <4>1
      <4> HIDE DEF Right
      <4> QED
        BY <3>3, <3>5, <4>2
    <3>6. CASE m # 1
      <4>1. m - 1 \in 1 .. n /\ ~ (m <= m - 1)
        BY <3>3, <3>6
      <4>2. Right(m - 1)
        <5> HIDE DEF Right
        <5> QED
          BY <3>2, <4>1
      <4>3. F[m - 1] \in Seq(S)
        BY <2>1, <4>1
      <4>4. All(m) = All(m - 1) \cup ToSet(s[m])
        <5>1. \A i : i \in 1 .. m <=> i \in 1 .. m - 1 \/ i = m
          BY <3>3
        <5> QED
          BY <5>1
      <4>5. Apart => ToSet(s[m]) \cap All(m - 1) = {}
        <5>1. \A i \in 1 .. m - 1 : i # m /\ i \in 1 .. n
          BY <3>3
        <5> QED
          BY <3>3, <5>1
      <4>6. Apart => Distinct(s[m])
        BY <3>3
      <4> HIDE DEF All, Apart
      <4>7. ToSet(F[m]) = All(m)
        BY <3>4, <3>6, <4>2, <4>3, <4>4, Concats
      <4>8. ASSUME Apart PROVE Distinct(F[m])
        <5>1. Distinct(F[m - 1]) /\ Distinct(s[m]) /\ ToSet(F[m - 1]) \cap ToSet(s[m]) = {}
          BY <4>2, <4>5, <4>6, <4>8
        <5> QED
          BY <3>4, <3>6, <4>3, <5>1, Concats
      <4> QED
        BY <3>3, <4>7, <4>8
    <3> QED
      BY <3>5, <3>6
  <2>3. n \in 1 .. n /\ n \notin T
    <3>1. n \in 1 .. n
      BY <1>2
    <3> HIDE DEF T
    <3> QED
      BY <2>2, <3>1
  <2>4. Right(n)
    <3> HIDE DEF Right
    <3> QED
      BY <2>3
  <2>5. F[n] \in Seq(S)
    BY <2>1, <2>3
  <2> QED
    BY <2>1, <2>4, <2>5
<1> QED
  BY <1>1, <1>2

-----------------------------------------------------------------------------
(* A sequence that another one holds, in the same order, among other things. *)

Rising(h) == \A i, j \in DOMAIN h : i < j => h[i] < h[j]

Embeds(a, b) ==
  \E h \in [DOMAIN a -> DOMAIN b] : Rising(h) /\ \A i \in DOMAIN a : a[i] = b[h[i]]

LEMMA EmbedsPrefix ==
  ASSUME NEW S, NEW a \in Seq(S), NEW b \in Seq(S), IsPrefix(a, b)
  PROVE  /\ Embeds(a, b)
         /\ Len(a) <= Len(b) /\ \A i \in 1 .. Len(a) : a[i] = b[i]
<1>1. /\ Len(a) \in Nat /\ Len(b) \in Nat /\ Len(a) <= Len(b)
      /\ DOMAIN a = 1 .. Len(a) /\ DOMAIN b = 1 .. Len(b)
      /\ SubSeq(a, 1, Len(a)) = SubSeq(b, 1, Len(a))
  BY DEF IsPrefix
<1>2. ASSUME NEW i \in 1 .. Len(a) PROVE a[i] = b[i]
  <2>1. SubSeq(a, 1, Len(a))[i] = a[i]
    BY <1>1
  <2>2. SubSeq(b, 1, Len(a))[i] = b[i]
    BY <1>1
  <2> QED
    BY <1>1, <2>1, <2>2
<1> DEFINE h == [i \in DOMAIN a |-> i]
<1>3. h \in [DOMAIN a -> DOMAIN b] /\ Rising(h)
  BY <1>1 DEF Rising
<1>4. \A i \in DOMAIN a : a[i] = b[h[i]]
  BY <1>1, <1>2
<1> HIDE DEF h
<1> QED
  BY <1>1, <1>2, <1>3, <1>4 DEF Embeds

LEMMA EmbedsConcat ==
  ASSUME NEW S, NEW a \in Seq(S), NEW b \in Seq(S), NEW c \in Seq(S), NEW d \in Seq(S),
         Embeds(a, c), Embeds(b, d)
  PROVE  Embeds(a \o b, c \o d)
<1>1. PICK f \in [DOMAIN a -> DOMAIN c] : Rising(f) /\ \A i \in DOMAIN a : a[i] = c[f[i]]
  BY DEF Embeds
<1>2. PICK g \in [DOMAIN b -> DOMAIN d] : Rising(g) /\ \A i \in DOMAIN b : b[i] = d[g[i]]
  BY DEF Embeds
<1> DEFINE m == Len(a)
           k == Len(c)
           h == [i \in 1 .. m + Len(b) |-> IF i <= m THEN f[i] ELSE k + g[i - m]]
           u == a \o b
           v == c \o d
<1>3. /\ m \in Nat /\ k \in Nat /\ Len(b) \in Nat /\ Len(d) \in Nat
      /\ DOMAIN a = 1 .. m /\ DOMAIN b = 1 .. Len(b) /\ DOMAIN c = 1 .. k /\ DOMAIN d = 1 .. Len(d)
  OBVIOUS
<1>4. /\ DOMAIN u = 1 .. m + Len(b) /\ DOMAIN v = 1 .. k + Len(d)
      /\ \A i \in 1 .. m : u[i] = a[i]
      /\ \A i \in m + 1 .. m + Len(b) : u[i] = b[i - m]
      /\ \A i \in 1 .. k : v[i] = c[i]
      /\ \A i \in k + 1 .. k + Len(d) : v[i] = d[i - k]
  OBVIOUS
<1> HIDE DEF u, v, m, k
<1>5. \A i \in 1 .. m : f[i] \in 1 .. k
  BY <1>3
<1>6. \A i \in 1 .. Len(b) : g[i] \in 1 .. Len(d)
  BY <1>3
<1>7. \A i \in 1 .. m + Len(b) :
        \/ i \in 1 .. m /\ h[i] = f[i] /\ h[i] \in 1 .. k
        \/ /\ i \in m + 1 .. m + Len(b) /\ i - m \in 1 .. Len(b)
           /\ h[i] = k + g[i - m] /\ h[i] \in k + 1 .. k + Len(d) /\ h[i] - k = g[i - m]
  <2> TAKE i \in 1 .. m + Len(b)
  <2>1. CASE i <= m
    BY <1>3, <1>5, <2>1
  <2>2. CASE ~ (i <= m)
    <3>1. i - m \in 1 .. Len(b) /\ i \in m + 1 .. m + Len(b)
      BY <1>3, <2>2
    <3>2. h[i] = k + g[i - m]
      BY <2>2
    <3> HIDE DEF h
    <3>3. g[i - m] \in 1 .. Len(d)
      BY <1>6, <3>1
    <3> QED
      BY <1>3, <3>1, <3>2, <3>3
  <2> QED
    BY <2>1, <2>2
<1>8. DOMAIN h = 1 .. m + Len(b)
  OBVIOUS
<1>9. h \in [DOMAIN u -> DOMAIN v]
  <2>1. \A i \in 1 .. m + Len(b) : h[i] \in 1 .. k + Len(d)
    <3> HIDE DEF h
    <3> QED
      BY <1>3, <1>7
  <2> QED
    BY <1>4, <2>1
<1> HIDE DEF h
<1>10. Rising(h)
  <2> SUFFICES ASSUME NEW i \in 1 .. m + Len(b), NEW j \in 1 .. m + Len(b), i < j
               PROVE  h[i] < h[j]
    BY <1>8 DEF Rising
  <2>1. CASE j \in 1 .. m /\ h[j] = f[j]
    <3>1. i \in 1 .. m /\ h[i] = f[i]
      BY <1>3, <1>7, <2>1
    <3> QED
      BY <1>1, <1>3, <2>1, <3>1 DEF Rising
  <2>2. CASE i \in m + 1 .. m + Len(b)
    <3>1. /\ j \in m + 1 .. m + Len(b) /\ i - m < j - m
          /\ i - m \in 1 .. Len(b) /\ j - m \in 1 .. Len(b)
      BY <1>3, <2>2
    <3>2. h[i] = k + g[i - m] /\ h[j] = k + g[j - m]
      BY <1>3, <1>7, <2>2, <3>1
    <3>3. g[i - m] < g[j - m]
      BY <1>2, <1>3, <3>1 DEF Rising
    <3>4. g[i - m] \in Int /\ g[j - m] \in Int
      BY <1>6, <3>1
    <3> QED
      BY <1>3, <3>2, <3>3, <3>4
  <2>3. CASE i \in 1 .. m /\ j \in m + 1 .. m + Len(b)
    <3>1. h[i] \in 1 .. k /\ h[j] \in k + 1 .. k + Len(d)
      BY <1>3, <1>7, <2>3
    <3> QED
      BY <1>3, <3>1
  <2> QED
    BY <1>3, <1>7, <2>1, <2>2, <2>3
<1>11. \A i \in DOMAIN u : u[i] = v[h[i]]
  <2> SUFFICES ASSUME NEW i \in 1 .. m + Len(b) PROVE u[i] = v[h[i]]
    BY <1>4
  <2>1. CASE i \in 1 .. m /\ h[i] = f[i] /\ h[i] \in 1 .. k
    BY <1>1, <1>3, <1>4, <2>1
  <2>2. CASE /\ i \in m + 1 .. m + Len(b) /\ i - m \in 1 .. Len(b)
             /\ h[i] = k + g[i - m] /\ h[i] \in k + 1 .. k + Len(d) /\ h[i] - k = g[i - m]
    <3>1. u[i] = b[i - m] /\ v[h[i]] = d[h[i] - k]
      BY <1>4, <2>2
    <3> QED
      BY <1>2, <1>3, <2>2, <3>1
  <2> QED
    BY <1>7, <2>1, <2>2
<1> QED
  BY <1>9, <1>10, <1>11 DEF Embeds, u, v

LEMMA EmbedsNothing ==
  ASSUME NEW S, NEW b \in Seq(S)
  PROVE  Embeds(<<>>, b)
<1>1. DOMAIN <<>> = {}
  OBVIOUS
<1>2. [i \in {} |-> i] \in [{} -> DOMAIN b] /\ Rising([i \in {} |-> i])
  BY DEF Rising
<1> QED
  BY <1>1, <1>2 DEF Embeds

\* In front of it or behind it.
LEMMA EmbedsMore ==
  ASSUME NEW S, NEW a \in Seq(S), NEW b \in Seq(S), NEW c \in Seq(S), Embeds(a, b)
  PROVE  Embeds(a, b \o c) /\ Embeds(a, c \o b)
<1>1. <<>> \in Seq(S) /\ Embeds(<<>>, c)
  BY EmbedsNothing
<1>2. a \o <<>> = a /\ <<>> \o a = a
  OBVIOUS
<1>3. Embeds(a \o <<>>, b \o c) /\ Embeds(<<>> \o a, c \o b)
  BY <1>1, EmbedsConcat
<1> QED
  BY <1>2, <1>3

LEMMA SumsGrow ==
  ASSUME NEW S, NEW n \in Nat, NEW s \in [1 .. n -> Seq(S)], NEW F \in [1 .. n -> Seq(S)],
         Sums(F, s, n), NEW a \in Seq(S), NEW j \in 1 .. n, Embeds(a, F[j])
  PROVE  \A k \in j .. n : Embeds(a, F[k])
<1> DEFINE T == {k \in j .. n : ~ Embeds(a, F[k])}
<1>1. SUFFICES ASSUME T # {} PROVE FALSE
  OBVIOUS
<1>2. PICK m \in T : \A k \in T : m <= k
  <2>1. T \subseteq Nat
    OBVIOUS
  <2> HIDE DEF T
  <2> QED
    BY <1>1, <2>1, LeastExists
<1>3. m \in j .. n /\ ~ Embeds(a, F[m])
  BY <1>2
<1>4. m # j
  BY <1>3
<1>5. m - 1 \in j .. n /\ ~ (m <= m - 1) /\ m - 1 \in 1 .. n /\ m \in 1 .. n /\ m # 1
  BY <1>3, <1>4
<1>6. Embeds(a, F[m - 1])
  BY <1>2, <1>5
<1>7. F[m] = F[m - 1] \o s[m] /\ F[m - 1] \in Seq(S) /\ s[m] \in Seq(S)
  BY <1>5 DEF Sums
<1> QED
  BY <1>3, <1>6, <1>7, EmbedsMore

LEMMA FlattenEmbeds ==
  ASSUME NEW S, NEW n \in Nat, NEW s \in [1 .. n -> Seq(S)],
         NEW k \in Nat, NEW t \in [1 .. k -> Seq(S)],
         NEW h \in [1 .. n -> 1 .. k], Rising(h), \A i \in 1 .. n : Embeds(s[i], t[h[i]])
  PROVE  Embeds(FlattenSeq(s), FlattenSeq(t))
<1>1. CASE n = 0
  <2>1. FlattenSeq(s) = <<>> /\ FlattenSeq(t) \in Seq(S)
    BY <1>1, FlattenIs, FlattenKeeps
  <2> QED
    BY <2>1, EmbedsNothing
<1>2. CASE n # 0
  <2>1. h[n] \in 1 .. k /\ k # 0 /\ n \in 1 .. n
    BY <1>2
  <2>2. PICK F \in [1 .. n -> Seq(S)] : Sums(F, s, n) /\ FlattenSeq(s) = F[n]
    BY <1>2, FlattenIs
  <2>3. PICK G \in [1 .. k -> Seq(S)] : Sums(G, t, k) /\ FlattenSeq(t) = G[k]
    BY <2>1, FlattenIs
  <2> DEFINE T == {i \in 1 .. n : ~ Embeds(F[i], G[h[i]])}
  <2>4. ASSUME T # {} PROVE FALSE
    <3>1. T \subseteq Nat
      OBVIOUS
    <3>2. PICK m \in T : \A i \in T : m <= i
      <4> HIDE DEF T
      <4> QED
        BY <2>4, <3>1, LeastExists
    <3>3. m \in 1 .. n /\ ~ Embeds(F[m], G[h[m]])
      BY <3>2
    <3>4. /\ s[m] \in Seq(S) /\ F[m] = IF m = 1 THEN s[1] ELSE F[m - 1] \o s[m]
          /\ Embeds(s[m], t[h[m]])
      BY <2>2, <3>3 DEF Sums
    <3>5. h[m] \in 1 .. k
      BY <3>3
    <3>6. /\ t[h[m]] \in Seq(S)
          /\ G[h[m]] = IF h[m] = 1 THEN t[1] ELSE G[h[m] - 1] \o t[h[m]]
      BY <2>3, <3>5 DEF Sums
    <3>7. h[m] # 1 => h[m] - 1 \in 1 .. k /\ G[h[m] - 1] \in Seq(S)
      BY <2>3, <3>5
    <3>8. CASE m = 1
      <4>1. CASE h[m] = 1
        BY <3>3, <3>4, <3>6, <3>8, <4>1
      <4>2. CASE h[m] # 1
        <5>1. Embeds(s[m], G[h[m] - 1] \o t[h[m]])
          BY <3>4, <3>6, <3>7, <4>2, EmbedsMore
        <5> QED
          BY <3>3, <3>4, <3>6, <3>8, <4>2, <5>1
      <4> QED
        BY <4>1, <4>2
    <3>9. CASE m # 1
      <4>1. m - 1 \in 1 .. n /\ ~ (m <= m - 1) /\ m - 1 < m
        BY <3>3, <3>9
      <4>2. Embeds(F[m - 1], G[h[m - 1]]) /\ F[m - 1] \in Seq(S)
        BY <2>2, <3>2, <4>1
      <4>3. h[m - 1] < h[m] /\ h[m - 1] \in 1 .. k
        BY <3>3, <4>1 DEF Rising
      <4>4. h[m] # 1 /\ h[m] - 1 \in h[m - 1] .. k
        <5>1. \A x, y \in 1 .. k : x < y => y # 1 /\ y - 1 \in x .. k
          OBVIOUS
        <5> QED
          BY <3>5, <4>3, <5>1
      <4>5. Embeds(F[m - 1], G[h[m] - 1])
        BY <2>3, <4>2, <4>3, <4>4, SumsGrow
      <4>6. Embeds(F[m - 1] \o s[m], G[h[m] - 1] \o t[h[m]])
        BY <3>4, <3>6, <3>7, <4>2, <4>4, <4>5, EmbedsConcat
      <4> QED
        BY <3>3, <3>4, <3>6, <3>9, <4>4, <4>6
    <3> QED
      BY <3>8, <3>9
  <2>5. Embeds(F[n], G[h[n]])
    BY <2>1, <2>4
  <2>6. F[n] \in Seq(S) /\ k \in h[n] .. k
    BY <2>1, <2>2
  <2>7. Embeds(F[n], G[k])
    BY <2>1, <2>3, <2>5, <2>6, SumsGrow
  <2> QED
    BY <2>2, <2>3, <2>7
<1> QED
  BY <1>1, <1>2

\* What is embedded comes no earlier.
LEMMA EmbeddedLater ==
  ASSUME NEW S, NEW a \in Seq(S), NEW b \in Seq(S), Embeds(a, b)
  PROVE  \A i \in DOMAIN a : \E j \in DOMAIN b : i <= j /\ a[i] = b[j]
<1>1. PICK h \in [DOMAIN a -> DOMAIN b] : Rising(h) /\ \A i \in DOMAIN a : a[i] = b[h[i]]
  BY DEF Embeds
<1>2. DOMAIN a = 1 .. Len(a) /\ Len(a) \in Nat /\ DOMAIN b \subseteq Nat \ {0}
  OBVIOUS
<1>3. \A i \in DOMAIN a : h[i] \in Nat \ {0}
  BY <1>2
<1> DEFINE T == {i \in DOMAIN a : ~ (i <= h[i])}
<1>4. ASSUME T # {} PROVE FALSE
  <2>1. T \subseteq Nat
    BY <1>2
  <2>2. PICK m \in T : \A i \in T : m <= i
    <3> HIDE DEF T
    <3> QED
      BY <1>4, <2>1, LeastExists
  <2>3. m \in 1 .. Len(a) /\ ~ (m <= h[m]) /\ h[m] \in Nat \ {0}
    BY <1>2, <1>3, <2>2
  <2>4. m - 1 \in DOMAIN a /\ m \in DOMAIN a /\ m - 1 < m /\ ~ (m <= m - 1)
    BY <1>2, <2>3
  <2>5. m - 1 <= h[m - 1] /\ h[m - 1] \in Nat
    BY <1>3, <2>2, <2>4
  <2>6. h[m - 1] < h[m]
    BY <1>1, <2>4 DEF Rising
  <2> QED
    BY <2>3, <2>5, <2>6
<1> QED
  BY <1>1, <1>4

-----------------------------------------------------------------------------
(* The paths above a path.                                                 *)

Upward(S) == \A p \in S \ {Root} : Up[p] \in S

Above(p) == {q \in Path : \A S \in SUBSET Path : p \in S /\ Upward(S) => q \in S}

Inside(d) == {p \in Path \ {Root} : Up[p] = d}

LEMMA AboveIs ==
  ASSUME NEW p \in Path, CrawlAssumption
  PROVE  /\ Above(p) \subseteq Path /\ p \in Above(p) /\ Upward(Above(p))
<1>1. ASSUME NEW q \in Above(p) \ {Root} PROVE Up[q] \in Above(p)
  <2>1. Up[q] \in Path
    BY DEF Above, CrawlAssumption
  <2>2. ASSUME NEW S \in SUBSET Path, p \in S, Upward(S) PROVE Up[q] \in S
    BY <2>2 DEF Above, Upward
  <2> QED
    BY <2>1, <2>2 DEF Above
<1>2. Upward(Above(p))
  BY <1>1 DEF Upward
<1> QED
  BY <1>2 DEF Above

LEMMA AboveLeast ==
  ASSUME NEW p \in Path, NEW S, S \subseteq Path, p \in S, Upward(S)
  PROVE  Above(p) \subseteq S
BY DEF Above

LEMMA AboveTransitive ==
  ASSUME NEW p \in Path, NEW q \in Above(p), CrawlAssumption
  PROVE  q \in Path /\ Above(q) \subseteq Above(p)
<1>1. q \in Path /\ Above(p) \subseteq Path /\ Upward(Above(p))
  BY AboveIs
<1> QED
  BY <1>1, AboveLeast

LEMMA AboveStep ==
  ASSUME NEW p \in Path, CrawlAssumption
  PROVE  /\ p # Root => Up[p] \in Path /\ Above(p) = {p} \cup Above(Up[p])
         /\ p = Root => Above(p) = {p}
<1>1. ASSUME p # Root PROVE Up[p] \in Path /\ Above(p) = {p} \cup Above(Up[p])
  <2>1. Up[p] \in Path /\ p \in Above(p) /\ Up[p] \in Above(p)
    BY <1>1, AboveIs DEF Upward, CrawlAssumption
  <2>2. Above(Up[p]) \subseteq Above(p)
    BY <2>1, AboveTransitive
  <2>3. /\ Above(Up[p]) \subseteq Path /\ Up[p] \in Above(Up[p]) /\ Upward(Above(Up[p]))
    BY <2>1, AboveIs
  <2> DEFINE S == {p} \cup Above(Up[p])
  <2>4. Upward(S)
    BY <2>3 DEF Upward
  <2>5. S \subseteq Path /\ p \in S
    BY <2>3
  <2> HIDE DEF S
  <2>6. Above(p) \subseteq S
    BY <2>4, <2>5, AboveLeast
  <2> USE DEF S
  <2> QED
    BY <2>1, <2>2, <2>6
<1>2. ASSUME p = Root PROVE Above(p) = {p}
  <2> DEFINE S == {p}
  <2>1. Upward(S) /\ S \subseteq Path /\ p \in S
    BY <1>2 DEF Upward
  <2> HIDE DEF S
  <2>2. Above(p) \subseteq S /\ p \in Above(p)
    BY <2>1, AboveIs, AboveLeast
  <2> USE DEF S
  <2> QED
    BY <2>2
<1> QED
  BY <1>1, <1>2

\* No path is inside itself.
LEMMA NoCycle ==
  ASSUME NEW p \in Path \ {Root}, CrawlAssumption
  PROVE  p \notin Above(Up[p])
<1> DEFINE S == {q \in Path \ {Root} : q \in Above(Up[q])}
<1>1. SUFFICES ASSUME S # {} PROVE FALSE
  OBVIOUS
<1>2. PICK q \in S : Up[q] \notin S
  <2>1. S \in SUBSET (Path \ {Root})
    OBVIOUS
  <2> HIDE DEF S
  <2> QED
    BY <1>1, <2>1 DEF CrawlAssumption
<1>3. q \in Path \ {Root} /\ q \in Above(Up[q])
  BY <1>2
<1> DEFINE d == Up[q]
<1>4. d \in Path /\ q # d
  BY <1>2, <1>3 DEF CrawlAssumption
<1>5. d # Root
  <2> HIDE DEF d
  <2>1. d = Root => Above(d) = {d}
    BY <1>4, AboveStep
  <2>2. q \in Above(d)
    BY <1>3 DEF d
  <2> QED
    BY <1>4, <2>1, <2>2
<1>6. Above(d) = {d} \cup Above(Up[d]) /\ Up[d] \in Path /\ d \notin Above(Up[d])
  BY <1>2, <1>4, <1>5, AboveStep
<1>7. q \in Above(Up[d])
  BY <1>3, <1>4, <1>6
<1>8. Above(q) \subseteq Above(Up[d])
  BY <1>6, <1>7, AboveTransitive
<1>9. Above(q) = {q} \cup Above(d) /\ d \in Above(d)
  BY <1>3, <1>4, AboveStep, AboveIs
<1> QED
  BY <1>6, <1>8, <1>9

LEMMA AboveChain ==
  ASSUME NEW p \in Path, NEW q \in Above(p), NEW r \in Above(p), CrawlAssumption
  PROVE  q \in Above(r) \/ r \in Above(q)
<1> DEFINE S == {x \in Path : x \in Above(r) \/ r \in Above(x)}
<1>1. r \in Path /\ p \in S /\ S \subseteq Path
  BY AboveIs
<1>2. Upward(S)
  <2> SUFFICES ASSUME NEW x \in S \ {Root} PROVE Up[x] \in S
    BY DEF Upward
  <2>1. x \in Path \ {Root} /\ Up[x] \in Path /\ Above(x) = {x} \cup Above(Up[x])
    BY AboveStep
  <2>2. CASE x \in Above(r)
    BY <1>1, <2>1, <2>2, AboveIs DEF Upward
  <2>3. CASE x \notin Above(r)
    <3>1. r # x /\ r \in Above(x)
      BY <1>1, <2>3, AboveIs
    <3> QED
      BY <2>1, <3>1
  <2> QED
    BY <2>2, <2>3
<1>3. Above(p) \subseteq S
  <2> HIDE DEF S
  <2> QED
    BY <1>1, <1>2, AboveLeast
<1> QED
  BY <1>3

\* What is inside two paths of one directory does not exist.
LEMMA InsideApart ==
  ASSUME NEW d \in Path, NEW p \in Inside(d), NEW q \in Inside(d), p # q,
         NEW e \in Path, p \in Above(e), CrawlAssumption
  PROVE  q \notin Above(e)
<1> SUFFICES ASSUME q \in Above(e) PROVE FALSE
  OBVIOUS
<1>1. /\ p \in Path \ {Root} /\ q \in Path \ {Root} /\ Up[p] = d /\ Up[q] = d
  BY DEF Inside
<1>2. Above(p) = {p} \cup Above(d) /\ Above(q) = {q} \cup Above(d)
  BY <1>1, AboveStep
<1>3. p \notin Above(d) /\ q \notin Above(d)
  BY <1>1, NoCycle
<1>4. p \in Above(q) \/ q \in Above(p)
  BY AboveChain
<1> QED
  BY <1>2, <1>3, <1>4

\* Of some paths one has none of the others just inside it.
LEMMA DeepestExists ==
  ASSUME NEW T, T \subseteq Path, T # {}, CrawlAssumption
  PROVE  \E d \in T : \A p \in Inside(d) : p \notin T
<1> DEFINE Rest(d) == Path \ Above(d)
           V == {Rest(d) : d \in T}
           Smaller == StrictSubsetOrdering(Path)
<1>1. V \subseteq FiniteSubsetsOf(Path) /\ V # {}
  <2>1. FiniteSubsetsOf(Path) = SUBSET Path
    BY FS_FiniteSubsetsOfFinite DEF CrawlAssumption
  <2>2. \A d \in T : Rest(d) \in SUBSET Path
    OBVIOUS
  <2>3. V \subseteq SUBSET Path
    <3> HIDE DEF Rest
    <3> QED
      BY <2>2
  <2>4. V # {}
    <3> HIDE DEF Rest
    <3> QED
      OBVIOUS
  <2> HIDE DEF V
  <2> QED
    BY <2>1, <2>3, <2>4
<1>2. IsWellFoundedOn(Smaller, FiniteSubsetsOf(Path))
  BY FS_StrictSubsetOrderingWellFounded
<1>3. PICK x \in V : \A y \in V : ~ (<<y, x>> \in Smaller)
  <2> HIDE DEF V, Smaller
  <2> QED
    BY <1>1, <1>2, WFMin
<1>4. PICK d \in T : x = Rest(d)
  BY <1>3
<1>5. ASSUME NEW p \in Inside(d), p \in T PROVE FALSE
  <2>1. p \in Path \ {Root} /\ d \in Path /\ Up[p] = d
    BY DEF Inside
  <2>2. Above(p) = {p} \cup Above(d) /\ p \notin Above(d)
    BY <2>1, AboveStep, NoCycle
  <2>3. Rest(p) \subseteq Rest(d) /\ Rest(p) # Rest(d)
    BY <2>1, <2>2
  <2>4. Rest(p) \in V
    BY <1>5
  <2>5. <<Rest(p), Rest(d)>> \in Smaller
    BY <2>3 DEF StrictSubsetOrdering
  <2> QED
    BY <1>3, <1>4, <2>4, <2>5
<1> QED
  BY <1>5

-----------------------------------------------------------------------------
(* What buildDFS computes: the walk exists, comes to everything once, and  *)
(* keeps the order of a tree that has grown.                               *)

\* A directory holds directories, or files, of its own, each once.
Proper(inDir) ==
  /\ inDir \in [Path -> Seq(Path)]
  /\ \A d \in Path : ToSet(inDir[d]) \subseteq Inside(d) /\ Distinct(inDir[d])

Visit(sub, walk, d) == <<d>> \o FlattenSeq([i \in DOMAIN sub[d] |-> walk[sub[d][i]]])
Walk(sub) == CHOOSE walk : walk = [d \in Path |-> Visit(sub, walk, d)]

LEMMA InDirIs ==
  ASSUME NEW sub, Proper(sub), NEW d \in Path
  PROVE  /\ Len(sub[d]) \in Nat /\ DOMAIN sub[d] = 1 .. Len(sub[d])
         /\ \A i \in 1 .. Len(sub[d]) : sub[d][i] \in Inside(d)
         /\ \A i, j \in 1 .. Len(sub[d]) : i # j => sub[d][i] # sub[d][j]
<1>1. sub[d] \in Seq(Path) /\ ToSet(sub[d]) \subseteq Inside(d) /\ Distinct(sub[d])
  BY DEF Proper
<1>2. Len(sub[d]) \in Nat /\ DOMAIN sub[d] = 1 .. Len(sub[d])
  BY <1>1
<1> QED
  BY <1>1, <1>2 DEF Distinct, ToSet

LEMMA SameVisit ==
  ASSUME NEW sub, Proper(sub), NEW d \in Path, NEW v, NEW w,
         \A p \in Inside(d) : p \in ToSet(sub[d]) => v[p] = w[p]
  PROVE  Visit(sub, v, d) = Visit(sub, w, d)
<1>1. \A i \in DOMAIN sub[d] : sub[d][i] \in Inside(d) /\ sub[d][i] \in ToSet(sub[d])
  BY InDirIs DEF ToSet
<1>2. \A i \in DOMAIN sub[d] : v[sub[d][i]] = w[sub[d][i]]
  BY <1>1
<1>3. [i \in DOMAIN sub[d] |-> v[sub[d][i]]] = [i \in DOMAIN sub[d] |-> w[sub[d][i]]]
  BY <1>2
<1> QED
  BY <1>3 DEF Visit

\* It is enough to know the walk of a set of directories with all that is inside them.
LEMMA WalkIs ==
  ASSUME NEW sub, Proper(sub), CrawlAssumption
  PROVE  \A d \in Path : Walk(sub)[d] = Visit(sub, Walk(sub), d)
<1> DEFINE Closed(D) == \A d \in D : ToSet(sub[d]) \subseteq D
           Good(D) == Closed(D) /\ \E w : \A d \in D : w[d] = Visit(sub, w, d)
           V == {D \in SUBSET Path : Good(Path \ D)}
           Smaller == StrictSubsetOrdering(Path)
<1>1. V \subseteq FiniteSubsetsOf(Path) /\ Path \in V
  <2>1. FiniteSubsetsOf(Path) = SUBSET Path
    BY FS_FiniteSubsetsOfFinite DEF CrawlAssumption
  <2>2. Good({}) /\ Path \ Path = {}
    OBVIOUS
  <2>3. Path \in V
    <3> HIDE DEF Good
    <3> QED
      BY <2>2
  <2>4. V \subseteq SUBSET Path
    <3> HIDE DEF Good
    <3> QED
      OBVIOUS
  <2> HIDE DEF V
  <2> QED
    BY <2>1, <2>3, <2>4
<1>2. IsWellFoundedOn(Smaller, FiniteSubsetsOf(Path))
  BY FS_StrictSubsetOrderingWellFounded
<1>3. PICK x \in V : \A y \in V : ~ (<<y, x>> \in Smaller)
  <2>1. V # {}
    BY <1>1
  <2>2. V \subseteq FiniteSubsetsOf(Path)
    BY <1>1
  <2> HIDE DEF V, Smaller, Good, Closed
  <2> QED
    BY <1>2, <2>1, <2>2, WFMin
<1>4. x \in SUBSET Path /\ Good(Path \ x)
  <2> HIDE DEF Good
  <2> QED
    BY <1>3
<1>5. ASSUME x # {} PROVE FALSE
  <2>1. PICK d \in x : \A p \in Inside(d) : p \notin x
    BY <1>4, <1>5, DeepestExists
  <2>2. d \in Path
    BY <1>4
  <2>3. PICK w : \A e \in Path \ x : w[e] = Visit(sub, w, e)
    BY <1>4
  <2> DEFINE D == Path \ x
             y == x \ {d}
             new == [e \in Path |-> IF e = d THEN Visit(sub, w, d) ELSE w[e]]
  <2>4. Path \ y = D \cup {d} /\ d \notin D
    BY <2>1, <2>2
  <2>5. \A p \in ToSet(sub[d]) : p \in D /\ p # d
    <3>1. ToSet(sub[d]) \subseteq Inside(d)
      BY <2>2 DEF Proper
    <3>2. Inside(d) \subseteq Path
      BY DEF Inside
    <3> QED
      BY <2>1, <3>1, <3>2
  <2>6. Closed(D)
    BY <1>4
  <2>7. Closed(D \cup {d})
    BY <2>5, <2>6
  <2>8. \A e \in D : new[e] = w[e]
    BY <2>4
  <2>9. ASSUME NEW e \in D \cup {d} PROVE new[e] = Visit(sub, new, e)
    <3>1. e \in Path
      BY <2>2, <2>9
    <3>2. \A p \in ToSet(sub[e]) : p \in D
      <4>1. CASE e = d
        BY <2>5, <4>1
      <4>2. CASE e \in D
        BY <2>6, <4>2
      <4> QED
        BY <2>9, <4>1, <4>2
    <3>3. \A p \in ToSet(sub[e]) : new[p] = w[p]
      BY <2>8, <3>2
    <3>4. Visit(sub, new, e) = Visit(sub, w, e)
      <4> HIDE DEF new
      <4> QED
        BY <3>1, <3>3, SameVisit
    <3>5. new[e] = Visit(sub, w, e)
      <4>1. CASE e = d
        BY <2>2, <4>1
      <4>2. CASE e \in D
        BY <2>3, <2>8, <4>2
      <4> QED
        BY <2>9, <4>1, <4>2
    <3> QED
      BY <3>4, <3>5
  <2>10. Good(D \cup {d})
    <3> HIDE DEF new, Closed
    <3> QED
      BY <2>7, <2>9
  <2>11. y \in SUBSET Path /\ Good(Path \ y)
    <3> HIDE DEF Good
    <3> QED
      BY <1>4, <2>4, <2>10
  <2>12. y \in V
    <3> HIDE DEF Good
    <3> QED
      BY <2>11
  <2>13. <<y, x>> \in Smaller
    BY <1>4, <2>1 DEF StrictSubsetOrdering
  <2> HIDE DEF V, Smaller
  <2> QED
    BY <1>3, <2>12, <2>13
<1>6. PICK w : \A d \in Path : w[d] = Visit(sub, w, d)
  <2>1. Path \ x = Path
    BY <1>5
  <2> QED
    BY <1>4, <2>1
<1> DEFINE full == [d \in Path |-> w[d]]
<1>7. \A d \in Path : Visit(sub, full, d) = Visit(sub, w, d)
  <2> TAKE d \in Path
  <2>1. \A p \in Inside(d) : full[p] = w[p]
    BY DEF Inside
  <2> HIDE DEF full
  <2> QED
    BY <2>1, SameVisit
<1>8. full = [d \in Path |-> Visit(sub, full, d)]
  BY <1>6, <1>7
<1> DEFINE Step(f) == [d \in Path |-> Visit(sub, f, d)]
<1>9. Walk(sub) = CHOOSE f : f = Step(f)
  BY DEF Walk
<1>10. full = Step(full)
  BY <1>8
<1> HIDE DEF full, Step
<1> DEFINE walk == Walk(sub)
<1>11. walk = Step(walk)
  BY <1>9, <1>10
<1> HIDE DEF walk
<1>12. \A d \in Path : walk[d] = Visit(sub, walk, d)
  BY <1>11 DEF Step
<1> QED
  BY <1>12 DEF walk

\* The same, one at a time.
LEMMA FlattenHolds ==
  ASSUME NEW S, NEW n \in Nat, NEW s \in [1 .. n -> Seq(S)]
  PROVE  /\ FlattenSeq(s) \in Seq(S)
         /\ \A e \in ToSet(FlattenSeq(s)) : \E i \in 1 .. n : e \in ToSet(s[i])
         /\ \A i \in 1 .. n : \A e \in ToSet(s[i]) : e \in ToSet(FlattenSeq(s))
<1> DEFINE f == FlattenSeq(s)
<1>1. f \in Seq(S)
  BY FlattenKeeps
<1>2. ToSet(f) = UNION {ToSet(s[i]) : i \in 1 .. n}
  BY FlattenKeeps
<1> HIDE DEF f
<1>3. \A e \in ToSet(f) : \E i \in 1 .. n : e \in ToSet(s[i])
  BY <1>2
<1>4. \A i \in 1 .. n : \A e \in ToSet(s[i]) : e \in ToSet(f)
  BY <1>2
<1> QED
  BY <1>1, <1>3, <1>4 DEF f

LEMMA FlattenDistinct ==
  ASSUME NEW S, NEW n \in Nat, NEW s \in [1 .. n -> Seq(S)],
         \A i \in 1 .. n : Distinct(s[i]),
         \A i, j \in 1 .. n : i # j => ToSet(s[i]) \cap ToSet(s[j]) = {}
  PROVE  Distinct(FlattenSeq(s))
BY FlattenKeeps

\* A walk is right in a directory when it comes once to what is there and below.
RightIn(walk, d) ==
  /\ walk[d] \in Seq(Path) /\ Distinct(walk[d])
  /\ \A e \in ToSet(walk[d]) : d \in Above(e)

LEMMA VisitRight ==
  ASSUME NEW sub, Proper(sub), NEW w, NEW d \in Path,
         w[d] = Visit(sub, w, d), \A p \in Inside(d) : RightIn(w, p)
  PROVE  RightIn(w, d)
<1> DEFINE n == Len(sub[d])
           s == [i \in DOMAIN sub[d] |-> w[sub[d][i]]]
<1>1. /\ n \in Nat /\ DOMAIN sub[d] = 1 .. n
      /\ \A i \in 1 .. n : sub[d][i] \in Inside(d)
      /\ \A i, j \in 1 .. n : i # j => sub[d][i] # sub[d][j]
  BY InDirIs
<1>2. w[d] = <<d>> \o FlattenSeq(s)
  BY DEF Visit
<1> HIDE DEF n
<1>3. \A i \in 1 .. n : s[i] = w[sub[d][i]] /\ RightIn(w, sub[d][i])
  BY <1>1
<1>4. \A i \in 1 .. n : s[i] \in Seq(Path)
  BY <1>3 DEF RightIn
<1>5. s \in [1 .. n -> Seq(Path)]
  BY <1>1, <1>4
<1>6. \A i \in 1 .. n : Distinct(s[i])
  BY <1>3 DEF RightIn
<1>7. \A i \in 1 .. n : \A e \in ToSet(s[i]) : e \in Path /\ sub[d][i] \in Above(e)
  <2> TAKE i \in 1 .. n
  <2>1. s[i] \in Seq(Path) /\ \A e \in ToSet(s[i]) : sub[d][i] \in Above(e)
    BY <1>3 DEF RightIn
  <2> HIDE DEF s
  <2>2. ToSet(s[i]) \subseteq Path
    BY <2>1 DEF ToSet
  <2> QED
    BY <2>1, <2>2
<1> HIDE DEF s
<1>8. ASSUME NEW i \in 1 .. n, NEW j \in 1 .. n, i # j PROVE ToSet(s[i]) \cap ToSet(s[j]) = {}
  <2> SUFFICES ASSUME NEW e \in ToSet(s[i]), e \in ToSet(s[j]) PROVE FALSE
    OBVIOUS
  <2> DEFINE p == sub[d][i]
             q == sub[d][j]
  <2>1. p \in Inside(d) /\ q \in Inside(d) /\ p # q
    BY <1>1, <1>8
  <2>2. e \in Path /\ p \in Above(e) /\ q \in Above(e)
    BY <1>7, <1>8
  <2> HIDE DEF p, q
  <2> QED
    BY <2>1, <2>2, InsideApart, CrawlAssumption
<1>90. n \in Nat
  BY <1>1
<1>9. /\ FlattenSeq(s) \in Seq(Path)
      /\ \A e \in ToSet(FlattenSeq(s)) : \E i \in 1 .. n : e \in ToSet(s[i])
  BY <1>90, <1>5, FlattenHolds
<1>91. Distinct(FlattenSeq(s))
  <2>1. \A i, j \in 1 .. n : i # j => ToSet(s[i]) \cap ToSet(s[j]) = {}
    BY <1>8
  <2> QED
    BY <1>90, <1>5, <1>6, <2>1, FlattenDistinct
<1> DEFINE rest == FlattenSeq(s)
           here == <<d>>
<1>10. here \in Seq(Path) /\ ToSet(here) = {d} /\ Distinct(here)
  BY DEF ToSet, Distinct
<1>101. w[d] = here \o rest
  BY <1>2
<1> HIDE DEF rest, here
<1>11. \A e \in ToSet(rest) : \E p \in Inside(d) : e \in Path /\ p \in Above(e)
  <2> TAKE e \in ToSet(rest)
  <2>1. PICK i \in 1 .. n : e \in ToSet(s[i])
    BY <1>9 DEF rest
  <2> QED
    BY <1>1, <1>7, <2>1
<1>12. d \notin ToSet(rest)
  <2> SUFFICES ASSUME NEW p \in Inside(d), p \in Above(d) PROVE FALSE
    BY <1>11
  <2>1. p \in Path \ {Root} /\ Up[p] = d
    BY DEF Inside
  <2> QED
    BY <2>1, NoCycle, CrawlAssumption
<1>13. ASSUME NEW e \in ToSet(rest) PROVE d \in Above(e)
  <2>1. PICK p \in Inside(d) : e \in Path /\ p \in Above(e)
    BY <1>11
  <2>2. p \in Path \ {Root} /\ Up[p] = d
    BY DEF Inside
  <2> QED
    BY <2>1, <2>2, AboveIs, CrawlAssumption DEF Upward
<1>14. d \in Above(d)
  BY AboveIs, CrawlAssumption
<1>15. ToSet(here) \cap ToSet(rest) = {}
  BY <1>10, <1>12
<1>16. here \o rest \in Seq(Path) /\ ToSet(here \o rest) = ToSet(here) \cup ToSet(rest)
  <2>1. here \in Seq(Path) /\ rest \in Seq(Path)
    BY <1>9, <1>10 DEF rest
  <2> QED
    BY <2>1, Concats
<1>17. Distinct(here \o rest)
  <2>1. here \in Seq(Path) /\ rest \in Seq(Path)
    BY <1>9, <1>10 DEF rest
  <2>2. Distinct(here) /\ Distinct(rest)
    BY <1>10, <1>91 DEF rest
  <2> QED
    BY <2>1, <2>2, <1>15, Concats
<1> QED
  BY <1>101, <1>10, <1>13, <1>14, <1>16, <1>17 DEF RightIn

LEMMA WalkRight ==
  ASSUME NEW sub, Proper(sub), NEW d \in Path, CrawlAssumption
  PROVE  RightIn(Walk(sub), d)
<1> DEFINE w == Walk(sub)
           T == {e \in Path : ~ RightIn(w, e)}
<1>1. \A e \in Path : w[e] = Visit(sub, w, e)
  BY WalkIs
<1> HIDE DEF w
<1>2. ASSUME T # {} PROVE FALSE
  <2>1. T \subseteq Path
    OBVIOUS
  <2>2. PICK e \in T : \A p \in Inside(e) : p \notin T
    <3> HIDE DEF T
    <3> QED
      BY <1>2, <2>1, DeepestExists
  <2>3. e \in Path /\ ~ RightIn(w, e)
    BY <2>2
  <2>4. \A p \in Inside(e) : RightIn(w, p)
    BY <2>2 DEF Inside
  <2>5. w[e] = Visit(sub, w, e)
    BY <1>1, <2>3
  <2>6. RightIn(w, e)
    BY <2>3, <2>4, <2>5, VisitRight
  <2> QED
    BY <2>3, <2>6
<1> QED
  BY <1>2 DEF w

LEMMA VisitEmbeds ==
  ASSUME NEW sub, Proper(sub), NEW more, Proper(more), NEW w, NEW v, NEW d \in Path,
         IsPrefix(sub[d], more[d]), w[d] = Visit(sub, w, d), v[d] = Visit(more, v, d),
         \A p \in Inside(d) : w[p] \in Seq(Path) /\ v[p] \in Seq(Path) /\ Embeds(w[p], v[p])
  PROVE  Embeds(w[d], v[d])
<1> DEFINE n == Len(sub[d])
           k == Len(more[d])
           s == [i \in DOMAIN sub[d] |-> w[sub[d][i]]]
           t == [i \in DOMAIN more[d] |-> v[more[d][i]]]
           h == [i \in 1 .. n |-> i]
           here == <<d>>
<1>1. n \in Nat /\ DOMAIN sub[d] = 1 .. n /\ \A i \in 1 .. n : sub[d][i] \in Inside(d)
  BY InDirIs
<1>2. k \in Nat /\ DOMAIN more[d] = 1 .. k /\ \A i \in 1 .. k : more[d][i] \in Inside(d)
  BY InDirIs
<1>3. n <= k /\ \A i \in 1 .. n : sub[d][i] = more[d][i]
  <2>1. sub[d] \in Seq(Path) /\ more[d] \in Seq(Path)
    BY DEF Proper
  <2> QED
    BY <2>1, EmbedsPrefix
<1>4. w[d] = here \o FlattenSeq(s) /\ v[d] = here \o FlattenSeq(t)
  BY DEF Visit
<1> HIDE DEF n, k
<1>5. \A i \in 1 .. n : s[i] = w[sub[d][i]] /\ s[i] \in Seq(Path)
  BY <1>1
<1>6. \A i \in 1 .. k : t[i] = v[more[d][i]] /\ t[i] \in Seq(Path)
  BY <1>2
<1>7. s \in [1 .. n -> Seq(Path)]
  BY <1>1, <1>5
<1>8. t \in [1 .. k -> Seq(Path)]
  BY <1>2, <1>6
<1>9. \A i \in 1 .. n : i \in 1 .. k /\ Embeds(s[i], t[i])
  BY <1>1, <1>2, <1>3, <1>5, <1>6
<1> HIDE DEF s, t
<1>10. h \in [1 .. n -> 1 .. k] /\ Rising(h) /\ \A i \in 1 .. n : Embeds(s[i], t[h[i]])
  BY <1>9 DEF Rising
<1> HIDE DEF h
<1>11. Embeds(FlattenSeq(s), FlattenSeq(t))
  BY <1>1, <1>2, <1>7, <1>8, <1>10, FlattenEmbeds
<1>12. FlattenSeq(s) \in Seq(Path) /\ FlattenSeq(t) \in Seq(Path)
  BY <1>1, <1>2, <1>7, <1>8, FlattenKeeps
<1>13. here \in Seq(Path) /\ IsPrefix(here, here)
  BY DEF IsPrefix
<1>14. Embeds(here, here)
  <2> HIDE DEF here
  <2> QED
    BY <1>13, EmbedsPrefix
<1> HIDE DEF here
<1> QED
  BY <1>4, <1>11, <1>12, <1>13, <1>14, EmbedsConcat

LEMMA WalkEmbeds ==
  ASSUME NEW sub, Proper(sub), NEW more, Proper(more), NEW d \in Path, CrawlAssumption,
         \A e \in Path : IsPrefix(sub[e], more[e])
  PROVE  Embeds(Walk(sub)[d], Walk(more)[d])
<1> DEFINE w == Walk(sub)
           v == Walk(more)
           T == {e \in Path : ~ Embeds(w[e], v[e])}
<1>1. \A e \in Path : /\ w[e] = Visit(sub, w, e) /\ v[e] = Visit(more, v, e)
                      /\ RightIn(w, e) /\ RightIn(v, e)
  BY WalkIs, WalkRight
<1> HIDE DEF w, v
<1>2. ASSUME T # {} PROVE FALSE
  <2>1. T \subseteq Path
    OBVIOUS
  <2>2. PICK e \in T : \A p \in Inside(e) : p \notin T
    <3> HIDE DEF T
    <3> QED
      BY <1>2, <2>1, DeepestExists
  <2>3. e \in Path /\ ~ Embeds(w[e], v[e]) /\ \A p \in Inside(e) : Embeds(w[p], v[p])
    BY <2>2 DEF Inside
  <2>4. \A p \in Inside(e) : w[p] \in Seq(Path) /\ v[p] \in Seq(Path)
    BY <1>1 DEF Inside, RightIn
  <2> QED
    BY <1>1, <2>3, <2>4, VisitEmbeds
<1> QED
  BY <1>2 DEF w, v

-----------------------------------------------------------------------------
(* The orders.                                                             *)

LEMMA DirOrderIs == ASSUME NEW sub PROVE DirOrder(sub) = Walk(sub)[Root]
BY DEF DirOrder, Walk, Visit

LEMMA SeqOver ==
  ASSUME NEW S, NEW T, NEW q \in Seq(S), ToSet(q) \subseteq T
  PROVE  q \in Seq(T)
<1>1. Len(q) \in Nat /\ DOMAIN q = 1 .. Len(q) /\ q \in [1 .. Len(q) -> S]
  OBVIOUS
<1>2. \A i \in 1 .. Len(q) : q[i] \in T
  BY <1>1 DEF ToSet
<1>3. q \in [1 .. Len(q) -> T]
  BY <1>1, <1>2
<1> QED
  BY <1>1, <1>3

LEMMA DirsNumbered ==
  ASSUME NEW sub, Proper(sub)
  PROVE  DirOrder(sub) \in Seq(Path) /\ Distinct(DirOrder(sub))
<1>1. RightIn(Walk(sub), Root)
  <2>1. Root \in Path
    BY CrawlAssumption
  <2> QED
    BY <2>1, WalkRight, CrawlAssumption
<1> QED
  BY <1>1, DirOrderIs DEF RightIn

LEMMA DirsKeepOrder ==
  ASSUME NEW sub, Proper(sub), NEW more, Proper(more),
         \A e \in Path : IsPrefix(sub[e], more[e])
  PROVE  Embeds(DirOrder(sub), DirOrder(more))
<1>1. Root \in Path
  BY CrawlAssumption
<1>2. Embeds(Walk(sub)[Root], Walk(more)[Root])
  BY <1>1, WalkEmbeds, CrawlAssumption
<1> QED
  BY <1>2, DirOrderIs

\* The files of each directory that has a number.
LEMMA FilesInTurn ==
  ASSUME NEW sub, Proper(sub), NEW inDir, Proper(inDir),
         NEW n, n = Len(DirOrder(sub)),
         NEW s, s = [i \in DOMAIN DirOrder(sub) |-> inDir[DirOrder(sub)[i]]]
  PROVE  /\ n \in Nat /\ s \in [1 .. n -> Seq(Path \ {Root})]
         /\ \A i \in 1 .. n : s[i] = inDir[DirOrder(sub)[i]] /\ DirOrder(sub)[i] \in Path
         /\ DOMAIN DirOrder(sub) = 1 .. n
         /\ FileOrder(sub, inDir) = FlattenSeq(s)
<1> DEFINE order == DirOrder(sub)
<1>1. order \in Seq(Path)
  BY DirsNumbered
<1>2. FileOrder(sub, inDir) = FlattenSeq(s)
  BY DEF FileOrder
<1> HIDE DEF order
<1>3. n \in Nat /\ DOMAIN order = 1 .. n /\ \A i \in 1 .. n : order[i] \in Path
  BY <1>1 DEF order
<1>4. \A i \in 1 .. n : s[i] = inDir[order[i]]
  BY <1>3 DEF order
<1>5. \A d \in Path : inDir[d] \in Seq(Path \ {Root})
  <2> TAKE d \in Path
  <2>1. inDir[d] \in Seq(Path) /\ ToSet(inDir[d]) \subseteq Inside(d)
    BY DEF Proper
  <2>2. ToSet(inDir[d]) \subseteq Path \ {Root}
    BY <2>1 DEF Inside
  <2> QED
    BY <2>1, <2>2, SeqOver
<1>6. \A i \in 1 .. n : s[i] \in Seq(Path \ {Root})
  BY <1>3, <1>4, <1>5
<1>7. s \in [1 .. n -> Seq(Path \ {Root})]
  BY <1>3, <1>6 DEF order
<1> QED
  BY <1>2, <1>3, <1>4, <1>7 DEF order

LEMMA FilesNumbered ==
  ASSUME NEW sub, Proper(sub), NEW inDir, Proper(inDir)
  PROVE  FileOrder(sub, inDir) \in Seq(Path \ {Root}) /\ Distinct(FileOrder(sub, inDir))
<1> DEFINE order == DirOrder(sub)
           n == Len(order)
           s == [i \in DOMAIN order |-> inDir[order[i]]]
           S == Path \ {Root}
<1>1. /\ n \in Nat /\ s \in [1 .. n -> Seq(S)]
      /\ \A i \in 1 .. n : s[i] = inDir[order[i]] /\ order[i] \in Path
      /\ DOMAIN order = 1 .. n
      /\ FileOrder(sub, inDir) = FlattenSeq(s)
  BY FilesInTurn
<1>2. Distinct(order)
  BY DirsNumbered
<1> HIDE DEF order, n, s
<1>3. \A i \in 1 .. n : Distinct(s[i])
  <2> TAKE i \in 1 .. n
  <2> QED
    BY <1>1 DEF Proper
<1>4. ASSUME NEW i \in 1 .. n, NEW j \in 1 .. n, i # j PROVE ToSet(s[i]) \cap ToSet(s[j]) = {}
  <2>1. ToSet(s[i]) \subseteq Inside(order[i]) /\ ToSet(s[j]) \subseteq Inside(order[j])
    BY <1>1 DEF Proper
  <2>2. order[i] # order[j]
    BY <1>1, <1>2, <1>4 DEF Distinct
  <2> QED
    BY <2>1, <2>2 DEF Inside
<1>5. \A i, j \in 1 .. n : i # j => ToSet(s[i]) \cap ToSet(s[j]) = {}
  BY <1>4
<1> HIDE DEF S
<1>6. n \in Nat /\ s \in [1 .. n -> Seq(S)]
  BY <1>1
<1>7. FlattenSeq(s) \in Seq(S)
  BY <1>6, FlattenHolds
<1>8. Distinct(FlattenSeq(s))
  BY <1>6, <1>3, <1>5, FlattenDistinct
<1> QED
  BY <1>1, <1>7, <1>8 DEF S

LEMMA FilesKeepOrder ==
  ASSUME NEW sub, Proper(sub), NEW more, Proper(more),
         \A e \in Path : IsPrefix(sub[e], more[e]),
         NEW inDir, Proper(inDir), NEW moreIn, Proper(moreIn),
         \A e \in Path : IsPrefix(inDir[e], moreIn[e])
  PROVE  Embeds(FileOrder(sub, inDir), FileOrder(more, moreIn))
<1> DEFINE a == DirOrder(sub)
           b == DirOrder(more)
           n == Len(a)
           k == Len(b)
           s == [i \in DOMAIN a |-> inDir[a[i]]]
           t == [i \in DOMAIN b |-> moreIn[b[i]]]
           S == Path \ {Root}
<1>1. /\ n \in Nat /\ s \in [1 .. n -> Seq(S)]
      /\ \A i \in 1 .. n : s[i] = inDir[a[i]] /\ a[i] \in Path
      /\ DOMAIN a = 1 .. n
      /\ FileOrder(sub, inDir) = FlattenSeq(s)
  BY FilesInTurn
<1>2. /\ k \in Nat /\ t \in [1 .. k -> Seq(S)]
      /\ \A i \in 1 .. k : t[i] = moreIn[b[i]] /\ b[i] \in Path
      /\ DOMAIN b = 1 .. k
      /\ FileOrder(more, moreIn) = FlattenSeq(t)
  BY FilesInTurn
<1>3. Embeds(a, b)
  BY DirsKeepOrder
<1> HIDE DEF a, b, n, k, s, t, S
<1>4. PICK h \in [DOMAIN a -> DOMAIN b] : Rising(h) /\ \A i \in DOMAIN a : a[i] = b[h[i]]
  BY <1>3 DEF Embeds
<1>5. h \in [1 .. n -> 1 .. k]
  BY <1>1, <1>2, <1>4
<1>6. ASSUME NEW i \in 1 .. n PROVE Embeds(s[i], t[h[i]])
  <2>1. h[i] \in 1 .. k /\ a[i] = b[h[i]] /\ a[i] \in Path
    BY <1>1, <1>4, <1>5
  <2>2. s[i] = inDir[a[i]] /\ t[h[i]] = moreIn[a[i]]
    BY <1>1, <1>2, <2>1
  <2>3. inDir[a[i]] \in Seq(Path) /\ moreIn[a[i]] \in Seq(Path) /\ IsPrefix(inDir[a[i]], moreIn[a[i]])
    BY <2>1 DEF Proper
  <2>4. Embeds(inDir[a[i]], moreIn[a[i]])
    BY <2>3, EmbedsPrefix
  <2> QED
    BY <2>2, <2>4
<1>7. n \in Nat /\ k \in Nat /\ s \in [1 .. n -> Seq(S)] /\ t \in [1 .. k -> Seq(S)] /\ Rising(h)
  BY <1>1, <1>2, <1>4
<1>8. Embeds(FlattenSeq(s), FlattenSeq(t))
  BY <1>5, <1>6, <1>7, FlattenEmbeds
<1> QED
  BY <1>1, <1>2, <1>8

LEMMA NumberIs ==
  ASSUME NEW S, NEW order \in Seq(S)
  PROVE  /\ DOMAIN IdIn(order) = ToSet(order)
         /\ \A p \in ToSet(order) :
              /\ IdIn(order)[p] \in Nat /\ IdIn(order)[p] + 1 \in DOMAIN order
              /\ order[IdIn(order)[p] + 1] = p
<1>1. DOMAIN order = 1 .. Len(order) /\ Len(order) \in Nat
  OBVIOUS
<1>2. DOMAIN IdIn(order) = ToSet(order)
  BY DEF IdIn
<1>3. ASSUME NEW p \in ToSet(order)
      PROVE  /\ IdIn(order)[p] \in Nat /\ IdIn(order)[p] + 1 \in DOMAIN order
             /\ order[IdIn(order)[p] + 1] = p
  <2> DEFINE i == CHOOSE i \in DOMAIN order : order[i] = p
  <2>1. \E k \in DOMAIN order : order[k] = p
    BY DEF ToSet
  <2>2. i \in DOMAIN order /\ order[i] = p
    BY <2>1
  <2>3. IdIn(order)[p] = i - 1
    BY DEF IdIn
  <2> HIDE DEF i
  <2>4. i \in 1 .. Len(order)
    BY <1>1, <2>2
  <2>5. IdIn(order)[p] \in Nat /\ IdIn(order)[p] + 1 = i
    BY <1>1, <2>3, <2>4
  <2> QED
    BY <2>2, <2>5
<1> QED
  BY <1>2, <1>3

\* Numbers in an order that another one embeds only grow, and none is lost.
LEMMA EmbeddedNumbers ==
  ASSUME NEW S, NEW a \in Seq(S), NEW b \in Seq(S), Distinct(a), Distinct(b), Embeds(a, b)
  PROVE  /\ DOMAIN IdIn(a) \subseteq DOMAIN IdIn(b)
         /\ \A p \in DOMAIN IdIn(a) : IdIn(a)[p] \in Nat /\ IdIn(b)[p] \in Nat /\ IdIn(a)[p] <= IdIn(b)[p]
<1>1. DOMAIN a = 1 .. Len(a) /\ DOMAIN b = 1 .. Len(b) /\ Len(a) \in Nat /\ Len(b) \in Nat
  OBVIOUS
<1>2. ASSUME NEW p \in ToSet(a)
      PROVE  /\ p \in ToSet(b)
             /\ IdIn(a)[p] \in Nat /\ IdIn(b)[p] \in Nat /\ IdIn(a)[p] <= IdIn(b)[p]
  <2> DEFINE i == IdIn(a)[p] + 1
             k == IdIn(b)[p] + 1
  <2>1. IdIn(a)[p] \in Nat /\ i \in DOMAIN a /\ a[i] = p
    BY NumberIs
  <2>2. PICK j \in DOMAIN b : i <= j /\ a[i] = b[j]
    <3> HIDE DEF i
    <3> QED
      BY <2>1, EmbeddedLater
  <2>3. p \in ToSet(b)
    BY <2>1, <2>2 DEF ToSet
  <2>4. IdIn(b)[p] \in Nat /\ k \in DOMAIN b /\ b[k] = p
    BY <2>3, NumberIs
  <2>5. k = j
    <3> HIDE DEF i, k
    <3> QED
      BY <2>1, <2>2, <2>4 DEF Distinct
  <2>6. j \in Nat
    BY <1>1, <2>2
  <2> QED
    BY <2>1, <2>2, <2>3, <2>4, <2>5, <2>6
<1>3. DOMAIN IdIn(a) = ToSet(a) /\ DOMAIN IdIn(b) = ToSet(b)
  BY NumberIs
<1> QED
  BY <1>2, <1>3

-----------------------------------------------------------------------------
(* The numbers of both trees.                                              *)

\* No directory lists an entry twice: what is added was not there.
OnceInv == \A d \in Path : Distinct(dirs[d]) /\ Distinct(files[d])

LEMMA OnceGrows ==
  ASSUME NEW S, NEW q \in Seq(S), NEW p \in S, Distinct(q), p \notin ToSet(q)
  PROVE  Distinct(WithNew(q, p))
<1>1. Len(q) \in Nat /\ DOMAIN q = 1 .. Len(q)
  OBVIOUS
<1> DEFINE r == Append(q, p)
<1>2. /\ DOMAIN r = DOMAIN q \cup {Len(q) + 1} /\ r[Len(q) + 1] = p
      /\ \A i \in DOMAIN q : r[i] = q[i]
  OBVIOUS
<1>3. \A i \in DOMAIN q : q[i] # p
  BY DEF ToSet
<1> HIDE DEF r
<1>4. Distinct(r)
  BY <1>2, <1>3 DEF Distinct
<1> QED
  BY <1>4 DEF WithNew, r

LEMMA OnceStep ==
  ASSUME CrawlInv, OnceInv, NEW d \in Path, Sync(d) \/ RequestFails(d), CrawlAssumption
  PROVE  OnceInv'
<1>1. dirs \in [Path -> Seq(Path)] /\ files \in [Path -> Seq(Path)]
  BY DEF CrawlInv, CrawlTypes
<1>2. CASE EntryDir(d)
  <2>1. PICK p \in Path : \/ dirs' = dirs
                          \/ p \notin ToSet(dirs[d]) /\ dirs' = [dirs EXCEPT ![d] = WithNew(dirs[d], p)]
    <3>1. \A p \in Listed(d, "dir") : p \in Path
      BY DEF Listed
    <3> QED
      BY <1>2, <3>1, EntryDirDoes
  <2>2. files' = files
    BY <1>2 DEF EntryDir
  <2>3. CASE dirs' = dirs
    BY <2>2, <2>3 DEF OnceInv
  <2>4. CASE p \notin ToSet(dirs[d]) /\ dirs' = [dirs EXCEPT ![d] = WithNew(dirs[d], p)]
    <3>1. dirs[d] \in Seq(Path) /\ Distinct(dirs[d])
      BY <1>1 DEF OnceInv
    <3>2. Distinct(WithNew(dirs[d], p))
      BY <2>4, <3>1, OnceGrows
    <3>3. \A e \in Path : dirs'[e] = IF e = d THEN WithNew(dirs[d], p) ELSE dirs[e]
      BY <1>1, <2>4
    <3> QED
      BY <2>2, <3>2, <3>3 DEF OnceInv
  <2> QED
    BY <2>1, <2>3, <2>4
<1>3. CASE Asked(d)
  <2>1. PICK p \in Path : \/ files' = files
                          \/ p \notin ToSet(files[d]) /\ files' = [files EXCEPT ![d] = WithNew(files[d], p)]
    <3>1. \A p \in Listed(d, "file") : p \in Path
      BY DEF Listed
    <3> QED
      BY <1>3, <3>1, AskedDoes
  <2>2. dirs' = dirs
    BY <1>3 DEF Asked
  <2>3. CASE files' = files
    BY <2>2, <2>3 DEF OnceInv
  <2>4. CASE p \notin ToSet(files[d]) /\ files' = [files EXCEPT ![d] = WithNew(files[d], p)]
    <3>1. files[d] \in Seq(Path) /\ Distinct(files[d])
      BY <1>1 DEF OnceInv
    <3>2. Distinct(WithNew(files[d], p))
      BY <2>4, <3>1, OnceGrows
    <3>3. \A e \in Path : files'[e] = IF e = d THEN WithNew(files[d], p) ELSE files[e]
      BY <1>1, <2>4
    <3> QED
      BY <2>2, <3>2, <3>3 DEF OnceInv
  <2> QED
    BY <2>1, <2>3, <2>4
<1>4. CASE Get(d) \/ Got(d) \/ EntryFile(d) \/ Ask(d) \/ Descend(d) \/ Join(d) \/ RequestFails(d)
  <2>1. dirs' = dirs /\ files' = files
    BY <1>4 DEF Get, Got, EntryFile, Ask, Descend, Join, RequestFails
  <2> QED
    BY <2>1 DEF OnceInv
<1> QED
  BY <1>2, <1>3, <1>4 DEF Sync

LEMMA OnceInvariance == Spec => []OnceInv
<1>1. Init => OnceInv
  BY CrawlAssumption DEF Init, CrawlInit, OnceInv, Distinct, IsInjective
<1>2. ASSUME Inv, OnceInv, [Next]_vars PROVE OnceInv'
  <2>1. CASE \E d \in Path : (Sync(d) \/ RequestFails(d)) /\ UNCHANGED migration
    BY <1>2, <2>1, OnceStep, CrawlAssumption DEF Inv
  <2>2. CASE Migrating \/ BreakOff \/ UNCHANGED vars
    <3>1. dirs' = dirs /\ files' = files
      BY <2>2 DEF Migrating, WriteMigration, NextStatement, MoveRow, MoveBlocked, BreakOff, vars, crawl
    <3> QED
      BY <1>2, <3>1 DEF OnceInv
  <2> QED
    BY <1>2, <2>1, <2>2 DEF Next, Crawling
<1>3. Inv /\ OnceInv /\ [Next]_vars => OnceInv'
  BY <1>2
<1> QED
  BY <1>1, <1>3, Invariance, PTL DEF Spec

LEMMA TreesProper ==
  ASSUME Inv, OnceInv
  PROVE  /\ Proper(BaseDirs) /\ Proper(BaseFiles) /\ Proper(dirs) /\ Proper(files)
         /\ \A d \in Path : IsPrefix(BaseDirs[d], dirs[d]) /\ IsPrefix(BaseFiles[d], files[d])
<1>1. Proper(BaseDirs) /\ Proper(BaseFiles)
  BY CrawlAssumption DEF Proper, Inside, Distinct, IsInjective
<1>2. dirs \in [Path -> Seq(Path)] /\ files \in [Path -> Seq(Path)] /\ \A d \in Path : EntriesOK(d)
  BY DEF Inv, CrawlInv, CrawlTypes, EntriesInv
<1>3. Proper(dirs) /\ Proper(files)
  BY <1>2 DEF Proper, Inside, EntriesOK, OnceInv
<1> QED
  BY <1>1, <1>3 DEF Inv, PrefixInv

\* A path comes in the order of the tree that is written where it came in the baseline's,
\* with others between.
LEMMA OrdersKept ==
  ASSUME Inv, OnceInv
  PROVE  /\ DirOrder(BaseDirs) \in Seq(Path) /\ DirOrder(dirs) \in Seq(Path)
         /\ Distinct(DirOrder(BaseDirs)) /\ Distinct(DirOrder(dirs))
         /\ Embeds(DirOrder(BaseDirs), DirOrder(dirs))
         /\ FileOrder(BaseDirs, BaseFiles) \in Seq(Within) /\ FileOrder(dirs, files) \in Seq(Within)
         /\ Distinct(FileOrder(BaseDirs, BaseFiles)) /\ Distinct(FileOrder(dirs, files))
         /\ Embeds(FileOrder(BaseDirs, BaseFiles), FileOrder(dirs, files))
<1>1. /\ Proper(BaseDirs) /\ Proper(BaseFiles) /\ Proper(dirs) /\ Proper(files)
      /\ \A d \in Path : IsPrefix(BaseDirs[d], dirs[d])
      /\ \A d \in Path : IsPrefix(BaseFiles[d], files[d])
  BY TreesProper
<1>2. DirOrder(BaseDirs) \in Seq(Path) /\ Distinct(DirOrder(BaseDirs))
  BY <1>1, DirsNumbered
<1>3. DirOrder(dirs) \in Seq(Path) /\ Distinct(DirOrder(dirs))
  BY <1>1, DirsNumbered
<1>4. Embeds(DirOrder(BaseDirs), DirOrder(dirs))
  BY <1>1, DirsKeepOrder
<1>5. FileOrder(BaseDirs, BaseFiles) \in Seq(Within) /\ Distinct(FileOrder(BaseDirs, BaseFiles))
  BY <1>1, FilesNumbered DEF Within
<1>6. FileOrder(dirs, files) \in Seq(Within) /\ Distinct(FileOrder(dirs, files))
  BY <1>1, FilesNumbered DEF Within
<1>7. Embeds(FileOrder(BaseDirs, BaseFiles), FileOrder(dirs, files))
  BY <1>1, FilesKeepOrder
<1> QED
  BY <1>2, <1>3, <1>4, <1>5, <1>6, <1>7

LEMMA IdsGrow ==
  ASSUME Inv, OnceInv
  PROVE  /\ DOMAIN OldDirId \subseteq DOMAIN NewDirId /\ DOMAIN OldFileId \subseteq DOMAIN NewFileId
         /\ \A p \in DOMAIN OldDirId :
              OldDirId[p] \in Nat /\ NewDirId[p] \in Nat /\ OldDirId[p] <= NewDirId[p]
         /\ \A p \in DOMAIN OldFileId :
              OldFileId[p] \in Nat /\ NewFileId[p] \in Nat /\ OldFileId[p] <= NewFileId[p]
<1> DEFINE a == DirOrder(BaseDirs)
           b == DirOrder(dirs)
           f == FileOrder(BaseDirs, BaseFiles)
           g == FileOrder(dirs, files)
<1>1. a \in Seq(Path) /\ b \in Seq(Path) /\ Distinct(a) /\ Distinct(b) /\ Embeds(a, b)
  BY OrdersKept
<1>2. f \in Seq(Within) /\ g \in Seq(Within) /\ Distinct(f) /\ Distinct(g) /\ Embeds(f, g)
  BY OrdersKept
<1>3. OldDirId = IdIn(a) /\ NewDirId = IdIn(b) /\ OldFileId = IdIn(f) /\ NewFileId = IdIn(g)
  BY DEF OldDirId, NewDirId, OldFileId, NewFileId
<1> HIDE DEF a, b, f, g
<1>4. /\ DOMAIN IdIn(a) \subseteq DOMAIN IdIn(b)
      /\ \A p \in DOMAIN IdIn(a) : IdIn(a)[p] \in Nat /\ IdIn(b)[p] \in Nat /\ IdIn(a)[p] <= IdIn(b)[p]
  BY <1>1, EmbeddedNumbers
<1>5. /\ DOMAIN IdIn(f) \subseteq DOMAIN IdIn(g)
      /\ \A p \in DOMAIN IdIn(f) : IdIn(f)[p] \in Nat /\ IdIn(g)[p] \in Nat /\ IdIn(f)[p] <= IdIn(g)[p]
  BY <1>2, EmbeddedNumbers
<1> QED
  BY <1>3, <1>4, <1>5

LEMMA Numbered == ASSUME Inv, OnceInv PROVE NumbersKept
<1>1. \A order \in {DirOrder(BaseDirs), DirOrder(dirs)} : order \in Seq(Path) /\ IsInjective(order)
  BY OrdersKept DEF Distinct, IsInjective
<1>2. \A order \in {FileOrder(BaseDirs, BaseFiles), FileOrder(dirs, files)} :
        order \in Seq(Path \ {Root}) /\ IsInjective(order)
  BY OrdersKept DEF Distinct, IsInjective, Within
<1>3. DOMAIN OldDirId \subseteq DOMAIN NewDirId /\ DOMAIN OldFileId \subseteq DOMAIN NewFileId
  BY IdsGrow
<1> QED
  BY <1>1, <1>2, <1>3 DEF NumbersKept

\* buildDFS numbers every path once, in both trees and at every moment of the crawl, and
\* loses none of the baseline, however deep and wide the trees.  (NumbersKept)
THEOREM NumbersAreKept == Spec => []NumbersKept
<1>1. Inv /\ OnceInv => NumbersKept
  BY Numbered
<1> QED
  BY <1>1, Invariance, OnceInvariance, PTL
-----------------------------------------------------------------------------
(* The rows.                                                               *)

Old(t) == IF t = "claims" THEN OldDirId ELSE OldFileId
New(t) == IF t = "claims" THEN NewDirId ELSE NewFileId
Remap == [claims |-> DirRemaps, statuses |-> FileRemaps, archives |-> FileRemaps]

\* Two paths never have one number, in the old tree or the new, and none is lost.
LEMMA OneNumber ==
  ASSUME NumbersKept, NEW t \in Updating
  PROVE  /\ DOMAIN Old(t) \subseteq DOMAIN New(t)
         /\ \A p, q \in DOMAIN Old(t) : Old(t)[p] = Old(t)[q] => p = q
         /\ \A p, q \in DOMAIN New(t) : New(t)[p] = New(t)[q] => p = q
         /\ t # "claims" => \A p \in DOMAIN New(t) : New(t)[p] \in Nat /\ p \in Within
<1>1. ASSUME NEW order, NEW S, order \in Seq(S), NEW p \in DOMAIN IdIn(order),
             NEW q \in DOMAIN IdIn(order), IdIn(order)[p] = IdIn(order)[q]
      PROVE  p = q
  <2>1. p \in ToSet(order) /\ q \in ToSet(order)
    BY <1>1, NumberIs
  <2>2. order[IdIn(order)[p] + 1] = p /\ order[IdIn(order)[q] + 1] = q
    BY <1>1, <2>1, NumberIs
  <2> QED
    BY <1>1, <2>2
<1>2. CASE t = "claims"
  <2>1. DirOrder(BaseDirs) \in Seq(Path) /\ DirOrder(dirs) \in Seq(Path)
    BY DEF NumbersKept
  <2>2. DOMAIN OldDirId \subseteq DOMAIN NewDirId
    BY DEF NumbersKept
  <2> QED
    BY <1>1, <1>2, <2>1, <2>2 DEF Old, New, OldDirId, NewDirId
<1>3. CASE t # "claims"
  <2>1. FileOrder(BaseDirs, BaseFiles) \in Seq(Within) /\ FileOrder(dirs, files) \in Seq(Within)
    BY DEF NumbersKept, Within
  <2>2. DOMAIN OldFileId \subseteq DOMAIN NewFileId
    BY DEF NumbersKept
  <2>3. \A p \in DOMAIN NewFileId : NewFileId[p] \in Nat /\ p \in Within
    <3> TAKE p \in DOMAIN NewFileId
    <3>1. p \in ToSet(FileOrder(dirs, files)) /\ NewFileId[p] \in Nat
      BY <2>1, NumberIs DEF NewFileId
    <3> QED
      BY <2>1, <3>1 DEF ToSet
  <2> QED
    BY <1>1, <1>3, <2>1, <2>2, <2>3 DEF Old, New, OldFileId, NewFileId
<1> QED
  BY <1>2, <1>3

\* The SQL takes the old number of a path to the new one of the same path.
LEMMA RemapIs ==
  ASSUME NumbersKept, CrawlAssumption, MigrationAssumption, NEW t \in Updating
  PROVE  Remap[t] = {<<Old(t)[p], New(t)[p]>> : p \in {p \in DOMAIN Old(t) : Old(t)[p] # New(t)[p]}}
<1>1. CASE t = "claims"
  BY <1>1 DEF Remap, DirRemaps, Old, New
<1>2. CASE t # "claims"
  <2>1. Remap[t] = FileRemaps /\ Old(t) = OldFileId /\ New(t) = NewFileId
    BY <1>2 DEF Remap, Old, New, Updating
  <2> DEFINE new == NewFileId
             newId(p) == Max({new[q] : q \in {q \in DOMAIN new : FilePath(q) = FilePath(p)}})
  <2>2. ASSUME NEW p \in DOMAIN OldFileId
        PROVE  newId(p) = NewFileId[p]
    <3>1. p \in DOMAIN new /\ \A q \in DOMAIN new : q \in Within /\ new[q] \in Nat
      BY <1>2, <2>1, OneNumber
    <3>2. \A q \in DOMAIN new : FilePath(q) = FilePath(p) => q = p
      BY <3>1 DEF FilePath, Within, MigrationAssumption
    <3> HIDE DEF new
    <3>3. {new[q] : q \in {q \in DOMAIN new : FilePath(q) = FilePath(p)}} = {new[p]}
      BY <3>1, <3>2
    <3>4. Max({new[p]}) = new[p]
      BY <3>1 DEF Max
    <3> QED
      BY <3>3, <3>4 DEF new
  <2>3. FileRemaps = {<<OldFileId[p], newId(p)>> : p \in {p \in DOMAIN OldFileId : newId(p) # OldFileId[p]}}
    BY DEF FileRemaps
  <2> HIDE DEF newId, new
  <2> QED
    BY <2>1, <2>2, <2>3
<1> QED
  BY <1>1, <1>2

\* The SQL only ever takes a row to a higher number, so that no row comes to a number
\* that its statement has taken another one away from.  (NumbersGrow)
THEOREM NumbersOnlyGrow == Spec => []NumbersGrow
<1>1. Init => NumbersGrow
  BY DEF Init, NumbersGrow
<1>2. ASSUME Inv, OnceInv, NEW t \in Updating, NEW m \in Remap[t] PROVE m[1] < m[2]
  <2>1. Remap[t] = {<<Old(t)[p], New(t)[p]>> : p \in {p \in DOMAIN Old(t) : Old(t)[p] # New(t)[p]}}
    BY <1>2, Numbered, RemapIs, CrawlAssumption, MigrationAssumption
  <2>2. PICK p \in DOMAIN Old(t) : Old(t)[p] # New(t)[p] /\ m = <<Old(t)[p], New(t)[p]>>
    BY <1>2, <2>1
  <2>3. Old(t)[p] \in Nat /\ New(t)[p] \in Nat /\ Old(t)[p] <= New(t)[p]
    BY <1>2, IdsGrow DEF Old, New
  <2> QED
    BY <2>2, <2>3
<1>3. ASSUME Inv, OnceInv, NumbersGrow, [Next]_vars PROVE NumbersGrow'
  <2>1. remaps' = remaps \/ remaps' = Remap
    BY <1>3 DEF Next, Migrating, WriteMigration, NextStatement, MoveRow, MoveBlocked, BreakOff,
                vars, migration, Remap
  <2>2. CASE remaps' = remaps
    BY <1>3, <2>2 DEF NumbersGrow
  <2>3. CASE remaps' = Remap
    BY <1>2, <1>3, <2>3 DEF NumbersGrow
  <2> QED
    BY <2>1, <2>2, <2>3
<1>4. Inv /\ OnceInv /\ NumbersGrow /\ [Next]_vars => NumbersGrow'
  BY <1>3
<1> QED
  BY <1>1, <1>4, Invariance, OnceInvariance, PTL DEF Spec

\* A row has these three parts and no others.
IsRow(r) == r = [worker |-> r.worker, path |-> r.path, id |-> r.id]

\* Rows of a table with the number some numbering gives their path; and one row at most
\* of a worker for a path.
At(t, id, rows) == \A r \in rows : r.path \in DOMAIN Old(t) /\ r.id = id[r.path]
OncePer(rows) == \A r, q \in rows : r.worker = q.worker /\ r.path = q.path => r = q
RowsFit(rows) == (\A r \in rows : IsRow(r)) /\ OncePer(rows)

Turn == [claims |-> 1, statuses |-> 2, archives |-> 3]

\* The statements take their tables from the old numbers to the new, one after the
\* other, and what a statement has moved it does not move again.
Underway ==
  /\ remaps = Remap
  /\ \A t \in Updating :
       /\ Turn[t] < Turn[phase] => At(t, New(t), table[t])
       /\ Turn[t] > Turn[phase] => At(t, Old(t), table[t])
  /\ At(phase, New(phase), table[phase] \cap moved)
  /\ At(phase, Old(phase), table[phase] \ moved)

RowsInv ==
  /\ \A t \in Updating : RowsFit(table[t]) /\ RowsFit(stored[t])
  /\ phase # "committed" => \A t \in Updating : At(t, Old(t), stored[t])
  /\ phase = "committed" => \A t \in Updating : At(t, New(t), stored[t])
  /\ phase = "crawling" => table = stored /\ moved = {}
  /\ phase # "crawling" => Ended
  /\ phase \in Updating => Underway

LEMMA RowsStart == ASSUME Init, RowsAssumption PROVE RowsInv
<1>1. /\ phase = "crawling" /\ moved = {} /\ table = stored
      /\ stored = [claims |-> RowsOf(Claims, OldDirId), statuses |-> RowsOf(Statuses, OldFileId),
                   archives |-> RowsOf(Archives, OldFileId)]
  BY DEF Init
<1>2. ASSUME NEW t \in Updating
      PROVE  At(t, Old(t), stored[t]) /\ RowsFit(stored[t])
  <2>1. PICK pairs : stored[t] = RowsOf(pairs, Old(t)) /\ \A r \in pairs : r[2] \in DOMAIN Old(t)
    <3>1. CASE t = "claims"
      BY <1>1, <3>1 DEF Old, RowsAssumption
    <3>2. CASE t = "statuses"
      BY <1>1, <3>2 DEF Old, RowsAssumption
    <3>3. CASE t = "archives"
      BY <1>1, <3>3 DEF Old, RowsAssumption
    <3> QED
      BY <3>1, <3>2, <3>3 DEF Updating
  <2>2. \A r \in stored[t] : \E x \in pairs :
          r = [worker |-> x[1], path |-> x[2], id |-> Old(t)[x[2]]]
    BY <2>1 DEF RowsOf
  <2>3. \A r \in stored[t] : IsRow(r) /\ r.path \in DOMAIN Old(t) /\ r.id = Old(t)[r.path]
    BY <2>1, <2>2 DEF IsRow
  <2>4. OncePer(stored[t])
    <3> SUFFICES ASSUME NEW r \in stored[t], NEW q \in stored[t], r.worker = q.worker, r.path = q.path
                 PROVE  r = q
      BY DEF OncePer
    <3>1. r.id = q.id
      BY <2>3
    <3> QED
      BY <2>3, <3>1 DEF IsRow
  <2> QED
    BY <2>3, <2>4 DEF At, RowsFit
<1> QED
  BY <1>1, <1>2 DEF RowsInv, Updating

\* The rows still to be moved are those whose path has got another number, and where
\* they go is that number.
LEMMA Moves ==
  ASSUME RowsInv, NumbersKept, phase \in Updating, NEW r \in table[phase] \ moved,
         CrawlAssumption, MigrationAssumption
  PROVE  /\ r \in ToMove <=> New(phase)[r.path] # Old(phase)[r.path]
         /\ r \in ToMove => Target(r) = New(phase)[r.path]
<1>1. /\ r.path \in DOMAIN Old(phase) /\ r.id = Old(phase)[r.path] /\ remaps[phase] = Remap[phase]
      /\ r \in table[phase] \ moved
  BY DEF RowsInv, Underway, At
<1>2. \A p, q \in DOMAIN Old(phase) : Old(phase)[p] = Old(phase)[q] => p = q
  BY OneNumber
<1>3. remaps[phase] = {<<Old(phase)[p], New(phase)[p]>> :
                         p \in {p \in DOMAIN Old(phase) : Old(phase)[p] # New(phase)[p]}}
  BY <1>1, RemapIs
<1>4. \A m \in remaps[phase] : m[1] = r.id =>
        m[2] = New(phase)[r.path] /\ New(phase)[r.path] # Old(phase)[r.path]
  BY <1>1, <1>2, <1>3
<1>5. ASSUME New(phase)[r.path] # Old(phase)[r.path]
      PROVE  \E m \in remaps[phase] : m[1] = r.id
  <2>1. <<Old(phase)[r.path], New(phase)[r.path]>> \in remaps[phase]
    BY <1>1, <1>3, <1>5
  <2>2. <<Old(phase)[r.path], New(phase)[r.path]>>[1] = r.id
    BY <1>1
  <2> QED
    BY <2>1, <2>2
<1>6. r \in ToMove <=> \E m \in remaps[phase] : m[1] = r.id
  BY <1>1 DEF ToMove
<1>7. r \in ToMove => Target(r) = New(phase)[r.path]
  BY <1>4, <1>6 DEF Target
<1> QED
  BY <1>4, <1>5, <1>6, <1>7

\* The session leaves the numbering alone.
LEMMA NumbersStay ==
  ASSUME UNCHANGED crawl
  PROVE  /\ Ended' = Ended /\ Remap' = Remap
         /\ \A t : Old(t)' = Old(t) /\ New(t)' = New(t)
<1>1. dirs' = dirs /\ files' = files /\ pc' = pc
  BY DEF crawl
<1>2. NewDirId' = NewDirId /\ NewFileId' = NewFileId
  BY <1>1 DEF NewDirId, NewFileId
<1>3. DirRemaps' = DirRemaps /\ FileRemaps' = FileRemaps
  BY <1>2 DEF DirRemaps, FileRemaps
<1>4. Remap' = Remap
  BY <1>3 DEF Remap
<1>5. \A t : Old(t)' = Old(t) /\ New(t)' = New(t)
  BY <1>2 DEF Old, New
<1> QED
  BY <1>1, <1>4, <1>5 DEF Ended
\* What makes the invariant true in the next state when the session takes a step.
LEMMA RowsNext ==
  ASSUME UNCHANGED crawl,
         phase' # "crawling" /\ Ended,
         \A t \in Updating : RowsFit(table'[t]) /\ RowsFit(stored'[t]),
         \A t \in Updating : IF phase' = "committed" THEN At(t, New(t), stored'[t])
                                                     ELSE At(t, Old(t), stored'[t]),
         phase' \in Updating =>
           /\ remaps' = Remap
           /\ \A t \in Updating :
                /\ Turn[t] < Turn[phase'] => At(t, New(t), table'[t])
                /\ Turn[t] > Turn[phase'] => At(t, Old(t), table'[t])
           /\ At(phase', New(phase'), table'[phase'] \cap moved')
           /\ At(phase', Old(phase'), table'[phase'] \ moved')
  PROVE  RowsInv'
<1>1. Ended' /\ Remap' = Remap /\ \A t \in Updating : Old(t)' = Old(t) /\ New(t)' = New(t)
  BY NumbersStay
<1>2. ASSUME phase' \in Updating PROVE Underway'
  <2> DEFINE now == phase'
  <2>1. Old(phase)' = Old(now) /\ New(phase)' = New(now)
    <3>1. New(phase)' = IF phase' = "claims" THEN NewDirId' ELSE NewFileId'
      BY DEF New
    <3>2. dirs' = dirs /\ files' = files
      BY DEF crawl
    <3>3. NewDirId' = NewDirId /\ NewFileId' = NewFileId
      BY <3>2 DEF NewDirId, NewFileId
    <3> QED
      BY <3>1, <3>3 DEF New, Old
  <2> QED
    BY <1>1, <1>2, <2>1 DEF Underway
<1> QED
  BY <1>1, <1>2 DEF RowsInv

LEMMA WriteRows ==
  ASSUME RowsInv, WriteMigration
  PROVE  RowsInv'
<1>1. /\ phase = "crawling" /\ Ended /\ UNCHANGED crawl
      /\ table' = table /\ stored' = stored /\ moved' = moved /\ table = stored /\ moved = {}
      /\ \A t \in Updating : RowsFit(stored[t]) /\ At(t, Old(t), stored[t])
  BY DEF WriteMigration, RowsInv
<1>2. phase' = "failed" \/ (phase' = "claims" /\ remaps' = Remap)
  BY DEF WriteMigration, Remap
<1>3. CASE phase' = "failed"
  BY <1>1, <1>3, RowsNext DEF Updating
<1>4. CASE phase' = "claims" /\ remaps' = Remap
  <2>1. \A t \in Updating : Turn[t] >= 1
    BY DEF Turn, Updating
  <2>2. \A t \in Updating : ~(Turn[t] < Turn[phase'])
    BY <1>4 DEF Turn, Updating
  <2>3. At("claims", New("claims"), table'["claims"] \cap moved')
    BY <1>1 DEF At
  <2>4. At("claims", Old("claims"), table'["claims"] \ moved')
    BY <1>1 DEF Updating
  <2> QED
    BY <1>1, <1>4, <2>2, <2>3, <2>4, RowsNext
<1> QED
  BY <1>2, <1>3, <1>4
LEMMA UndoneRows ==
  ASSUME RowsInv, BreakOff \/ \E r : MoveBlocked(r)
  PROVE  RowsInv'
<1>1. /\ phase \in Updating /\ phase' = "aborted" /\ UNCHANGED crawl
      /\ table' = stored /\ stored' = stored
  BY DEF BreakOff, MoveBlocked, Undone
<1>2. phase # "crawling" /\ phase # "committed" /\ phase' # "crawling" /\ phase' # "committed"
      /\ phase' \notin Updating
  BY <1>1 DEF Updating
<1>3. Ended /\ \A t \in Updating : RowsFit(stored[t]) /\ At(t, Old(t), stored[t])
  BY <1>2 DEF RowsInv
<1> QED
  BY <1>1, <1>2, <1>3, RowsNext

Renumbered(r, id) == [r EXCEPT !.id = id]

LEMMA OnlyTheNumber ==
  ASSUME NEW r, IsRow(r), NEW id
  PROVE  /\ Renumbered(r, id).worker = r.worker /\ Renumbered(r, id).path = r.path
         /\ Renumbered(r, id).id = id /\ IsRow(Renumbered(r, id))
<1> DEFINE new == Renumbered(r, id)
<1>1. r = [worker |-> r.worker, path |-> r.path, id |-> r.id]
  BY DEF IsRow
<1>2. new = [worker |-> r.worker, path |-> r.path, id |-> id]
  BY <1>1 DEF Renumbered
<1>3. new.worker = r.worker /\ new.path = r.path /\ new.id = id
  BY <1>2
<1> QED
  BY <1>2, <1>3 DEF IsRow

\* A row that has got its number takes no other row's worker and path.
LEMMA MovedFits ==
  ASSUME NEW rows, RowsFit(rows), NEW r \in rows, NEW id
  PROVE  RowsFit((rows \ {r}) \cup {Renumbered(r, id)})
<1> DEFINE new == Renumbered(r, id)
<1>1. new.worker = r.worker /\ new.path = r.path /\ IsRow(new)
  BY OnlyTheNumber DEF RowsFit
<1> HIDE DEF new
<1>2. \A q \in (rows \ {r}) \cup {new} : IsRow(q)
  BY <1>1 DEF RowsFit
<1>3. OncePer((rows \ {r}) \cup {new})
  BY <1>1 DEF RowsFit, OncePer
<1> QED
  BY <1>2, <1>3 DEF RowsFit, new

LEMMA MoveRows ==
  ASSUME RowsInv, MigrationTypes, NumbersKept, CrawlAssumption, MigrationAssumption,
         NEW r, MoveRow(r)
  PROVE  RowsInv'
<1> DEFINE new == Renumbered(r, Target(r))
           rows == (table[phase] \ {r}) \cup {new}
<1>1. /\ phase \in Updating /\ phase' = phase /\ UNCHANGED crawl
      /\ stored' = stored /\ remaps' = remaps
      /\ r \in table[phase] \ moved /\ r \in ToMove
      /\ table' = [table EXCEPT ![phase] = rows]
      /\ moved' = moved \cup {new}
  BY DEF MoveRow, ToMove, Renumbered
<1>2. phase # "crawling" /\ phase # "committed"
  BY <1>1 DEF Updating
<1>3. /\ Ended /\ Underway
      /\ \A t \in Updating : RowsFit(table[t]) /\ RowsFit(stored[t]) /\ At(t, Old(t), stored[t])
  BY <1>1, <1>2 DEF RowsInv
<1>4. Target(r) = New(phase)[r.path]
  BY <1>1, Moves
<1>5. new.path = r.path /\ new.id = New(phase)[r.path] /\ RowsFit(rows)
  <2>1. RowsFit(table[phase]) /\ r \in table[phase]
    BY <1>1, <1>3
  <2>2. RowsFit(rows)
    BY <2>1, MovedFits
  <2>3. new.path = r.path /\ new.id = Target(r)
    BY <2>1, OnlyTheNumber DEF RowsFit
  <2> QED
    BY <1>4, <2>2, <2>3
<1>6. r.path \in DOMAIN Old(phase)
  BY <1>1, <1>3 DEF Underway, At
<1>7. \A t \in Updating : table'[t] = IF t = phase THEN rows ELSE table[t]
  BY <1>1 DEF MigrationTypes
<1>8. At(phase, New(phase), rows \cap (moved \cup {new}))
  <2>1. At(phase, New(phase), table[phase] \cap moved)
    BY <1>3 DEF Underway
  <2> HIDE DEF new
  <2> QED
    BY <2>1, <1>5, <1>6 DEF At
<1>9. At(phase, Old(phase), rows \ (moved \cup {new}))
  <2>1. At(phase, Old(phase), table[phase] \ moved)
    BY <1>3 DEF Underway
  <2> HIDE DEF new
  <2> QED
    BY <2>1 DEF At
<1>10. \A t \in Updating :
         /\ Turn[t] < Turn[phase] => At(t, New(t), table[t])
         /\ Turn[t] > Turn[phase] => At(t, Old(t), table[t])
  BY <1>3 DEF Underway
<1>11. \A t \in Updating :
         /\ Turn[t] < Turn[phase'] => At(t, New(t), table'[t])
         /\ Turn[t] > Turn[phase'] => At(t, Old(t), table'[t])
  <2> TAKE t \in Updating
  <2>1. CASE t = phase
    BY <1>1, <2>1 DEF Turn, Updating
  <2>2. CASE t # phase
    BY <1>1, <1>7, <1>10, <2>2
  <2> QED
    BY <2>1, <2>2
<1>12. \A t \in Updating : RowsFit(table'[t]) /\ RowsFit(stored'[t]) /\ At(t, Old(t), stored'[t])
  BY <1>1, <1>3, <1>5, <1>7
<1>13. remaps' = Remap /\ table'[phase'] = rows
  BY <1>1, <1>3, <1>7 DEF Underway
<1> HIDE DEF rows, new
<1> QED
  BY <1>1, <1>2, <1>3, <1>8, <1>9, <1>11, <1>12, <1>13, RowsNext

\* When nothing is left to move, every row of the table has its new number.
LEMMA AllMoved ==
  ASSUME RowsInv, NumbersKept, CrawlAssumption, MigrationAssumption, phase \in Updating,
         ToMove = {}
  PROVE  At(phase, New(phase), table[phase])
<1>1. At(phase, New(phase), table[phase] \cap moved) /\ At(phase, Old(phase), table[phase] \ moved)
  BY DEF RowsInv, Underway
<1>2. \A r \in table[phase] \ moved : New(phase)[r.path] = Old(phase)[r.path]
  BY Moves
<1> QED
  BY <1>1, <1>2 DEF At

LEMMA NextRows ==
  ASSUME RowsInv, NumbersKept, CrawlAssumption, MigrationAssumption, NextStatement
  PROVE  RowsInv'
<1>1. /\ phase \in Updating /\ ToMove = {} /\ UNCHANGED crawl
      /\ table' = table /\ remaps' = remaps /\ moved' = {}
  BY DEF NextStatement
<1>2. phase # "crawling" /\ phase # "committed"
  BY <1>1 DEF Updating
<1>3. /\ Ended /\ Underway
      /\ \A t \in Updating : RowsFit(table[t]) /\ RowsFit(stored[t]) /\ At(t, Old(t), stored[t])
  BY <1>1, <1>2 DEF RowsInv
<1>4. At(phase, New(phase), table[phase])
  BY <1>1, AllMoved
<1>5. /\ remaps = Remap
      /\ \A t \in Updating :
           /\ Turn[t] < Turn[phase] => At(t, New(t), table[t])
           /\ Turn[t] > Turn[phase] => At(t, Old(t), table[t])
  BY <1>3 DEF Underway
<1>6. ASSUME phase' \in Updating, stored' = stored, Turn[phase'] = Turn[phase] + 1
      PROVE  RowsInv'
  <2>1. \A t \in Updating :
          /\ Turn[t] < Turn[phase'] => At(t, New(t), table[t])
          /\ Turn[t] > Turn[phase'] => At(t, Old(t), table[t])
    <3> TAKE t \in Updating
    <3>1. Turn[t] < Turn[phase'] => t = phase \/ Turn[t] < Turn[phase]
      BY <1>1, <1>6 DEF Turn, Updating
    <3>2. Turn[t] > Turn[phase'] => Turn[t] > Turn[phase]
      BY <1>1, <1>6 DEF Turn, Updating
    <3> QED
      BY <1>4, <1>5, <3>1, <3>2
  <2>2. At(phase', Old(phase'), table[phase'])
    <3>1. Turn[phase'] > Turn[phase]
      BY <1>1, <1>6 DEF Turn, Updating
    <3> QED
      BY <1>5, <1>6, <3>1
  <2>3. At(phase', New(phase'), table[phase'] \cap {}) /\ At(phase', Old(phase'), table[phase'] \ {})
    BY <2>2 DEF At
  <2>4. phase' # "crawling" /\ phase' # "committed"
    BY <1>6 DEF Updating
  <2> QED
    BY <1>1, <1>3, <1>5, <1>6, <2>1, <2>3, <2>4, RowsNext
<1>7. CASE phase = "claims"
  BY <1>1, <1>6, <1>7 DEF NextStatement, Turn, Updating
<1>8. CASE phase = "statuses"
  BY <1>1, <1>6, <1>8 DEF NextStatement, Turn, Updating
<1>9. CASE phase = "archives"
  <2>1. phase' = "committed" /\ stored' = table
    BY <1>9 DEF NextStatement
  <2>2. \A t \in Updating : At(t, New(t), table[t])
    BY <1>4, <1>5, <1>9 DEF Turn, Updating
  <2> QED
    BY <1>1, <1>3, <2>1, <2>2, RowsNext DEF Updating
<1> QED
  BY <1>1, <1>7, <1>8, <1>9 DEF Updating
\* The crawl is over before anything is written.
LEMMA CrawlRows ==
  ASSUME RowsInv, GoInv, CrawlAssumption, NEW d \in Path, Sync(d) \/ RequestFails(d),
         UNCHANGED migration
  PROVE  RowsInv'
<1>1. pc[d] \notin {"none"} \cup Over
  BY DEF Sync, RequestFails, Get, Got, EntryDir, EntryFile, Ask, Asked, Descend, Join, Over
<1>2. ~Ended
  BY <1>1, NoneLeft
<1>3. /\ phase' = phase /\ table' = table /\ stored' = stored /\ moved' = moved
      /\ phase = "crawling"
  BY <1>2 DEF migration, RowsInv
<1>4. phase' \notin Updating /\ phase' # "committed"
  BY <1>3 DEF Updating
<1> QED
  BY <1>3, <1>4 DEF RowsInv

LEMMA IdleRows ==
  ASSUME RowsInv, UNCHANGED vars
  PROVE  RowsInv'
<1>1. /\ UNCHANGED crawl /\ phase' = phase /\ table' = table /\ stored' = stored
      /\ moved' = moved /\ remaps' = remaps
  BY DEF vars, migration
<1>2. CASE phase = "crawling"
  <2>1. phase' \notin Updating /\ phase' # "committed"
    BY <1>1, <1>2 DEF Updating
  <2> QED
    BY <1>1, <1>2, <2>1 DEF RowsInv
<1>3. CASE phase # "crawling"
  <2>1. /\ \A t \in Updating : RowsFit(table[t]) /\ RowsFit(stored[t])
        /\ \A t \in Updating : IF phase = "committed" THEN At(t, New(t), stored[t])
                                                      ELSE At(t, Old(t), stored[t])
        /\ Ended
        /\ phase \in Updating => Underway
    BY <1>3 DEF RowsInv
  <2> QED
    BY <1>1, <1>3, <2>1, RowsNext DEF Underway
<1> QED
  BY <1>2, <1>3

LEMMA RowsStep ==
  ASSUME Inv, RowsInv, NumbersKept, [Next]_vars, CrawlAssumption, MigrationAssumption
  PROVE  RowsInv'
<1>1. GoInv /\ MigrationTypes
  BY DEF Inv
<1>2. CASE \E d \in Path : (Sync(d) \/ RequestFails(d)) /\ UNCHANGED migration
  BY <1>1, <1>2, CrawlRows
<1>3. CASE WriteMigration
  BY <1>3, WriteRows
<1>4. CASE NextStatement
  BY <1>4, NextRows
<1>5. ASSUME NEW r, MoveRow(r) PROVE RowsInv'
  BY <1>1, <1>5, MoveRows
<1>6. CASE BreakOff \/ \E r : MoveBlocked(r)
  BY <1>6, UndoneRows
<1>7. CASE UNCHANGED vars
  BY <1>7, IdleRows
<1>8. \/ \E d \in Path : (Sync(d) \/ RequestFails(d)) /\ UNCHANGED migration
      \/ WriteMigration
      \/ NextStatement
      \/ \E r : MoveRow(r)
      \/ BreakOff \/ \E r : MoveBlocked(r)
      \/ UNCHANGED vars
  BY DEF Next, Crawling, Migrating
<1> QED
  BY <1>2, <1>3, <1>4, <1>5, <1>6, <1>7, <1>8

\* Tables before the statement under way are renumbered, those after it are not, and in
\* its own the rows it has moved are told from those it has not.
LEMMA RowsInvariance == Spec => []RowsInv
<1>1. Init => RowsInv
  BY RowsStart, RowsAssumption
<1>2. Inv /\ NumbersKept /\ RowsInv /\ [Next]_vars => RowsInv'
  BY RowsStep, CrawlAssumption, MigrationAssumption
<1> QED
  BY <1>1, <1>2, Invariance, NumbersAreKept, PTL DEF Spec

\* Whatever the SQL does and wherever it breaks off, the server has its rows under the
\* old numbers or, after COMMIT, all of them under the new number of the same path, for
\* every tree, site and set of rows.  (RowsFollowTheTree)
THEOREM RowsFollow == Spec => []RowsFollowTheTree
<1>1. RowsInv => RowsFollowTheTree
  BY DEF RowsInv, RowsFollowTheTree, At, Old, New
<1> QED
  BY <1>1, RowsInvariance, PTL

\* What stops the SQL is only ever a row that it has not come to yet: the new numbers
\* themselves never collide.  (OnlyOrderBlocks)
THEOREM OrderBlocks == Spec => []OnlyOrderBlocks
<1>1. ASSUME RowsInv, NumbersKept, phase \in Updating, NEW r \in ToMove,
             NEW q \in InTheWay(r, Target(r))
      PROVE  q \in ToMove
  <2> DEFINE old == Old(phase)
             new == New(phase)
  <2>1. r \in table[phase] \ moved
    BY <1>1 DEF ToMove
  <2>2. new[r.path] # old[r.path] /\ Target(r) = new[r.path]
    BY <1>1, <2>1, Moves, CrawlAssumption, MigrationAssumption
  <2>3. q \in table[phase] /\ q # r /\ q.worker = r.worker /\ q.id = new[r.path]
    BY <1>1, <2>2 DEF InTheWay
  <2>4. /\ At(phase, new, table[phase] \cap moved) /\ At(phase, old, table[phase] \ moved)
        /\ OncePer(table[phase])
    BY <1>1 DEF RowsInv, Underway, RowsFit
  <2>5. r.path \in DOMAIN old /\ q.path \in DOMAIN old
    BY <2>1, <2>3, <2>4 DEF At
  <2>6. DOMAIN old \subseteq DOMAIN new /\ \A p, s \in DOMAIN new : new[p] = new[s] => p = s
    BY <1>1, OneNumber
  <2>7. q.path # r.path
    BY <2>1, <2>3, <2>4 DEF OncePer
  <2>8. new[q.path] # q.id
    BY <2>3, <2>5, <2>6, <2>7
  <2>9. q \notin moved
    BY <2>3, <2>4, <2>8 DEF At
  <2>10. q.id = old[q.path]
    BY <2>3, <2>4, <2>9 DEF At
  <2>11. New(phase)[q.path] # Old(phase)[q.path]
    BY <2>8, <2>10
  <2> QED
    BY <1>1, <2>3, <2>9, <2>11, Moves, CrawlAssumption, MigrationAssumption
<1>2. RowsInv /\ NumbersKept => OnlyOrderBlocks
  BY <1>1 DEF OnlyOrderBlocks
<1> QED
  BY <1>2, RowsInvariance, NumbersAreKept, PTL

-----------------------------------------------------------------------------
(* The numbers of what is in a directory or below it.                      *)

\* Where the sequences of s stand in f: the i-th ends at at[i].
Blocks(at, s, n, f) ==
  /\ at \in [0 .. n -> Nat] /\ at[0] = 0 /\ Len(f) = at[n]
  /\ \A i \in 1 .. n : /\ at[i] = at[i - 1] + Len(s[i])
                       /\ \A j \in 1 .. Len(s[i]) : f[at[i - 1] + j] = s[i][j]

\* What a has at a place b has there too.
Same(a, b, m) == m \in 1 .. Len(b) /\ b[m] = a[m]

\* What stands in a concatenation stands in the longer ones.
LEMMA SumsStay ==
  ASSUME NEW S, NEW n \in Nat, NEW s \in [1 .. n -> Seq(S)], NEW F \in [1 .. n -> Seq(S)],
         Sums(F, s, n), NEW i \in 1 .. n, NEW m \in 1 .. Len(F[i])
  PROVE  \A k \in i .. n : Same(F[i], F[k], m)
<1> DEFINE T == {k \in i .. n : ~ (m \in 1 .. Len(F[k]) /\ F[k][m] = F[i][m])}
<1>1. SUFFICES ASSUME T # {} PROVE FALSE
  BY DEF Same
<1>2. PICK k \in T : \A j \in T : k <= j
  <2>1. T \subseteq Nat
    OBVIOUS
  <2> HIDE DEF T
  <2> QED
    BY <1>1, <2>1, LeastExists
<1>3. k \in i .. n /\ k # i /\ ~ (m \in 1 .. Len(F[k]) /\ F[k][m] = F[i][m])
  BY <1>2
<1>4. k - 1 \in i .. n /\ ~ (k <= k - 1) /\ k - 1 \in 1 .. n /\ k \in 1 .. n /\ k # 1
  BY <1>3
<1>5. m \in 1 .. Len(F[k - 1]) /\ F[k - 1][m] = F[i][m]
  BY <1>2, <1>4
<1>6. F[k] = F[k - 1] \o s[k] /\ F[k - 1] \in Seq(S) /\ s[k] \in Seq(S)
  BY <1>4 DEF Sums
<1> DEFINE a == F[k - 1]
           b == s[k]
<1>7. a \in Seq(S) /\ b \in Seq(S) /\ F[k] = a \o b /\ m \in 1 .. Len(a)
  BY <1>5, <1>6
<1> HIDE DEF a, b
<1>8. m \in 1 .. Len(a \o b) /\ (a \o b)[m] = a[m]
  BY <1>7
<1> QED
  BY <1>3, <1>5, <1>7, <1>8 DEF a

LEMMA BlocksExist ==
  ASSUME NEW S, NEW n \in Nat, NEW s \in [1 .. n -> Seq(S)]
  PROVE  \E at : Blocks(at, s, n, FlattenSeq(s))
<1>1. CASE n = 0
  <2> DEFINE at == [i \in 0 .. n |-> 0]
  <2>1. FlattenSeq(s) = <<>> /\ Len(<<>>) = 0
    BY <1>1, FlattenIs
  <2>2. at \in [0 .. n -> Nat] /\ at[0] = 0 /\ at[n] = 0 /\ 1 .. n = {}
    BY <1>1
  <2>3. Blocks(at, s, n, FlattenSeq(s))
    BY <2>1, <2>2 DEF Blocks
  <2> QED
    BY <2>3
<1>2. CASE n # 0
  <2>1. PICK F \in [1 .. n -> Seq(S)] : Sums(F, s, n) /\ FlattenSeq(s) = F[n]
    BY <1>2, FlattenIs
  <2> DEFINE at == [i \in 0 .. n |-> IF i = 0 THEN 0 ELSE Len(F[i])]
             f == FlattenSeq(s)
  <2>2. at \in [0 .. n -> Nat] /\ at[0] = 0 /\ Len(f) = at[n]
    BY <1>2, <2>1
  <2>3. ASSUME NEW i \in 1 .. n
        PROVE  /\ at[i] = at[i - 1] + Len(s[i])
               /\ \A j \in 1 .. Len(s[i]) : f[at[i - 1] + j] = s[i][j]
    <3>1. s[i] \in Seq(S) /\ F[i] \in Seq(S) /\ at[i] = Len(F[i])
      OBVIOUS
    <3>2. /\ at[i] = at[i - 1] + Len(s[i])
          /\ \A j \in 1 .. Len(s[i]) :
               at[i - 1] + j \in 1 .. Len(F[i]) /\ F[i][at[i - 1] + j] = s[i][j]
      <4>1. CASE i = 1
        <5>1. F[i] = s[i] /\ at[i - 1] = 0
          BY <2>1, <4>1 DEF Sums
        <5>2. at[i] = Len(F[i])
          BY <3>1
        <5> HIDE DEF at
        <5>3. at[i - 1] + Len(s[i]) = at[i]
          BY <3>1, <5>1, <5>2
        <5>4. \A j \in 1 .. Len(s[i]) : at[i - 1] + j = j
          BY <5>1
        <5> QED
          BY <5>1, <5>3, <5>4
      <4>2. CASE i # 1
        <5>1. i - 1 \in 1 .. n /\ i - 1 # 0
          BY <4>2
        <5>2a. F[i] = F[i - 1] \o s[i]
          BY <2>1, <4>2 DEF Sums
        <5>2b. F[i - 1] \in Seq(S) /\ i - 1 \in 0 .. n
          BY <5>1
        <5>2c. at[i - 1] = Len(F[i - 1])
          BY <5>1, <5>2b
        <5>2. F[i] = F[i - 1] \o s[i] /\ F[i - 1] \in Seq(S) /\ at[i - 1] = Len(F[i - 1])
          BY <5>2a, <5>2b, <5>2c
        <5> DEFINE a == F[i - 1]
                   b == s[i]
        <5>3. /\ a \in Seq(S) /\ b \in Seq(S) /\ F[i] = a \o b /\ at[i - 1] = Len(a)
              /\ at[i] = Len(a \o b)
          BY <3>1, <5>2
        <5> HIDE DEF a, at
        <5>4. Len(a \o b) = Len(a) + Len(b)
          BY <5>3
        <5>5. \A j \in 1 .. Len(b) : Len(a) + j \in 1 .. Len(a \o b) /\ (a \o b)[Len(a) + j] = b[j]
          BY <5>3, <5>4
        <5> QED
          BY <5>3, <5>4, <5>5
      <4> QED
        BY <4>1, <4>2
    <3>3. f = F[n]
      BY <2>1
    <3> HIDE DEF at, f
    <3>4. ASSUME NEW j \in 1 .. Len(s[i]) PROVE f[at[i - 1] + j] = s[i][j]
      <4>1. at[i - 1] + j \in 1 .. Len(F[i]) /\ F[i][at[i - 1] + j] = s[i][j]
        BY <3>2
      <4>2. n \in i .. n
        OBVIOUS
      <4>3. ASSUME NEW m, m = at[i - 1] + j PROVE F[n][m] = F[i][m]
        <5>1. m \in 1 .. Len(F[i])
          BY <4>1, <4>3, Zenon
        <5>2. Same(F[i], F[n], m)
          BY <2>1, <4>2, <5>1, SumsStay
        <5> QED
          BY <5>2 DEF Same
      <4>4. F[n][at[i - 1] + j] = F[i][at[i - 1] + j]
        BY <4>3, Zenon
      <4> QED
        BY <3>3, <4>1, <4>4, Zenon
    <3> QED
      BY <3>2, <3>4
  <2> HIDE DEF at, f
  <2>4. Blocks(at, s, n, f)
    BY <2>2, <2>3 DEF Blocks
  <2> QED
    BY <2>4 DEF f
<1> QED
  BY <1>1, <1>2

LEMMA BlocksRise ==
  ASSUME NEW S, NEW n \in Nat, NEW s \in [1 .. n -> Seq(S)], NEW f, NEW at, Blocks(at, s, n, f),
         NEW i \in 0 .. n
  PROVE  \A k \in i .. n : at[i] <= at[k]
<1> DEFINE T == {k \in i .. n : ~ (at[i] <= at[k])}
<1>1. SUFFICES ASSUME T # {} PROVE FALSE
  OBVIOUS
<1>2. PICK k \in T : \A j \in T : k <= j
  <2>1. T \subseteq Nat
    OBVIOUS
  <2> HIDE DEF T
  <2> QED
    BY <1>1, <2>1, LeastExists
<1>3. k \in i .. n /\ k # i /\ ~ (at[i] <= at[k]) /\ at[i] \in Nat /\ at[k] \in Nat
  BY <1>2 DEF Blocks
<1>4. k - 1 \in i .. n /\ ~ (k <= k - 1) /\ k \in 1 .. n /\ k - 1 \in 0 .. n
  BY <1>3
<1>5. at[i] <= at[k - 1]
  BY <1>2, <1>4
<1>6. at[k] = at[k - 1] + Len(s[k]) /\ Len(s[k]) \in Nat /\ at[k - 1] \in Nat
  BY <1>4 DEF Blocks
<1> QED
  BY <1>3, <1>5, <1>6

\* Every place is in a block.
LEMMA BlockOf ==
  ASSUME NEW S, NEW n \in Nat, NEW s \in [1 .. n -> Seq(S)], NEW f, NEW at, Blocks(at, s, n, f),
         NEW m \in 1 .. Len(f)
  PROVE  \E i \in 1 .. n : /\ at[i - 1] < m /\ m <= at[i]
                           /\ f[m] \in ToSet(s[i])
<1> DEFINE T == {i \in 1 .. n : m <= at[i]}
<1>0. at \in [0 .. n -> Nat] /\ at[0] = 0 /\ Len(f) = at[n] /\ n \in 0 .. n
  BY DEF Blocks
<1>1. T \subseteq Nat /\ T # {}
  <2>1. m <= at[n] /\ m # 0 /\ m \in Nat
    BY <1>0
  <2>2. n # 0
    BY <1>0, <2>1
  <2>3. n \in T
    BY <2>1, <2>2
  <2> HIDE DEF T
  <2>4. T \subseteq Nat
    BY DEF T
  <2> QED
    BY <2>3, <2>4
<1>2. PICK i \in T : \A j \in T : i <= j
  <2> HIDE DEF T
  <2> QED
    BY <1>1, LeastExists
<1>3. i \in 1 .. n /\ m <= at[i] /\ i - 1 \in 0 .. n /\ ~ (i <= i - 1)
  BY <1>2
<1>4. at[i - 1] < m
  <2>1. CASE i = 1
    BY <1>0, <2>1
  <2>2. CASE i # 1
    <3>1. i - 1 \in 1 .. n /\ i - 1 \notin T
      BY <1>2, <1>3, <2>2
    <3>2. at[i - 1] \in Nat /\ m \in Nat
      BY <1>0, <1>3
    <3> QED
      BY <3>1, <3>2
  <2> QED
    BY <2>1, <2>2
<1>5. /\ at[i] = at[i - 1] + Len(s[i]) /\ s[i] \in Seq(S)
      /\ \A j \in 1 .. Len(s[i]) : f[at[i - 1] + j] = s[i][j]
  BY <1>3 DEF Blocks
<1>6. at[i - 1] \in Nat /\ m \in Nat
  BY <1>0, <1>3
<1> DEFINE j == m - at[i - 1]
<1>7. j \in 1 .. Len(s[i]) /\ at[i - 1] + j = m
  BY <1>3, <1>4, <1>5, <1>6
<1> HIDE DEF j, T
<1>8. f[m] = s[i][j]
  BY <1>5, <1>7
<1>9. f[m] \in ToSet(s[i])
  BY <1>5, <1>7, <1>8 DEF ToSet
<1> QED
  BY <1>3, <1>4, <1>9

-----------------------------------------------------------------------------
(* A sequence that stands in another one, nothing between.                 *)

StandsAt(k, a, b) == k + Len(a) <= Len(b) /\ \A i \in 1 .. Len(a) : b[k + i] = a[i]
Part(a, b) == \E k \in Nat : StandsAt(k, a, b)

LEMMA PartSelf ==
  ASSUME NEW S, NEW a \in Seq(S)
  PROVE  Part(a, a)
<1>1. Len(a) \in Nat /\ 0 + Len(a) <= Len(a) /\ \A i \in 1 .. Len(a) : a[0 + i] = a[i]
  OBVIOUS
<1>2. StandsAt(0, a, a)
  BY <1>1 DEF StandsAt
<1> QED
  BY <1>2 DEF Part

LEMMA PartTransitive ==
  ASSUME NEW S, NEW a \in Seq(S), NEW b \in Seq(S), NEW c \in Seq(S), Part(a, b), Part(b, c)
  PROVE  Part(a, c)
<1>1. PICK k \in Nat : StandsAt(k, a, b)
  BY DEF Part
<1>2. PICK j \in Nat : StandsAt(j, b, c)
  BY DEF Part
<1>3. Len(a) \in Nat /\ Len(b) \in Nat /\ Len(c) \in Nat /\ k + j \in Nat
  OBVIOUS
<1>4. k + Len(a) <= Len(b) /\ j + Len(b) <= Len(c)
  BY <1>1, <1>2 DEF StandsAt
<1>5. (k + j) + Len(a) <= Len(c)
  BY <1>3, <1>4
<1>6. ASSUME NEW i \in 1 .. Len(a) PROVE c[(k + j) + i] = a[i]
  <2>1. b[k + i] = a[i]
    BY <1>1 DEF StandsAt
  <2>2. k + i \in 1 .. Len(b) /\ j + (k + i) = (k + j) + i
    BY <1>3, <1>4
  <2>3. c[j + (k + i)] = b[k + i]
    BY <1>2, <2>2 DEF StandsAt
  <2> QED
    BY <2>1, <2>2, <2>3
<1>7. StandsAt(k + j, a, c)
  BY <1>5, <1>6 DEF StandsAt
<1> QED
  BY <1>3, <1>7 DEF Part

LEMMA PartBehind ==
  ASSUME NEW S, NEW a \in Seq(S), NEW b \in Seq(S)
  PROVE  Part(b, a \o b)
<1> DEFINE c == a \o b
<1>1. Len(a) \in Nat /\ Len(b) \in Nat /\ Len(c) = Len(a) + Len(b)
  OBVIOUS
<1>2. \A i \in 1 .. Len(b) : c[Len(a) + i] = b[i]
  OBVIOUS
<1> HIDE DEF c
<1>3. StandsAt(Len(a), b, c)
  BY <1>1, <1>2 DEF StandsAt
<1>4. Part(b, c)
  BY <1>1, <1>3 DEF Part
<1> QED
  BY <1>4 DEF c

LEMMA PartFlatten ==
  ASSUME NEW S, NEW n \in Nat, NEW s \in [1 .. n -> Seq(S)], NEW i \in 1 .. n
  PROVE  Part(s[i], FlattenSeq(s))
<1> DEFINE f == FlattenSeq(s)
<1>1. PICK at : Blocks(at, s, n, f)
  BY BlocksExist
<1> HIDE DEF f
<1>2. n \in Nat /\ s \in [1 .. n -> Seq(S)]
  OBVIOUS
<1>3. at \in [0 .. n -> Nat] /\ Len(f) = at[n] /\ at[i] = at[i - 1] + Len(s[i])
  BY <1>1 DEF Blocks
<1>4. i \in 0 .. n /\ i - 1 \in 0 .. n /\ n \in i .. n /\ n \in 0 .. n
  BY <1>2
<1>5. \A k \in i .. n : at[i] <= at[k]
  BY <1>1, <1>2, <1>4, BlocksRise
<1>6. at[i - 1] + Len(s[i]) <= Len(f) /\ at[i - 1] \in Nat
  BY <1>3, <1>4, <1>5
<1>7. \A j \in 1 .. Len(s[i]) : f[at[i - 1] + j] = s[i][j]
  BY <1>1 DEF Blocks
<1>8. StandsAt(at[i - 1], s[i], f)
  BY <1>6, <1>7 DEF StandsAt
<1>9. Part(s[i], f)
  BY <1>6, <1>8 DEF Part
<1> QED
  BY <1>9 DEF f

LEMMA PartHolds ==
  ASSUME NEW S, NEW a \in Seq(S), NEW b \in Seq(S), Part(a, b)
  PROVE  ToSet(a) \subseteq ToSet(b)
<1>1. PICK k \in Nat : StandsAt(k, a, b)
  BY DEF Part
<1>2. Len(a) \in Nat /\ DOMAIN a = 1 .. Len(a) /\ Len(b) \in Nat /\ DOMAIN b = 1 .. Len(b)
  OBVIOUS
<1>3. ASSUME NEW i \in 1 .. Len(a) PROVE a[i] \in ToSet(b)
  <2>1. k + i \in 1 .. Len(b)
    BY <1>1, <1>2 DEF StandsAt
  <2>2. b[k + i] = a[i]
    BY <1>1 DEF StandsAt
  <2> QED
    BY <1>2, <2>1, <2>2 DEF ToSet
<1> QED
  BY <1>2, <1>3 DEF ToSet

-----------------------------------------------------------------------------
(* The walk of a directory is one piece of the walk of what it is in.      *)

LEMMA InFront ==
  ASSUME NEW S, NEW d \in S, NEW b \in Seq(S)
  PROVE  /\ Len(<<d>> \o b) = 1 + Len(b) /\ Len(b) \in Nat
         /\ (<<d>> \o b)[1] = d
OBVIOUS

\* The walk comes to a directory first.
LEMMA VisitStarts ==
  ASSUME NEW sub, Proper(sub), NEW d \in Path
  PROVE  /\ Len(Walk(sub)[d]) \in Nat /\ 1 <= Len(Walk(sub)[d]) /\ Walk(sub)[d][1] = d
         /\ d \in ToSet(Walk(sub)[d])
<1> DEFINE rest == FlattenSeq([i \in DOMAIN sub[d] |-> Walk(sub)[sub[d][i]]])
           w == Walk(sub)[d]
           here == <<d>>
<1>1. w \in Seq(Path)
  BY WalkRight, CrawlAssumption DEF RightIn
<1>2. w = here \o rest
  <2>1. w = Visit(sub, Walk(sub), d)
    BY WalkIs, CrawlAssumption
  <2> QED
    BY <2>1 DEF Visit
<1>3. rest \in Seq(Path)
  <2> DEFINE n == Len(sub[d])
             s == [i \in DOMAIN sub[d] |-> Walk(sub)[sub[d][i]]]
  <2>1. n \in Nat /\ DOMAIN sub[d] = 1 .. n /\ \A i \in 1 .. n : sub[d][i] \in Path
    BY InDirIs DEF Inside
  <2> HIDE DEF n
  <2>2. \A i \in 1 .. n : s[i] \in Seq(Path)
    BY <2>1, WalkRight, CrawlAssumption DEF RightIn
  <2>3. s \in [1 .. n -> Seq(Path)]
    BY <2>1, <2>2
  <2>4. rest = FlattenSeq(s)
    OBVIOUS
  <2> HIDE DEF s, rest
  <2>5. n \in Nat
    BY <2>1
  <2> QED
    BY <2>3, <2>4, <2>5, FlattenHolds
<1> HIDE DEF w
<1>4. rest \in Seq(Path) /\ w = <<d>> \o rest
  BY <1>2, <1>3
<1>5. Len(w) \in Nat /\ 1 <= Len(w) /\ w[1] = d /\ DOMAIN w = 1 .. Len(w)
  <2> HIDE DEF rest, w
  <2>1. Len(w) = 1 + Len(rest) /\ w[1] = d /\ Len(rest) \in Nat
    BY <1>4, InFront
  <2>2. DOMAIN w = 1 .. Len(w)
    BY <1>1
  <2> QED
    BY <2>1, <2>2
<1>6. 1 \in DOMAIN w /\ w[1] = d
  BY <1>5
<1>7. d \in ToSet(w)
  BY <1>6 DEF ToSet
<1> QED
  BY <1>5, <1>7 DEF w

\* What a directory lists is walked in one piece of its walk.
LEMMA ChildPart ==
  ASSUME NEW sub, Proper(sub), NEW d \in Path, NEW p \in ToSet(sub[d])
  PROVE  p \in Inside(d) /\ Part(Walk(sub)[p], Walk(sub)[d])
<1> DEFINE walk == Walk(sub)
           n == Len(sub[d])
           s == [i \in DOMAIN sub[d] |-> walk[sub[d][i]]]
           here == <<d>>
<1>1. n \in Nat /\ DOMAIN sub[d] = 1 .. n /\ \A i \in 1 .. n : sub[d][i] \in Inside(d)
  BY InDirIs
<1>2. walk[d] = here \o FlattenSeq(s)
  <2>1. walk[d] = Visit(sub, walk, d)
    BY WalkIs, CrawlAssumption
  <2> QED
    BY <2>1 DEF Visit
<1>3. \A e \in Path : walk[e] \in Seq(Path)
  BY WalkRight, CrawlAssumption DEF RightIn
<1> HIDE DEF n, walk
<1>4. PICK i \in 1 .. n : sub[d][i] = p
  BY <1>1 DEF ToSet
<1>5. \A j \in 1 .. n : s[j] \in Seq(Path)
  BY <1>1, <1>3 DEF Inside
<1>6. s \in [1 .. n -> Seq(Path)] /\ n \in Nat
  BY <1>1, <1>5
<1>7. s[i] = walk[p]
  BY <1>1, <1>4
<1> HIDE DEF s
<1> DEFINE rest == FlattenSeq(s)
<1>8. here \in Seq(Path)
  OBVIOUS
<1>9. rest \in Seq(Path)
  BY <1>6, FlattenHolds
<1>10. Part(s[i], rest)
  BY <1>6, PartFlatten
<1> HIDE DEF rest, here
<1>11. Part(rest, here \o rest) /\ here \o rest \in Seq(Path)
  BY <1>8, <1>9, PartBehind
<1>12. p \in Path
  BY <1>1, <1>4 DEF Inside
<1>13. walk[p] \in Seq(Path) /\ Part(walk[p], rest)
  BY <1>3, <1>7, <1>10, <1>12
<1>14. Part(walk[p], here \o rest)
  BY <1>9, <1>11, <1>13, PartTransitive
<1> QED
  BY <1>1, <1>2, <1>4, <1>14 DEF walk, rest

\* A directory the walk comes to is walked in one piece, and is listed by the
\* directory it is in, which the walk comes to as well.
HoldsBelow(sub, x) ==
  \A d \in ToSet(Walk(sub)[x]) :
    /\ d \in Path /\ Part(Walk(sub)[d], Walk(sub)[x])
    /\ d # x => /\ d # Root /\ Up[d] \in ToSet(Walk(sub)[x])
                /\ d \in ToSet(sub[Up[d]])

LEMMA VisitHolds ==
  ASSUME NEW sub, Proper(sub), NEW x \in Path, \A p \in Inside(x) : HoldsBelow(sub, p)
  PROVE  HoldsBelow(sub, x)
<1> DEFINE walk == Walk(sub)
           n == Len(sub[x])
           s == [i \in DOMAIN sub[x] |-> walk[sub[x][i]]]
           here == <<x>>
           rest == FlattenSeq(s)
<1>1. n \in Nat /\ DOMAIN sub[x] = 1 .. n /\ \A i \in 1 .. n : sub[x][i] \in Inside(x)
  BY InDirIs
<1>2. walk[x] = here \o rest
  <2>1. walk[x] = Visit(sub, walk, x)
    BY WalkIs, CrawlAssumption
  <2> QED
    BY <2>1 DEF Visit
<1>3. \A e \in Path : walk[e] \in Seq(Path)
  BY WalkRight, CrawlAssumption DEF RightIn
<1>30. x \in ToSet(walk[x])
  BY VisitStarts
<1> HIDE DEF n, walk
<1>4. \A j \in 1 .. n : s[j] \in Seq(Path) /\ s[j] = walk[sub[x][j]]
  BY <1>1, <1>3 DEF Inside
<1>5. s \in [1 .. n -> Seq(Path)] /\ n \in Nat
  BY <1>1, <1>4
<1> HIDE DEF s
<1>6. rest \in Seq(Path) /\ \A e \in ToSet(rest) : \E i \in 1 .. n : e \in ToSet(s[i])
  BY <1>5, FlattenHolds
<1>7. here \in Seq(Path) /\ ToSet(here) = {x}
  BY DEF ToSet
<1> HIDE DEF rest, here
<1>8. ToSet(here \o rest) = ToSet(here) \cup ToSet(rest)
  BY <1>6, <1>7, Concats
<1>9. ASSUME NEW d \in ToSet(walk[x])
      PROVE  /\ d \in Path /\ Part(walk[d], walk[x])
             /\ d # x => d # Root /\ Up[d] \in ToSet(walk[x]) /\ d \in ToSet(sub[Up[d]])
  <2>1. CASE d = x
    <3>1. Part(walk[x], walk[x])
      BY <1>3, PartSelf
    <3> QED
      BY <2>1, <3>1
  <2>2. CASE d # x
    <3>1. d \in ToSet(rest)
      BY <1>2, <1>7, <1>8, <2>2
    <3>2. PICK i \in 1 .. n : d \in ToSet(s[i])
      BY <1>6, <3>1
    <3> DEFINE p == sub[x][i]
    <3>3. p \in Inside(x) /\ p \in ToSet(sub[x]) /\ d \in ToSet(walk[p])
      <4>1. p \in ToSet(sub[x])
        BY <1>1 DEF ToSet
      <4>2. s[i] = walk[p]
        BY <1>4
      <4> QED
        BY <1>1, <3>2, <4>1, <4>2
    <3> HIDE DEF p
    <3>4. p \in Path /\ p # Root /\ Up[p] = x
      BY <3>3 DEF Inside
    <3>5. /\ d \in Path /\ Part(walk[d], walk[p])
          /\ d # p => d # Root /\ Up[d] \in ToSet(walk[p]) /\ d \in ToSet(sub[Up[d]])
      BY <3>3 DEF HoldsBelow, walk
    <3>6. Part(walk[p], walk[x])
      BY <3>3, ChildPart DEF walk
    <3>7. walk[d] \in Seq(Path) /\ walk[p] \in Seq(Path) /\ walk[x] \in Seq(Path)
      BY <1>3, <3>4, <3>5
    <3>8. Part(walk[d], walk[x])
      BY <3>5, <3>6, <3>7, PartTransitive
    <3>9. ToSet(walk[p]) \subseteq ToSet(walk[x])
      BY <3>6, <3>7, PartHolds
    <3>10. CASE d = p
      BY <1>30, <3>3, <3>4, <3>5, <3>8, <3>10
    <3>11. CASE d # p
      BY <3>5, <3>8, <3>9, <3>11
    <3> QED
      BY <3>10, <3>11
  <2> QED
    BY <2>1, <2>2
<1> QED
  BY <1>9 DEF HoldsBelow, walk

LEMMA WalkHolds ==
  ASSUME NEW sub, Proper(sub), NEW d \in Path
  PROVE  HoldsBelow(sub, d)
<1> DEFINE T == {e \in Path : ~ HoldsBelow(sub, e)}
<1>1. ASSUME T # {} PROVE FALSE
  <2>1. T \subseteq Path
    OBVIOUS
  <2>2. PICK e \in T : \A p \in Inside(e) : p \notin T
    <3> HIDE DEF T
    <3> QED
      BY <1>1, <2>1, DeepestExists, CrawlAssumption
  <2>3. e \in Path /\ ~ HoldsBelow(sub, e)
    BY <2>2
  <2>4. \A p \in Inside(e) : HoldsBelow(sub, p)
    BY <2>2 DEF Inside
  <2> QED
    BY <2>3, <2>4, VisitHolds
<1> QED
  BY <1>1

-----------------------------------------------------------------------------
(* The four things TreeShape assumes, of any two proper trees.             *)

\* What the walk comes to in a directory is what is in or below it, and the walk of
\* the directory is one piece of the order.
LEMMA PieceOf ==
  ASSUME NEW sub, Proper(sub), NEW d \in ToSet(DirOrder(sub))
  PROVE  /\ d \in Path /\ Walk(sub)[d] \in Seq(Path)
         /\ Part(Walk(sub)[d], DirOrder(sub))
         /\ d # Root => /\ Up[d] \in ToSet(DirOrder(sub))
                        /\ d \in ToSet(sub[Up[d]])
<1>1. Root \in Path
  BY CrawlAssumption
<1>2. HoldsBelow(sub, Root)
  BY <1>1, WalkHolds
<1>3. DirOrder(sub) = Walk(sub)[Root]
  BY DirOrderIs
<1>4. /\ d \in Path /\ Part(Walk(sub)[d], DirOrder(sub))
      /\ d # Root => Up[d] \in ToSet(DirOrder(sub)) /\ d \in ToSet(sub[Up[d]])
  BY <1>2, <1>3 DEF HoldsBelow
<1>5. Walk(sub)[d] \in Seq(Path)
  BY <1>4, WalkRight, CrawlAssumption DEF RightIn
<1> QED
  BY <1>4, <1>5

LEMMA InPieceIs ==
  ASSUME NEW sub, Proper(sub), NEW d \in ToSet(DirOrder(sub)), NEW e \in ToSet(DirOrder(sub))
  PROVE  d \in Above(e) <=> e \in ToSet(Walk(sub)[d])
<1> DEFINE order == DirOrder(sub)
           walk == Walk(sub)
           S == {x \in ToSet(order) : e \in ToSet(walk[x])}
<1>1. d \in Path /\ e \in Path
  BY PieceOf
<1>2. ASSUME e \in ToSet(walk[d]) PROVE d \in Above(e)
  BY <1>1, <1>2, WalkRight, CrawlAssumption DEF RightIn
<1>3. e \in S
  BY <1>1, VisitStarts
<1>4. S \subseteq Path
  BY PieceOf
<1>5. ASSUME NEW x \in S, x # Root PROVE Up[x] \in S
  <2>1. x \in ToSet(order) /\ e \in ToSet(walk[x])
    OBVIOUS
  <2>2. Up[x] \in ToSet(order) /\ x \in ToSet(sub[Up[x]])
    BY <1>5, <2>1, PieceOf
  <2>3. Up[x] \in Path /\ x \in Path /\ walk[x] \in Seq(Path) /\ walk[Up[x]] \in Seq(Path)
    BY <2>1, <2>2, PieceOf
  <2>4. Part(walk[x], walk[Up[x]])
    BY <2>2, <2>3, ChildPart
  <2> HIDE DEF walk
  <2>5. ToSet(walk[x]) \subseteq ToSet(walk[Up[x]])
    BY <2>3, <2>4, PartHolds
  <2> QED
    BY <2>1, <2>2, <2>5
<1> HIDE DEF S
<1>6. Upward(S)
  BY <1>5 DEF Upward
<1>7. Above(e) \subseteq S
  BY <1>1, <1>3, <1>4, <1>6, AboveLeast
<1>8. ASSUME d \in Above(e) PROVE e \in ToSet(walk[d])
  BY <1>7, <1>8 DEF S
<1> QED
  BY <1>2, <1>8

\* The root is first.
LEMMA RootFirst ==
  ASSUME NEW sub, Proper(sub)
  PROVE  /\ DirOrder(sub) \in Seq(Path) /\ DirOrder(sub) # <<>> /\ DirOrder(sub)[1] = Root
         /\ 1 \in DOMAIN DirOrder(sub)
<1>1. Root \in Path
  BY CrawlAssumption
<1> DEFINE order == DirOrder(sub)
<1>2. order \in Seq(Path)
  BY DirsNumbered
<1>3. Len(order) \in Nat /\ 1 <= Len(order) /\ order[1] = Root
  BY <1>1, VisitStarts, DirOrderIs
<1> HIDE DEF order
<1>4. DOMAIN order = 1 .. Len(order) /\ order # <<>>
  BY <1>2, <1>3
<1> QED
  BY <1>2, <1>3, <1>4 DEF order

\* A directory is numbered after the one it is in.
LEMMA ParentFirst ==
  ASSUME NEW sub, Proper(sub), NEW j \in DOMAIN DirOrder(sub), j # 1
  PROVE  \E i \in 1 .. j - 1 : DirOrder(sub)[i] = Up[DirOrder(sub)[j]]
<1> DEFINE order == DirOrder(sub)
           p == order[j]
           q == Up[p]
           w == Walk(sub)[q]
<1>1. order \in Seq(Path) /\ order[1] = Root /\ 1 \in DOMAIN order /\ Distinct(order)
  BY RootFirst, DirsNumbered
<1>2. p # Root /\ p \in ToSet(order)
  BY <1>1 DEF Distinct, ToSet
<1>3. p \in Path /\ q \in ToSet(order) /\ p \in ToSet(sub[q])
  BY <1>2, PieceOf
<1>4. q \in Path /\ w \in Seq(Path) /\ Part(w, order)
  BY <1>3, PieceOf
<1>5. Len(w) \in Nat /\ 1 <= Len(w) /\ w[1] = q
  BY <1>4, VisitStarts
<1>6. p \in ToSet(w)
  <2>1. Part(Walk(sub)[p], w)
    BY <1>3, <1>4, ChildPart
  <2>2. Walk(sub)[p] \in Seq(Path) /\ p \in ToSet(Walk(sub)[p])
    BY <1>2, <1>3, PieceOf, VisitStarts
  <2> DEFINE v == Walk(sub)[p]
  <2> HIDE DEF v, w
  <2>3. ToSet(v) \subseteq ToSet(w)
    BY <1>4, <2>1, <2>2, PartHolds DEF v
  <2> QED
    BY <2>2, <2>3 DEF v
<1>7. p # q
  <2>1. p \in Path \ {Root}
    BY <1>2, <1>3
  <2>2. p \notin Above(q)
    BY <2>1, NoCycle, CrawlAssumption
  <2> QED
    BY <1>4, <2>2, AboveIs, CrawlAssumption
<1>8. PICK k \in Nat : StandsAt(k, w, order)
  BY <1>4 DEF Part
<1> HIDE DEF w
<1>9. PICK i \in 1 .. Len(w) : w[i] = p
  <2>1. DOMAIN w = 1 .. Len(w)
    BY <1>4
  <2> QED
    BY <1>6, <2>1 DEF ToSet
<1>10. i # 1
  BY <1>5, <1>7, <1>9
<1> HIDE DEF p, q, order
<1>11. order[k + i] = p /\ order[k + 1] = q
  BY <1>5, <1>8, <1>9 DEF StandsAt
<1>12. k + Len(w) <= Len(order) /\ Len(order) \in Nat /\ DOMAIN order = 1 .. Len(order)
  BY <1>1, <1>8 DEF StandsAt
<1>13. k + i \in DOMAIN order
  BY <1>5, <1>9, <1>12
<1>14. j \in DOMAIN order /\ order[j] = p
  BY DEF p, order
<1>15. k + i = j
  BY <1>1, <1>11, <1>13, <1>14 DEF Distinct
<1>16. k + 1 \in 1 .. j - 1
  BY <1>5, <1>9, <1>10, <1>12, <1>14, <1>15
<1> QED
  BY <1>11, <1>16 DEF order, p, q

\* Where a directory of the order stands in it: those in or below it are one range.
LEMMA DirsInRange ==
  ASSUME NEW sub, Proper(sub), NEW d \in ToSet(DirOrder(sub))
  PROVE  \E lo, hi \in 0 .. Len(DirOrder(sub)) :
           /\ lo <= hi
           /\ \A i \in DOMAIN DirOrder(sub) :
                d \in Above(DirOrder(sub)[i]) <=> i \in lo + 1 .. hi
<1> DEFINE order == DirOrder(sub)
           w == Walk(sub)[d]
<1>1. order \in Seq(Path) /\ Distinct(order)
  BY DirsNumbered
<1>2. w \in Seq(Path) /\ Part(w, order)
  BY PieceOf
<1>3. \A i \in DOMAIN order : d \in Above(order[i]) <=> order[i] \in ToSet(w)
  <2> TAKE i \in DOMAIN order
  <2>1. order[i] \in ToSet(order)
    BY DEF ToSet
  <2> QED
    BY <2>1, InPieceIs
<1> HIDE DEF order, w
<1>4. PICK k \in Nat : StandsAt(k, w, order)
  BY <1>2 DEF Part
<1>5. Len(w) \in Nat /\ Len(order) \in Nat /\ DOMAIN w = 1 .. Len(w) /\ DOMAIN order = 1 .. Len(order)
  BY <1>1, <1>2
<1>6. k + Len(w) <= Len(order) /\ \A i \in 1 .. Len(w) : order[k + i] = w[i]
  BY <1>4 DEF StandsAt
<1>7. k \in 0 .. Len(order) /\ k + Len(w) \in 0 .. Len(order) /\ k <= k + Len(w)
  BY <1>5, <1>6
<1>8. ASSUME NEW i \in DOMAIN order, order[i] \in ToSet(w) PROVE i \in k + 1 .. k + Len(w)
  <2>1. PICK m \in 1 .. Len(w) : w[m] = order[i]
    BY <1>5, <1>8 DEF ToSet
  <2>2. order[k + m] = order[i]
    BY <1>6, <2>1
  <2>3. k + m \in DOMAIN order
    BY <1>5, <1>6, <2>1
  <2>4. k + m = i
    BY <1>1, <2>2, <2>3 DEF Distinct
  <2> QED
    BY <1>5, <2>1, <2>4
<1>9. ASSUME NEW i \in DOMAIN order, i \in k + 1 .. k + Len(w) PROVE order[i] \in ToSet(w)
  <2> DEFINE m == i - k
  <2>1. m \in 1 .. Len(w) /\ k + m = i
    BY <1>5, <1>9
  <2> HIDE DEF m
  <2>2. order[i] = w[m]
    BY <1>6, <2>1
  <2> QED
    BY <1>5, <2>1, <2>2 DEF ToSet
<1>10. \A i \in DOMAIN order : d \in Above(order[i]) <=> i \in k + 1 .. k + Len(w)
  BY <1>3, <1>8, <1>9
<1> QED
  BY <1>7, <1>10 DEF order

\* The files in or below a directory are one range of numbers, and a file belongs to
\* a directory that has a number.
LEMMA FilesInRange ==
  ASSUME NEW sub, Proper(sub), NEW inDir, Proper(inDir)
  PROVE  /\ \A m \in DOMAIN FileOrder(sub, inDir) :
              Up[FileOrder(sub, inDir)[m]] \in ToSet(DirOrder(sub))
         /\ \A d \in ToSet(DirOrder(sub)) :
              \E start, end \in 1 .. Len(FileOrder(sub, inDir)) + 1 :
                \A m \in DOMAIN FileOrder(sub, inDir) :
                  d \in Above(Up[FileOrder(sub, inDir)[m]]) <=> m \in start .. end - 1
<1> DEFINE order == DirOrder(sub)
           f == FileOrder(sub, inDir)
           n == Len(order)
           s == [i \in DOMAIN order |-> inDir[order[i]]]
           W == Path \ {Root}
<1>1. /\ n \in Nat /\ s \in [1 .. n -> Seq(W)]
      /\ \A i \in 1 .. n : s[i] = inDir[order[i]] /\ order[i] \in Path
      /\ DOMAIN order = 1 .. n
      /\ f = FlattenSeq(s)
  BY FilesInTurn
<1>2. f \in Seq(W)
  BY FilesNumbered
<1>3. \A d \in ToSet(order) : \E lo, hi \in 0 .. n :
        /\ lo <= hi
        /\ \A i \in DOMAIN order : d \in Above(order[i]) <=> i \in lo + 1 .. hi
  BY DirsInRange
<1> HIDE DEF order, f, n, s, W
<1>4. n \in Nat /\ s \in [1 .. n -> Seq(W)]
  BY <1>1
<1>5. PICK at : Blocks(at, s, n, f)
  BY <1>1, <1>4, BlocksExist
<1>6. at \in [0 .. n -> Nat] /\ Len(f) = at[n] /\ DOMAIN f = 1 .. Len(f) /\ n \in 0 .. n
  BY <1>2, <1>4, <1>5 DEF Blocks
<1>7. ASSUME NEW m \in DOMAIN f
      PROVE  \E i \in 1 .. n : at[i - 1] < m /\ m <= at[i] /\ Up[f[m]] = order[i]
  <2>1. PICK i \in 1 .. n : at[i - 1] < m /\ m <= at[i] /\ f[m] \in ToSet(s[i])
    BY <1>4, <1>5, <1>6, BlockOf
  <2>2. ToSet(inDir[order[i]]) \subseteq Inside(order[i]) /\ s[i] = inDir[order[i]]
    BY <1>1 DEF Proper
  <2>3. Up[f[m]] = order[i]
    BY <2>1, <2>2 DEF Inside
  <2> QED
    BY <2>1, <2>3
<1>8. ASSUME NEW i \in 0 .. n, NEW k \in 0 .. n, i <= k PROVE at[i] <= at[k]
  <2>1. \A j \in i .. n : at[i] <= at[j]
    BY <1>4, <1>5, BlocksRise
  <2>2. k \in i .. n
    BY <1>4, <1>8
  <2> QED
    BY <2>1, <2>2
<1>9. ASSUME NEW m \in DOMAIN f PROVE Up[f[m]] \in ToSet(order)
  <2>1. PICK i \in 1 .. n : Up[f[m]] = order[i]
    BY <1>7
  <2> QED
    BY <1>1, <2>1 DEF ToSet
<1>10. ASSUME NEW d \in ToSet(order)
       PROVE  \E start, end \in 1 .. Len(f) + 1 :
                \A m \in DOMAIN f : d \in Above(Up[f[m]]) <=> m \in start .. end - 1
  <2>1. PICK lo \in 0 .. n, hi \in 0 .. n :
          /\ lo <= hi
          /\ \A i \in DOMAIN order : d \in Above(order[i]) <=> i \in lo + 1 .. hi
    BY <1>3
  <2> DEFINE start == at[lo] + 1
             end == at[hi] + 1
  <2>2. at[lo] \in Nat /\ at[hi] \in Nat /\ at[lo] <= Len(f) /\ at[hi] <= Len(f) /\ Len(f) \in Nat
    <3>1. lo <= n /\ hi <= n
      BY <1>4
    <3> QED
      BY <1>6, <1>8, <3>1
  <2>3. start \in 1 .. Len(f) + 1 /\ end \in 1 .. Len(f) + 1
    BY <2>2
  <2>4. ASSUME NEW m \in DOMAIN f
        PROVE  d \in Above(Up[f[m]]) <=> m \in start .. end - 1
    <3>1. PICK i \in 1 .. n : at[i - 1] < m /\ m <= at[i] /\ Up[f[m]] = order[i]
      BY <1>7
    <3>2. m \in Nat /\ i \in Nat /\ lo \in Nat /\ hi \in Nat
      BY <1>6
    <3>3. i - 1 \in 0 .. n /\ i \in 0 .. n /\ at[i - 1] \in Nat /\ at[i] \in Nat
      BY <1>6
    <3>4. d \in Above(Up[f[m]]) <=> i \in lo + 1 .. hi
      BY <1>1, <2>1, <3>1
    <3>5. lo <= i - 1 => at[lo] <= at[i - 1]
      BY <1>8, <3>3
    <3>6. i <= lo => at[i] <= at[lo]
      BY <1>8, <3>3
    <3>7. i <= hi => at[i] <= at[hi]
      BY <1>8, <3>3
    <3>8. hi <= i - 1 => at[hi] <= at[i - 1]
      BY <1>8, <3>3
    <3>9. m \in start .. end - 1 <=> at[lo] < m /\ m <= at[hi]
      BY <2>2, <3>2
    <3>10. at[lo] < m <=> lo + 1 <= i
      BY <2>2, <3>1, <3>2, <3>3, <3>5, <3>6
    <3>11. m <= at[hi] <=> i <= hi
      BY <2>2, <3>1, <3>2, <3>3, <3>7, <3>8
    <3>12. i \in lo + 1 .. hi <=> lo + 1 <= i /\ i <= hi
      BY <3>2
    <3> QED
      BY <3>4, <3>9, <3>10, <3>11, <3>12
  <2> HIDE DEF start, end
  <2> QED
    BY <2>3, <2>4
<1> QED
  BY <1>9, <1>10 DEF order, f

LEMMA LineageIs ==
  ASSUME NEW p \in Path
  PROVE  Lineage[p] = Above(p)
BY DEF Lineage, Above, Upward

LEMMA RangesRight ==
  ASSUME Proper(dirs), Proper(files)
  PROVE  RangesHold
<1> DEFINE order == DirOrder(dirs)
           inOrder == FileOrder(dirs, files)
<1>1. order # <<>> /\ order[1] = Root
  BY RootFirst
<1>2. \A j \in DOMAIN order : j # 1 => \E i \in 1 .. j - 1 : order[i] = Up[order[j]]
  BY ParentFirst
<1>3. \A k \in DOMAIN inOrder : Up[inOrder[k]] \in ToSet(order)
  BY FilesInRange
<1>4. \A d \in ToSet(order) : \E start, end \in 1 .. Len(inOrder) + 1 :
        \A k \in DOMAIN inOrder : d \in Above(Up[inOrder[k]]) <=> k \in start .. end - 1
  BY FilesInRange
<1>5. \A d \in ToSet(order) : d \in Path
  BY PieceOf
<1> HIDE DEF order, inOrder
<1>6. \A k \in DOMAIN inOrder : Lineage[Up[inOrder[k]]] = Above(Up[inOrder[k]])
  BY <1>3, <1>5, LineageIs
<1>7. \A d \in ToSet(order) : \E start, end \in 1 .. Len(inOrder) + 1 :
        \A k \in DOMAIN inOrder : d \in Lineage[Up[inOrder[k]]] <=> k \in start .. end - 1
  <2> TAKE d \in ToSet(order)
  <2>1. PICK start \in 1 .. Len(inOrder) + 1, end \in 1 .. Len(inOrder) + 1 :
          \A k \in DOMAIN inOrder : d \in Above(Up[inOrder[k]]) <=> k \in start .. end - 1
    BY <1>4
  <2>2. \A k \in DOMAIN inOrder : d \in Lineage[Up[inOrder[k]]] <=> k \in start .. end - 1
    <3> TAKE k \in DOMAIN inOrder
    <3>1. Lineage[Up[inOrder[k]]] = Above(Up[inOrder[k]])
      BY <1>6
    <3>2. d \in Above(Up[inOrder[k]]) <=> k \in start .. end - 1
      BY <2>1
    <3> QED
      BY <3>1, <3>2, Zenon
  <2> QED
    BY <2>2
<1> QED
  BY <1>1, <1>2, <1>3, <1>7 DEF RangesHold, order, inOrder

\* What everybody else takes for granted about a tree (TreeAssumption) is what buildDFS
\* computes: at every moment of every crawl, in trees of any depth and width, the root
\* is first, a directory is numbered after the one it is in, a file belongs to a
\* numbered directory, and the files in or below a directory are one range of
\* numbers.  (RangesHold)
THEOREM RangesAreRight == Spec => []RangesHold
<1>1. Inv /\ OnceInv => RangesHold
  BY TreesProper, RangesRight
<1> QED
  BY <1>1, Invariance, OnceInvariance, PTL

=============================================================================
