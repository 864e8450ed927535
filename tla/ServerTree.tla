----------------------------- MODULE ServerTree -----------------------------
(***************************************************************************)
(* The server's picture of the archive: internal/server/tree.go, the       *)
(* item_status table it is rebuilt from at start-up, and the loop of       *)
(* Hub.handleFileReport (internal/server/wsrpc.go) that updates both, one  *)
(* after the other and without a transaction around them.                  *)
(***************************************************************************)
EXTENDS TreeShape, FiniteSets

CONSTANTS Worker,      \* worker keys
          Anon,        \* the key "" that stands for a NULL worker_key
          SHA1,        \* the hashes a report may carry
          NoSHA1,      \* a NULL hash
          Absent,      \* no entry in the per-file hash map
          Handler,     \* goroutines serving one connection each
          NoHandler,   \* no connection registered
          Idle,        \* the goroutine is not between the two updates
          NoRow,       \* no row in item_status
          LegacyRows,  \* rows earlier versions may have left in item_status
          Overlap,     \* may a replaced connection still be inside a report?
          CountWidth   \* values of FileExt.ReportCount, a uint8

\* protocol.TaskStatus
StatusNone       == 0
StatusDownloaded == 1
StatusVerified   == 2
StatusArchived   == 3
StatusFailed     == 4
Status == StatusNone .. StatusFailed
Counted == Status \ {StatusNone}

Keys == Worker \cup {Anon}
Row == [status : Status, sha1 : SHA1 \cup {NoSHA1}, keyed : BOOLEAN]

ASSUME ServerAssumption ==
  /\ IsFiniteSet(Worker)
  /\ Anon \notin Worker
  /\ Worker # {}
  /\ NoSHA1 \notin SHA1
  /\ Absent \notin SHA1 \cup {NoSHA1}
  /\ NoHandler \notin Handler
  /\ Idle \notin Worker \X Files \X SHA1
  /\ NoRow \notin Row
  /\ LegacyRows \subseteq Row
  /\ Overlap \in BOOLEAN
  /\ CountWidth \in Nat \ {0}

VARIABLES
  itemStatus,     \* table item_status: its row per worker and file
  bestStatus,     \* FileExt.BestStatus
  reportCount,    \* FileExt.ReportCount
  conflicts,      \* the files whose FileExt.HasConflict is set
  fileHashes,     \* ServerTree.fileHashes
  statusCount,    \* DirExt.Downloaded, Verified, Archived, Failed by status
  conflictCount,  \* DirExt.Conflict
  conns,          \* Hub.conns: the registered connection of a worker
  applying,       \* the report a goroutine has stored and not yet applied
  behind          \* rows stored by an upsert whose answer was lost

tree == <<bestStatus, reportCount, conflicts, fileHashes, statusCount, conflictCount>>
vars == <<itemStatus, tree, conns, applying, behind>>

-----------------------------------------------------------------------------
(* hasConflictLocked.  The loop over the map takes the first non-nil hash  *)
(* as reference; whether a nil hash counts as different from it depends on *)
(* the iteration order, which Go leaves open.                              *)

Reporters(m) == {k \in Keys : m[k] # Absent}

\* A mutant of ConflictOutcomes: compares only once three workers have reported.
MutThreeReporters(m) ==
  IF Cardinality(Reporters(m)) < 3 THEN {FALSE} ELSE {Cardinality({m[k] : k \in Reporters(m)}) > 1}

ConflictOutcomes(m) ==
  LET known == {m[k] : k \in Reporters(m)}
      real  == known \ {NoSHA1}
  IN  IF Cardinality(Reporters(m)) < 2 THEN {FALSE}
      ELSE IF Cardinality(real) > 1 THEN {TRUE}
      ELSE IF real # {} /\ NoSHA1 \in known THEN BOOLEAN
      ELSE {FALSE}

-----------------------------------------------------------------------------
(* hydrateFromState: rebuild everything from the rows of item_status.      *)

RowsOf(db, f)     == {w \in Worker : db[w][f] # NoRow}
NullKeyed(db, f)  == {w \in RowsOf(db, f) : ~ db[w][f].keyed}

\* Status and conflict totals of every directory, counted from scratch.
RecountStatus(best) ==
  [d \in Dirs |-> [s \in Counted |-> Cardinality({f \in Span(d) : best[f] = s})]]
RecountConflict(conf) == [d \in Dirs |-> Cardinality(conf \cap Span(d))]

HydratedBest(db) ==
  [f \in Files |->
     LET seen == {StatusNone} \cup {db[w][f].status : w \in RowsOf(db, f)}
     IN  CHOOSE s \in seen : \A t \in seen : t <= s]

\* A mutant of HydratedHashes: start-up restores the status only.
MutNoHashes(db, last) == [f \in Files |-> [k \in Keys |-> Absent]]

\* Rows with a NULL worker_key all land on the map key "", each overwriting the
\* one before; last[f] is the worker whose row the scan returns last.
HydratedHashes(db, last) ==
  [f \in Files |->
     [k \in Keys |->
        IF k = Anon
        THEN IF NullKeyed(db, f) = {} THEN Absent ELSE db[last[f]][f].sha1
        ELSE IF k \in RowsOf(db, f) \ NullKeyed(db, f) THEN db[k][f].sha1 ELSE Absent]]

Hydrated(db, best, hashes, count, conf, sc, cc) ==
  /\ best = HydratedBest(db)
  /\ \E last \in [Files -> Worker] :
       /\ \A f \in Files : NullKeyed(db, f) # {} => last[f] \in NullKeyed(db, f)
       /\ hashes = HydratedHashes(db, last)
  /\ count = [f \in Files |-> Cardinality(Reporters(hashes[f])) % CountWidth]
  /\ \E c \in SUBSET Files :
       /\ \A f \in Files : (f \in c) \in ConflictOutcomes(hashes[f])
       /\ conf = c
  /\ sc = RecountStatus(best)
  /\ cc = RecountConflict(conf)

\* main: LoadTree and HydrateFromDB run before the server accepts connections.
Init ==
  /\ itemStatus \in [Worker -> [Files -> LegacyRows \cup {NoRow}]]
  /\ Hydrated(itemStatus, bestStatus, fileHashes, reportCount, conflicts,
              statusCount, conflictCount)
  /\ conns = [w \in Worker |-> NoHandler]
  /\ applying = [h \in Handler |-> Idle]
  /\ behind = {}

-----------------------------------------------------------------------------
\* HandleWS: register goroutine h for w, cancelling the connection it replaces.
Connect(h, w) ==
  /\ \A v \in Worker : conns[v] # h
  /\ applying[h] = Idle
  /\ (~Overlap /\ conns[w] \in Handler) => applying[conns[w]] = Idle
  /\ conns' = [conns EXCEPT ![w] = h]
  /\ UNCHANGED <<itemStatus, tree, applying, behind>>

\* handleFileReport, first half: UpsertItemStatusByKey overwrites the row of
\* (worker, file) with the live status, which is always StatusVerified.
Store(w, f, sha1) ==
  itemStatus' = [itemStatus EXCEPT ![w][f] =
                   [status |-> StatusVerified, sha1 |-> sha1, keyed |-> TRUE]]

Upsert(h, w, f, sha1) ==
  /\ conns[w] = h
  /\ applying[h] = Idle
  /\ Store(w, f, sha1)
  /\ applying' = [applying EXCEPT ![h] = <<w, f, sha1>>]
  /\ UNCHANGED <<tree, conns, behind>>

\* The statement commits but its answer is lost: handleFileReport returns the
\* error and applies nothing.
UpsertUnanswered(h, w, f, sha1) ==
  /\ conns[w] = h
  /\ applying[h] = Idle
  /\ Store(w, f, sha1)
  /\ behind' = behind \cup {<<w, f>>}
  /\ UNCHANGED <<tree, conns, applying>>

\* A mutant of BubbleStatus: takes away the new status and adds the old one.
MutSwapped(f, old, new) ==
  [d \in Dirs |->
     IF d \notin Lineage[DirIdx[f]] THEN statusCount[d]
     ELSE [s \in Counted |-> statusCount[d][s] + (IF s = old THEN 1 ELSE 0)
                                               - (IF s = new THEN 1 ELSE 0)]]

\* bubbleDelta: move one file's contribution in every directory above it.
BubbleStatus(f, old, new) ==
  [d \in Dirs |->
     IF d \notin Lineage[DirIdx[f]] THEN statusCount[d]
     ELSE [s \in Counted |-> statusCount[d][s] - (IF s = old THEN 1 ELSE 0)
                                               + (IF s = new THEN 1 ELSE 0)]]

BubbleConflict(f, old, new) ==
  [d \in Dirs |->
     IF d \notin Lineage[DirIdx[f]] THEN conflictCount[d]
     ELSE conflictCount[d] - (IF old /\ ~new THEN 1 ELSE 0)
                           + (IF ~old /\ new THEN 1 ELSE 0)]

\* A mutant of NothingToBubble: an unchanged status hides a changed flag.
MutStatusOnly(oldStatus, newStatus, oldConflict, newConflict) == oldStatus = newStatus

\* The early return of bubbleDelta.
NothingToBubble(oldStatus, newStatus, oldConflict, newConflict) ==
  oldStatus = newStatus /\ (oldConflict <=> newConflict)

\* A mutant of TrackHash: a worker's first hash stays.
MutKeepFirst(m, w, sha1) ==
  IF sha1 = NoSHA1 \/ m[w] # Absent THEN m ELSE [m EXCEPT ![w] = sha1]

\* The map entry ApplyReport writes; a nil hash leaves the map alone.
TrackHash(m, w, sha1) == IF sha1 = NoSHA1 THEN m ELSE [m EXCEPT ![w] = sha1]

BetterStatus(old, status) == IF status > old THEN status ELSE old

\* ApplyReport, under ServerTree.mu.
ApplyReport(f, w, status, sha1) ==
  LET m    == TrackHash(fileHashes[f], w, sha1)
      best == BetterStatus(bestStatus[f], status)
  IN  \E conflict \in ConflictOutcomes(m) :
        /\ fileHashes' = [fileHashes EXCEPT ![f] = m]
        /\ reportCount' =
             [reportCount EXCEPT ![f] =
                IF Reporters(m) # {} THEN Cardinality(Reporters(m)) % CountWidth
                ELSE IF @ = 0 THEN 1 ELSE @]
        /\ bestStatus' = [bestStatus EXCEPT ![f] = best]
        /\ conflicts' = IF conflict THEN conflicts \cup {f} ELSE conflicts \ {f}
        /\ IF NothingToBubble(bestStatus[f], best, f \in conflicts, conflict)
           THEN UNCHANGED <<statusCount, conflictCount>>
           ELSE /\ statusCount' = BubbleStatus(f, bestStatus[f], best)
                /\ conflictCount' = BubbleConflict(f, f \in conflicts, conflict)

\* handleFileReport, second half.
Apply(h) ==
  /\ applying[h] # Idle
  /\ LET w == applying[h][1]
         f == applying[h][2]
     IN  /\ ApplyReport(f, w, StatusVerified, applying[h][3])
         /\ behind' = behind \ {<<w, f>>}
  /\ applying' = [applying EXCEPT ![h] = Idle]
  /\ UNCHANGED <<itemStatus, conns>>

\* The connection ends after its last report: HandleWS leaves Hub.conns only if
\* it is still the registered one.
Disconnect(h, w) ==
  /\ conns[w] = h
  /\ applying[h] = Idle
  /\ conns' = [conns EXCEPT ![w] = NoHandler]
  /\ UNCHANGED <<itemStatus, tree, applying, behind>>

\* The process dies at any point; the next one hydrates from what is stored.
Restart ==
  /\ Hydrated(itemStatus, bestStatus', fileHashes', reportCount', conflicts',
              statusCount', conflictCount')
  /\ conns' = [w \in Worker |-> NoHandler]
  /\ applying' = [h \in Handler |-> Idle]
  /\ behind' = {}
  /\ UNCHANGED itemStatus

Next ==
  \/ \E h \in Handler, w \in Worker : Connect(h, w) \/ Disconnect(h, w)
  \/ \E h \in Handler, w \in Worker, f \in Files, sha1 \in SHA1 :
       Upsert(h, w, f, sha1) \/ UpsertUnanswered(h, w, f, sha1)
  \/ \E h \in Handler : Apply(h)
  \/ Restart

Spec == Init /\ [][Next]_vars

-----------------------------------------------------------------------------
\* Types of the table, the tree and the hub; a total never drops below zero, as
\* it would if bubbleDelta took away what it never added.
TypeOK ==
  /\ itemStatus \in [Worker -> [Files -> Row \cup {NoRow}]]
  /\ bestStatus \in [Files -> Status]
  /\ reportCount \in [Files -> 0 .. CountWidth]
  /\ conflicts \subseteq Files
  /\ fileHashes \in [Files -> [Keys -> SHA1 \cup {NoSHA1, Absent}]]
  /\ statusCount \in [Dirs -> [Counted -> Nat]]
  /\ conflictCount \in [Dirs -> Nat]
  /\ conns \in [Worker -> Handler \cup {NoHandler}]
  /\ applying \in [Handler -> (Worker \X Files \X SHA1) \cup {Idle}]
  /\ behind \subseteq Worker \X Files

\* The totals that the statistics endpoints serve for a directory, maintained by
\* moving one file's contribution along the parent chain (bubbleDelta), are at
\* every moment what counting its file range from scratch would give
\* (recomputeAllStatsLocked).  Status and conflict move independently.
AggregatesMatch ==
  /\ statusCount = RecountStatus(bestStatus)
  /\ conflictCount = RecountConflict(conflicts)

\* A file is flagged exactly when two of the hashes the tree knows differ,
\* whatever the order reports and re-reports of several workers came in
\* (ApplyReport re-evaluates all hashes, it may also clear the flag).  Only the
\* hashes of legacy rows can be NULL; with those the flag is not a function of
\* the hashes.
ConflictFlagExact ==
  \A f \in Files :
    LET known == {fileHashes[f][k] : k \in Reporters(fileHashes[f])}
    IN  NoSHA1 \notin known => (f \in conflicts <=> Cardinality(known) > 1)

\* No update is under way or was cut short between the two stores.
Quiescent == behind = {} /\ \A h \in Handler : applying[h] = Idle

\* A restart is invisible: once every stored report has been applied, the live
\* tree (best status, hash map, conflict flags) is the one that hydration from
\* item_status would rebuild, so the statistics do not change when the server
\* restarts.
RestartInvisible ==
  Quiescent =>
    /\ bestStatus = HydratedBest(itemStatus)
    /\ \A f \in Files, w \in Worker :
         fileHashes[f][w] = IF itemStatus[w][f] = NoRow THEN Absent
                            ELSE itemStatus[w][f].sha1

\* Two rows that disagree about a file's hash are reported as a conflict, as
\* soon as no update is under way.
StoredConflictSeen ==
  Quiescent =>
    \A f \in Files :
      (\E v, w \in RowsOf(itemStatus, f) :
         /\ itemStatus[v][f].sha1 \in SHA1
         /\ itemStatus[w][f].sha1 \in SHA1
         /\ itemStatus[v][f].sha1 # itemStatus[w][f].sha1)
      => f \in conflicts

=============================================================================
