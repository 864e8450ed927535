----------------------------- MODULE TreeMigration -----------------------------
(***************************************************************************)
(* The rescue command (cmd/rescue-crawler): crawl, write the new tree and  *)
(* the SQL that renumbers what the server has stored                       *)
(* (internal/rescuecrawl/report.go), and PostgreSQL executing that SQL.    *)
(* Directories and files are numbered depth first (buildDFS in             *)
(* pkg/myrienttree/tree.go), so what is inserted moves what comes after.   *)
(***************************************************************************)
EXTENDS RescueCrawl

CONSTANTS Name,      \* the last part of a path
          Claims,    \* rows of reclaims: a worker and the directory it is about
          Statuses,  \* rows of item_status: a worker and the file it is about
          Archives   \* rows of archive_status

\* No two paths have both the directory and the name in common.
ASSUME MigrationAssumption ==
  /\ Name \in [Path -> Nat]
  /\ \A p, q \in Path \ {Root} : Up[p] = Up[q] /\ Name[p] = Name[q] => p = q

VARIABLES
  phase,  \* "crawling", "failed", "claims", "statuses", "archives", "committed", "aborted"
  remaps, \* per table, the old and new numbers in the SQL
  moved,  \* rows the statement under way has updated
  table,  \* per table, rows with their number as the transaction sees them
  stored  \* the same as everybody else sees them

migration == <<phase, remaps, moved, table, stored>>
vars == <<remote, crawl, faults, migration>>

-----------------------------------------------------------------------------
(* Numbering.                                                              *)

\* A mutant of DirOrder: level by level, as with a queue in place of the recursion.
MutLevels(subdirs) ==
  LET level[n \in Nat] ==
        IF n = 0 THEN <<Root>>
        ELSE FlattenSeq([i \in DOMAIN level[n - 1] |-> subdirs[level[n - 1][i]]])
  IN  FlattenSeq([n \in 1 .. Cardinality(Path) |-> level[n - 1]])

\* buildDFS: a directory, then those below it in order.
DirOrder(subdirs) ==
  LET walk[d \in Path] == <<d>> \o FlattenSeq([i \in DOMAIN subdirs[d] |-> walk[subdirs[d][i]]])
  IN  walk[Root]

\* buildDFS: the files of a directory, then those of the directories below it.
FileOrder(subdirs, inDir) ==
  LET order == DirOrder(subdirs)
  IN  FlattenSeq([i \in DOMAIN order |-> inDir[order[i]]])

\* Numbers in an order.
IdIn(order) == [p \in ToSet(order) |-> (CHOOSE i \in DOMAIN order : order[i] = p) - 1]

OldDirId  == IdIn(DirOrder(BaseDirs))
OldFileId == IdIn(FileOrder(BaseDirs, BaseFiles))
NewDirId  == IdIn(DirOrder(dirs))
NewFileId == IdIn(FileOrder(dirs, files))

\* What the server has stored is about paths of the baseline.
ASSUME RowsAssumption ==
  /\ \A r \in Claims : r[2] \in DOMAIN OldDirId
  /\ \A r \in Statuses \cup Archives : r[2] \in DOMAIN OldFileId

\* A mutant of FilePath: the name without its directory.
MutNameOnly(p) == Name[p]

\* FilePath
FilePath(p) == <<Up[p], Name[p]>>

\* A mutant of DirRemaps: the numbers change places.
MutSwapped ==
  {<<NewDirId[p], OldDirId[p]>> : p \in {p \in DOMAIN OldDirId : OldDirId[p] # NewDirId[p]}}

\* BuildDirRemaps: old numbers that are other numbers now, with these.
DirRemaps == {<<OldDirId[p], NewDirId[p]>> : p \in {p \in DOMAIN OldDirId : OldDirId[p] # NewDirId[p]}}

\* BuildFileRemaps: the last file of a path gives the new number.
FileRemaps ==
  LET new == NewFileId
      newId(p) == Max({new[q] : q \in {q \in DOMAIN new : FilePath(q) = FilePath(p)}})
  IN  {<<OldFileId[p], newId(p)>> : p \in {p \in DOMAIN OldFileId : newId(p) # OldFileId[p]}}

-----------------------------------------------------------------------------
(* The transaction of WriteMigrationSQL.                                   *)

Updating == {"claims", "statuses", "archives"}

\* A row: whose it is, the path it is about, which only the model knows, and its number.
RowsOf(pairs, id) == {[worker |-> r[1], path |-> r[2], id |-> id[r[2]]] : r \in pairs}

Init ==
  /\ CrawlInit
  /\ phase = "crawling" /\ moved = {}
  /\ remaps = [t \in Updating |-> {}]
  /\ stored = [claims |-> RowsOf(Claims, OldDirId), statuses |-> RowsOf(Statuses, OldFileId),
               archives |-> RowsOf(Archives, OldFileId)]
  /\ table = stored

\* main after Sync: on an error nothing is written; otherwise the new tree and
\* the SQL, which is executed from BEGIN on.
WriteMigration ==
  /\ phase = "crawling" /\ Ended
  /\ IF pc[Root] = "done"
     THEN /\ phase' = "claims"
          /\ remaps' = [claims |-> DirRemaps, statuses |-> FileRemaps, archives |-> FileRemaps]
     ELSE phase' = "failed" /\ UNCHANGED remaps
  /\ UNCHANGED <<remote, crawl, faults, moved, table, stored>>

\* Rows the WHERE of the statement selects that are not updated yet; a row that
\* was updated is not looked at again.
ToMove == {r \in table[phase] \ moved : \E m \in remaps[phase] : m[1] = r.id}

\* The primary key of item_status and the unique index of reclaims; archive_status
\* has none on its files.
InTheWay(r, id) ==
  IF phase = "archives" THEN {}
  ELSE {q \in table[phase] \ {r} : q.worker = r.worker /\ q.id = id}

\* The number the map has for a row's.
Target(r) == (CHOOSE m \in remaps[phase] : m[1] = r.id)[2]

\* UPDATE handles one row, in an order of its own; uniqueness is checked at once.
MoveRow(r) ==
  LET new == [r EXCEPT !.id = Target(r)]
  IN  /\ phase \in Updating /\ r \in ToMove
      /\ InTheWay(r, new.id) = {}
      /\ table' = [table EXCEPT ![phase] = (@ \ {r}) \cup {new}]
      /\ moved' = moved \cup {new}
      /\ UNCHANGED <<remote, crawl, faults, phase, remaps, stored>>

\* A mutant of Undone: what the statements before have done stays.
MutKeepDone == table

\* ROLLBACK
Undone == stored

\* The row would be the second of its number: the transaction is over.
MoveBlocked(r) ==
  /\ phase \in Updating /\ r \in ToMove
  /\ InTheWay(r, Target(r)) # {}
  /\ phase' = "aborted"
  /\ table' = Undone
  /\ stored' = Undone
  /\ UNCHANGED <<remote, crawl, faults, remaps, moved>>

\* The end of a statement; the last is followed by COMMIT.
NextStatement ==
  /\ phase \in Updating /\ ToMove = {}
  /\ moved' = {}
  /\ CASE phase = "claims" -> phase' = "statuses" /\ UNCHANGED stored
       [] phase = "statuses" -> phase' = "archives" /\ UNCHANGED stored
       [] phase = "archives" -> phase' = "committed" /\ stored' = table
  /\ UNCHANGED <<remote, crawl, faults, remaps, table>>

\* The session breaks off.
BreakOff ==
  /\ phase \in Updating
  /\ Fault
  /\ phase' = "aborted"
  /\ table' = Undone
  /\ stored' = Undone
  /\ UNCHANGED <<remote, crawl, remaps, moved>>

Migrating ==
  \/ WriteMigration \/ NextStatement
  \/ \E r \in UNION {table[t] : t \in Updating} : MoveRow(r) \/ MoveBlocked(r)

Crawling == \E d \in Path : Sync(d)

Next ==
  \/ Crawling /\ UNCHANGED migration
  \/ \E d \in Path : RequestFails(d) /\ UNCHANGED migration
  \/ Migrating
  \/ BreakOff

Spec == Init /\ [][Next]_vars

\* Some goroutine goes on while one can, and so does the session; a request ends, in
\* an answer or a failure, because the client has a timeout.
Fairness ==
  /\ WF_vars(Crawling /\ UNCHANGED migration)
  /\ WF_vars(Migrating)

FairSpec == Spec /\ Fairness

-----------------------------------------------------------------------------
TypeOK ==
  /\ remote \in Remotes
  /\ dirs \in [Path -> Seq(Path)] /\ files \in [Path -> Seq(Path)] /\ size \in [Path -> Size]
  /\ pc \in [Path -> {"none", "queued", "getting", "listing", "asking", "heading", "waiting",
                      "done", "failed"}]
  /\ left \in [Path -> Seq(Path)]
  /\ DOMAIN report = DOMAIN EmptyReport /\ \A k \in DOMAIN report : report[k] \subseteq Path
  /\ Cardinality(Holding) <= Concurrency
  /\ phase \in Updating \cup {"crawling", "failed", "committed", "aborted"}
  /\ DOMAIN table = Updating /\ DOMAIN stored = Updating
  /\ faults \in 0 .. MaxFaults

\* The tree of the baseline is a prefix of the new one: nothing that is gone from
\* the site, changed its kind or could not be read is taken out or renamed, and
\* what was there keeps its order; nothing becomes a directory and a file.
BaselineKept ==
  \A d \in Path :
    /\ IsPrefix(BaseDirs[d], dirs[d]) /\ IsPrefix(BaseFiles[d], files[d])
    /\ ToSet(dirs[d]) \cap ToSet(files[d]) = {}

\* A path is numbered once, by the baseline and by the new tree; what the baseline
\* numbers keeps having a number, so that no row is left without.
NumbersKept ==
  /\ \A order \in {DirOrder(BaseDirs), DirOrder(dirs)} :
       order \in Seq(Path) /\ IsInjective(order)
  /\ \A order \in {FileOrder(BaseDirs, BaseFiles), FileOrder(dirs, files)} :
       order \in Seq(Path \ {Root}) /\ IsInjective(order)
  /\ DOMAIN OldDirId \subseteq DOMAIN NewDirId /\ DOMAIN OldFileId \subseteq DOMAIN NewFileId

\* A path and the directories it is in, up to the root.
Lineage ==
  [p \in Path |->
     {d \in Path :
        \A S \in SUBSET Path : p \in S /\ (\A q \in S \ {Root} : Up[q] \in S) => d \in S}]

\* What server, worker and the files of both rely on without checking it
\* (TreeAssumption of TreeShape): the root is first, a directory is numbered after the
\* one it is in, a file belongs to a numbered directory, and the files in or below a
\* directory are one range of numbers.  It holds of the baseline and of the tree
\* that is written, however the crawl ends.
RangesHold ==
  LET order == DirOrder(dirs)
      inOrder == FileOrder(dirs, files)
  IN  /\ order # <<>> /\ order[1] = Root
      /\ \A j \in DOMAIN order : j # 1 => \E i \in 1 .. j - 1 : order[i] = Up[order[j]]
      /\ \A k \in DOMAIN inOrder : Up[inOrder[k]] \in ToSet(order)
      /\ \A d \in ToSet(order) : \E start, end \in 1 .. Len(inOrder) + 1 :
           \A k \in DOMAIN inOrder : d \in Lineage[Up[inOrder[k]]] <=> k \in start .. end - 1

\* Numbers only grow, so that no statement of the SQL takes a row back to a number
\* it has been moved away from.
NumbersGrow == \A t \in Updating : \A m \in remaps[t] : m[1] < m[2]

\* When Sync returns, no goroutine of the crawl is left that could still change
\* the tree main is about to write.
CrawlIsOver == Ended => \A d \in Path : pc[d] \in {"none", "done", "failed"}

\* Directories of a crawl that succeeds: those reached through directories only.
Reached == {d \in Path : pc[d] = "done"}

\* The report of a crawl that succeeds is the difference between the baseline and
\* the site: what is new, gone, of another kind, or listed with another size, and
\* of the last those that have another size.
ReportExact ==
  pc[Root] = "done" =>
    LET within(kind) == UNION {Listed(d, kind) : d \in Reached}
        oldDirs == UNION {ToSet(BaseDirs[d]) : d \in Reached}
        oldFiles == UNION {ToSet(BaseFiles[d]) : d \in Reached}
        both == oldFiles \cap within("file")
    IN  /\ report.addedDirs = within("dir") \ (oldDirs \cup oldFiles)
        /\ report.addedFiles = within("file") \ (oldDirs \cup oldFiles)
        /\ report.missingDirs = oldDirs \ within("dir")
        /\ report.missingFiles = oldFiles \ within("file")
        /\ report.conflicts = (oldFiles \cap within("dir")) \cup (oldDirs \cap within("file"))
        /\ report.mismatches = {p \in both : remote[p].shown # FormatRoughSize[BaseSize[p]]}
        /\ report.updatedFiles = {p \in report.mismatches : remote[p].size # BaseSize[p]}

\* After a crawl that succeeds a file of the site has its exact size in the tree,
\* unless the listing shows it as the old size would be written.
SizesExact ==
  pc[Root] = "done" =>
    \A d \in Reached : \A p \in ToSet(files[d]) \cap Listed(d, "file") :
      size[p] = remote[p].size \/ FormatRoughSize[size[p]] = remote[p].shown

\* Everybody else sees the rows under the old numbers or, after COMMIT, all of them
\* under the new number of the same path; a failed crawl leaves them alone.
RowsFollowTheTree ==
  \A t \in Updating :
    LET id == IF phase = "committed"
              THEN IF t = "claims" THEN NewDirId ELSE NewFileId
              ELSE IF t = "claims" THEN OldDirId ELSE OldFileId
    IN  \A r \in stored[t] : r.id = id[r.path]

\* The new numbers would fit: a row is in the way of another only while it has
\* still to move itself.
OnlyOrderBlocks ==
  phase \in Updating => \A r \in ToMove : InTheWay(r, Target(r)) \subseteq ToMove

\* The crawl ends, with one request at a time as with many.
CrawlEnds == <>Ended

=============================================================================
