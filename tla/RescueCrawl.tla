------------------------------ MODULE RescueCrawl ------------------------------
(***************************************************************************)
(* The crawl that brings a tree up to date with the site                   *)
(* (internal/rescuecrawl/crawler.go).  syncDir runs once per directory, in *)
(* a goroutine of its own; a semaphore bounds the requests under way.  A   *)
(* path is a number with a parent; what the site has there may be a file   *)
(* where the tree has a directory.  A size is listed rounded, so that      *)
(* two sizes can look alike and one size can be written in two ways.       *)
(***************************************************************************)
EXTENDS Integers, SequencesExt

CONSTANTS Path,        \* whatever the tree or the site may hold
          Root,        \* "/"
          Up,          \* the directory a path is in
          Size,        \* sizes of files
          Shown,       \* sizes as they are listed
          FormatRoughSize, \* how the tree's side writes a size
          BaseDirs,    \* the baseline: per directory its directories in order,
          BaseFiles,   \*   and its files
          BaseSize,    \* the size of a file of the baseline
          Remotes,     \* what the site may hold
          Concurrency, \* requests at a time
          MaxFaults    \* requests that fail

\* A path of the site: nothing, a directory, or a file with its size and the
\* size the listing of its directory shows.
Remote == [kind : {"none", "dir", "file"}, size : Size, shown : Shown]

\* Paths are finitely many and of finite length; a directory of the baseline holds
\* what is in it, each thing once, as a directory or as a file, as a crawl leaves it.
ASSUME CrawlAssumption ==
  /\ Path \subseteq Nat /\ IsFiniteSet(Path) /\ Root \in Path
  /\ Up \in [Path \ {Root} -> Path]
  /\ \A S \in SUBSET (Path \ {Root}) : S # {} => \E p \in S : Up[p] \notin S
  /\ FormatRoughSize \in [Size -> Shown]
  /\ BaseDirs \in [Path -> Seq(Path)] /\ BaseFiles \in [Path -> Seq(Path)]
  /\ \A d \in Path :
       /\ ToSet(BaseDirs[d]) \cup ToSet(BaseFiles[d]) \subseteq {p \in Path \ {Root} : Up[p] = d}
       /\ ToSet(BaseDirs[d]) \cap ToSet(BaseFiles[d]) = {}
       /\ IsInjective(BaseDirs[d]) /\ IsInjective(BaseFiles[d])
  /\ BaseSize \in [Path -> Size]
  /\ Remotes \subseteq [Path \ {Root} -> Remote]
  /\ Concurrency \in Nat \ {0}
  /\ MaxFaults \in Nat

VARIABLES
  remote, \* the site
  dirs,   \* Dir.Dirs
  files,  \* Dir.Files
  size,   \* File.Size
  pc,     \* where syncDir of a directory stands
  left,   \* entries of its listing still to be handled, in the order of the listing
  report, \* Crawler.report
  faults

crawl == <<dirs, files, size, pc, left, report>>

\* What parseDirectoryListing finds of a directory, in the order of the names.
Listed(d, kind) == {p \in Path \ {Root} : Up[p] = d /\ remote[p].kind = kind}
Listing(d) ==
  CHOOSE s \in SetToSeqs(Listed(d, "dir") \cup Listed(d, "file")) :
    \A i, j \in DOMAIN s : i < j => s[i] < s[j]

EmptyReport ==
  [addedDirs |-> {}, addedFiles |-> {}, updatedFiles |-> {}, mismatches |-> {},
   missingDirs |-> {}, missingFiles |-> {}, conflicts |-> {}, emptyDirs |-> {}]

\* NewTreeFromBase; Sync starts with the root.
CrawlInit ==
  /\ remote \in Remotes
  /\ dirs = BaseDirs /\ files = BaseFiles /\ size = BaseSize
  /\ pc = [p \in Path |-> IF p = Root THEN "queued" ELSE "none"]
  /\ left = [p \in Path |-> <<>>]
  /\ report = EmptyReport
  /\ faults = 0

Fault == faults < MaxFaults /\ faults' = faults + 1

GoTo(d, state) == pc' = [pc EXCEPT ![d] = state]

-----------------------------------------------------------------------------
\* A mutant of Holding: the slot is kept until the directories below are done.
MutHoldWhileWaiting == {d \in Path : pc[d] \in {"getting", "heading", "waiting"}}

\* acquire and release: the directories with a request under way.
Holding == {d \in Path : pc[d] \in {"getting", "heading"}}

\* A mutant of HasSlot: one request more.
MutOneMore == Cardinality(Holding) <= Concurrency

HasSlot == Cardinality(Holding) < Concurrency

\* fetchDirectory begins.
Get(d) ==
  /\ pc[d] = "queued" /\ HasSlot
  /\ GoTo(d, "getting")
  /\ UNCHANGED <<remote, dirs, files, size, left, report, faults>>

\* fetchDirectory returns the entries.
Got(d) ==
  /\ pc[d] = "getting"
  /\ GoTo(d, "listing")
  /\ left' = [left EXCEPT ![d] = Listing(d)]
  /\ report' = IF Listing(d) = <<>> /\ dirs[d] = <<>> /\ files[d] = <<>>
               THEN [report EXCEPT !.emptyDirs = @ \cup {d}]
               ELSE report
  /\ UNCHANGED <<remote, dirs, files, size, faults>>

\* The next entry is done with.
Handled(d) == left' = [left EXCEPT ![d] = Tail(@)]

\* A mutant of WithNew: new entries come first.
MutNewFirst(entries, p) == <<p>> \o entries

\* A mutant of WithNew: the new entry takes the place of the last.
MutOverLast(entries, p) == Append(SubSeq(entries, 1, Len(entries) - 1), p)

\* A new entry becomes the last of its directory, wherever the listing shows it.
WithNew(entries, p) == Append(entries, p)

\* An entry that is a directory: a conflict, a known one, or a new one.
EntryDir(d) ==
  LET p == Head(left[d])
  IN  /\ pc[d] = "listing" /\ left[d] # <<>>
      /\ remote[p].kind = "dir"
      /\ Handled(d)
      /\ IF p \in ToSet(files[d])
         THEN /\ report' = [report EXCEPT !.conflicts = @ \cup {p}]
              /\ UNCHANGED dirs
         ELSE IF p \in ToSet(dirs[d])
              THEN UNCHANGED <<dirs, report>>
              ELSE /\ dirs' = [dirs EXCEPT ![d] = WithNew(@, p)]
                   /\ report' = [report EXCEPT !.addedDirs = @ \cup {p}]
      /\ UNCHANGED <<remote, files, size, pc, faults>>

\* A mutant of Known: sizes are compared as the numbers behind what is listed.
MutAnySize(p, d) == p \in ToSet(files[d])

\* A file of the tree whose size is listed as the tree would write it.
Known(p, d) == p \in ToSet(files[d]) /\ remote[p].shown = FormatRoughSize[size[p]]

\* An entry that is a file: a conflict, a known one, or one to ask the size of.
EntryFile(d) ==
  LET p == Head(left[d])
  IN  /\ pc[d] = "listing" /\ left[d] # <<>>
      /\ remote[p].kind = "file"
      /\ IF p \in ToSet(dirs[d])
         THEN Handled(d) /\ report' = [report EXCEPT !.conflicts = @ \cup {p}] /\ UNCHANGED pc
         ELSE /\ UNCHANGED report
              /\ IF Known(p, d)
                 THEN Handled(d) /\ UNCHANGED pc
                 ELSE GoTo(d, "asking") /\ UNCHANGED left
      /\ UNCHANGED <<remote, dirs, files, size, faults>>

\* fetchExactSize begins.
Ask(d) ==
  /\ pc[d] = "asking" /\ HasSlot
  /\ GoTo(d, "heading")
  /\ UNCHANGED <<remote, dirs, files, size, left, report, faults>>

\* fetchExactSize returns: a new file is added, a known one gets its size.
Asked(d) ==
  LET p == Head(left[d])
      new == p \notin ToSet(files[d])
      exact == remote[p].size
  IN  /\ pc[d] = "heading"
      /\ GoTo(d, "listing") /\ Handled(d)
      /\ size' = [size EXCEPT ![p] = exact]
      /\ files' = IF new THEN [files EXCEPT ![d] = WithNew(@, p)] ELSE files
      /\ report' =
           IF new THEN [report EXCEPT !.addedFiles = @ \cup {p}]
           ELSE [report EXCEPT !.mismatches = @ \cup {p},
                               !.updatedFiles = IF exact = size[p] THEN @ ELSE @ \cup {p}]
      /\ UNCHANGED <<remote, dirs, faults>>

\* A request fails, or its answer is not understood: syncDir returns the error
\* without a look at the directories below.
RequestFails(d) ==
  /\ pc[d] \in {"getting", "heading"}
  /\ Fault
  /\ GoTo(d, "failed")
  /\ left' = [left EXCEPT ![d] = <<>>]
  /\ UNCHANGED <<remote, dirs, files, size, report>>

\* The directories of the listing that are directories of the tree as well.
Below(d) == ToSet(dirs[d]) \cap Listed(d, "dir")

\* The end of the listing: what is only in the tree is reported, and a goroutine
\* starts for every directory that is in both.
Descend(d) ==
  /\ pc[d] = "listing" /\ left[d] = <<>>
  /\ report' = [report EXCEPT !.missingDirs = @ \cup (ToSet(dirs[d]) \ Listed(d, "dir")),
                              !.missingFiles = @ \cup (ToSet(files[d]) \ Listed(d, "file"))]
  /\ pc' = [p \in Path |-> CASE p \in Below(d) -> "queued"
                             [] p = d -> "waiting"
                             [] OTHER -> pc[p]]
  /\ UNCHANGED <<remote, dirs, files, size, left, faults>>

\* A mutant of AllBack: one failure is enough to go on.
MutFirstFailure(d) ==
  \/ \A p \in Below(d) : pc[p] \in {"done", "failed"}
  \/ \E p \in Below(d) : pc[p] = "failed"

\* Wait returns when all have; the context errgroup would cancel is not used.
AllBack(d) == \A p \in Below(d) : pc[p] \in {"done", "failed"}

Join(d) ==
  /\ pc[d] = "waiting"
  /\ AllBack(d)
  /\ GoTo(d, IF \E p \in Below(d) : pc[p] = "failed" THEN "failed" ELSE "done")
  /\ UNCHANGED <<remote, dirs, files, size, left, report, faults>>

Sync(d) ==
  Get(d) \/ Got(d) \/ EntryDir(d) \/ EntryFile(d) \/ Ask(d) \/ Asked(d) \/ Descend(d) \/ Join(d)

Ended == pc[Root] \in {"done", "failed"}

=============================================================================
