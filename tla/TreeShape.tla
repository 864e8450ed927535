------------------------------ MODULE TreeShape ------------------------------
(***************************************************************************)
(* The immutable part of the directory tree that server and workers share  *)
(* (pkg/myrienttree/tree.go).  Directories and files are numbered in the   *)
(* depth-first order of Tree.buildDFS, so that the files below a directory *)
(* form one contiguous range.                                              *)
(***************************************************************************)
EXTENDS Integers

CONSTANTS NumDirs,    \* len(t.Dirs)
          NumFiles,   \* len(t.Files)
          ParentIdx,  \* DirNode.ParentIdx: the parent of a directory, -1 for the root
          DirIdx,     \* FileNode.DirIdx: the directory a file is in
          FileStart,  \* DirNode.FileStart: the first file below a directory
          FileEnd     \* DirNode.FileEnd: one past the last file below it

Dirs  == 0 .. NumDirs - 1
Files == 0 .. NumFiles - 1

\* The files of a directory and of all its descendants.
Span(d) == FileStart[d] .. FileEnd[d] - 1

\* The directories a walk `for id := d; id >= 0; id = Dirs[id].ParentIdx`
\* visits: the least set that holds d and is closed under ParentIdx.
Lineage ==
  [d \in Dirs |->
     {e \in Dirs :
        \A S \in SUBSET Dirs :
          (d \in S /\ \A x \in S : ParentIdx[x] >= 0 => ParentIdx[x] \in S) => e \in S}]

\* What buildDFS establishes and the server relies on without checking it: a
\* directory's range holds exactly the files that are in it or below it, a parent is
\* numbered before its children, and only the first directory has none.
ASSUME TreeAssumption ==
  /\ NumDirs \in Nat
  /\ NumFiles \in Nat
  /\ ParentIdx \in [Dirs -> -1 .. NumDirs - 1]
  /\ DirIdx \in [Files -> Dirs]
  /\ FileStart \in [Dirs -> 0 .. NumFiles]
  /\ FileEnd \in [Dirs -> 0 .. NumFiles]
  /\ \A d \in Dirs : ParentIdx[d] < d /\ (d # 0 => ParentIdx[d] >= 0)
  /\ \A f \in Files, d \in Dirs : d \in Lineage[DirIdx[f]] <=> f \in Span(d)

=============================================================================
