# A TLA+ model of myrient_horizon

myrient_horizon mirrors a large file archive with many volunteers. A **server**
knows the archive as a tree of directories and files, keeps in PostgreSQL which
worker has verified which file, and tells each **worker** which directories to
fetch (white list) and to leave out (black list). A worker downloads through
aria2, verifies what it downloaded, and reports hashes to the server over a
WebSocket. Smaller commands verify existing files, crawl the site and migrate
the numbering of a tree.

This directory holds TLA+ modules translated from that code, configurations
that model-check them with TLC, and proofs for TLAPS. `PROJECT.json` lists the
runs, the mutants, the lines every definition stands for, the hazards the
properties are aimed at, and the theorems. Paths below are relative to the root
of the repository.

## Inventory

| Part | State | Operations | What must be right |
|---|---|---|---|
| `ServerTree` (`internal/server/tree.go`) | per file best status, report count, conflict flag, hash per worker; per directory totals; one lock | `ApplyReport`, `HydrateFromDB`, `RefreshClaimsFromDB`, `GetDirStats` | totals equal a recount; conflict flag equals the hashes; equal to what a restart rebuilds |
| `Store` (`internal/server/db.go`) | tables workers, item_status, reclaims, archive_status | upsert, scan, effective reclaim, delete by id, schema upgrades | one row per (worker, file) and (worker, directory); a request takes away only the claim it has read |
| `Hub` (`internal/server/wsrpc.go`) | one connection per worker key, last status, write lock | register and replace, ping, push of claims, hang-up, close | an answer means stored; the worker holds the table's claims |
| `Handler` (`internal/server/handler.go`) | none (one goroutine per request) | create and delete claim, configuration, statistics | a change reaches table, tree and worker |
| `reporter` (`internal/worker/reporter.go`) | unsent and unanswered reports, ping number, ticker | `Run`, `report`, `readLoop`, `PushVerified`, `Close` | nothing given up before it is stored, nothing lost |
| `claims` (`internal/worker/claims.go`) | the lists, plan generation, per-file flags | `RestoreCached`, `Replace`, `rebuild`, `confirmManagedFile` | each claimed file planned once; completed directories cover only confirmed files |
| `state`, `config` (`internal/worker/state.go`, `internal/worker/config`) | claims and completed directories in memory and in a JSON file | update and save, load, register | survives a crash at any point |
| `downloader` (`internal/worker/downloader.go`) | task channel (1024), `pending`, `gidMap`, `pathGID` | `Submit`, `ResetPendingManaged`, `handleTask`, `handleEvent`, adopt, reconnect | the maps follow aria2's downloads; nothing queued that is not claimed; a claimed file is never forgotten |
| `verify`, `task` (`internal/worker/verify.go`, `task.go`) | task channel (16384), flags of `fileExt` | `Submit`, `worker`, `Verify` | a file is marked busy exactly while somebody has it |
| aria2 client (`internal/worker/aria2`) | pending calls, event channel (256), `done`, the process | `readLoop`, `callRPCRaw`, reconnect, restart | never waits on itself; one reader per connection |
| updater, disk checks, start-up | files | | input and output only, except the order of the start-up |
| tree and protocol (`pkg/`) | immutable tree numbered depth first | `buildDFS`, message encoding | a directory's range is what is below it |
| rescue crawler (`internal/rescuecrawl`) | crawled tree, diff | `Sync`, `BuildDirRemaps`, `WriteMigrationSQL` | the merge keeps what it could not read; no goroutine outlives the crawl; rows follow their paths |
| commands (`cmd/`) | | start and stop | order of start-up and shutdown |

**Interactions.** The reporter sends a *ping* (number, batch of reports) every
heartbeat; the hub stores each report, applies it to the tree, and answers the
ping's number with a *pong*. The HTTP handlers change a claim, then recompute
the tree's claimed totals, then push the complete list (*task_sync*) over the
worker's connection; the same push happens when a worker connects. On the
worker, a new list drains the download channel and plans again; a finished
download becomes a verification, a verified file a report, an answered report a
confirmed file, and confirmed files completed directories that a restart skips.

**What is hard.** One goroutine per connection and per request on the server,
with single statements and no transactions around them; a replaced connection
whose goroutine is still running; report goroutines of two connections over the
same batch; answers later than the next heartbeat; either process dying between
two steps; rows written by earlier versions; bounded channels filled by the
goroutine that has to drain them. The list with lines is `hazards` in
`PROJECT.json`.

## Modules

| Module | Stands for | Composes |
|---|---|---|
| `TreeShape` | directories and files as numbers, the range of a directory, the chain of its ancestors; what `buildDFS` guarantees is `TreeAssumption`, which `TreeMigration` checks and proves of `buildDFS` (`RangesHold`) | |
| `ServerTree` | the item_status table, the live tree, and the hub's loop over reports that updates both | extends `TreeShape` |
| `CompletedDirs` | the completed directories: what they cover, the climb and the pruning of `confirmManagedFile` | extends `TreeShape` |
| `ReportDelivery` | reporter, two directions of a connection, hub, table, completed directories in memory and on disk; both processes may die | extends `CompletedDirs`, instantiates `AtLeastOnce` |
| `AtLeastOnce` | abstract specification: a report is kept until it is received; with its theorem | |
| `DeliveryRefinement` | theorems: `ReportDelivery` implements `AtLeastOnce`, and what that needs | extends `ReportDeliveryProofs` |
| `ClaimSync` | claim requests, the reclaims table, the tree's refresh, pushes to the worker, reconnecting, and `worker.json` over crashes | instantiates `ClaimReplica` |
| `ClaimReplica` | abstract specification: one table of claims, changed in one step, and two copies that follow it | |
| `ClaimRules` | what a list of claims covers, for the planner, for the check of a task, and for the server's totals | extends `TreeShape` |
| `Aria2Client` | the JSON-RPC client (`readLoop`, `callRPCRaw`, cleaning up, dialling) and aria2 as far as the client sees it; pieces of actions | extends `TreeShape` |
| `WorkerPipeline` | planner, downloader, verifiers and confirmation over the flags of `fileExt` | extends `Aria2Client`, `ClaimRules`, `CompletedDirs` |
| `RescueCrawl` | `Crawler.Sync`: one goroutine per directory, the semaphore, the merged tree and the report; actions only | |
| `TreeMigration` | numbering before and after, the SQL, and PostgreSQL executing it row by row | extends `RescueCrawl` |
| `ServerTreeProofs`, `ReportDeliveryProofs`, `ClaimSyncProofs`, `TreeMigrationProofs` | theorems about the module they extend | |
| `TreeProofs` | theorems about the directory tree, the readings of a list of claims and the completed directories | extends `ClaimRules`, `CompletedDirs` |
| `WorkerPipelineProofs` | theorems about `WorkerPipeline` | extends `WorkerPipeline`, `TreeProofs` |
| `MCServerTree`, `MCReportDelivery`, `MCClaimSync`, `MCWorkerPipeline`, `MCTreeMigration` | the trees and sets the runs use | |

### How the state corresponds to the code

**ServerTree.** `itemStatus[w][f]` is the row of (worker, file) or `NoRow`; of
a row only status, hash and whether `worker_key` is NULL matter. `bestStatus`,
`reportCount`, `conflicts`, `fileHashes`, `statusCount` and `conflictCount` are
the fields of the same names, the counters of `DirExt` indexed by the status
they count. `conns` is `Hub.conns`. `applying[h]` holds the report that the
goroutine of connection `h` has stored and not yet applied: `Upsert` and `Apply`
are the two calls of `handleFileReport`. `UpsertUnanswered` is a statement that
commits although the caller gets an error; `behind` remembers such rows so that
properties can say "once nothing is half done". `Restart` is the process dying
and `HydrateFromDB` in the next one. `hasConflictLocked` ranges over a map, so
with a NULL hash in it the outcome depends on the iteration order and
`ConflictOutcomes` is a set. Sizes are left out: byte totals are moved by the
same four lines as the counts. Rows from before (constant `LegacyRows`) exist
because the schema adds `worker_key` to an existing table without filling it and
hydration accepts every status; live reports only ever write `StatusVerified`.
Hydrating from a table whose file numbers are out of range only skips the row.

**ReportDelivery.** One worker; batches are sets of files because storing a
report twice is the same as storing it once. `toVerify` stands for everything
before `PushVerified`: downloading and verifying always succeed in the end here.
`acking` is what `readLoop` has taken out of the batch and not yet confirmed, so
a crash can come between any two files. `reporting[c]` is where the `report`
goroutine of connection `c` stands: `lastSentVer` is read first (`readVer`) and
`lastSent` after it, both without the lock, so a goroutine that was overtaken
sends the old number with the newer batch. Numbers are only compared for
equality, so `Collect` takes any number that nothing can still carry instead of
counting up; that keeps the model finite without a bound on the heartbeats.
`serving[c]` and `job[c]` are the server's goroutine of `c`. Connections are
reused once both goroutines are done with them. `registered` is `Hub.conns`;
`HasRoom` is no check of the code but the buffer of the socket (`WireCap` messages),
an assumption about the environment. `WorkerRestart`,
`ServerRestart`, `Break`, a failing statement and a failing save are the
failures, at most `MaxFaults` together; a statement that fails because its
connection was replaced is free.

**ClaimSync.** One worker, because claims of different workers share no row.
A request goes through `pc[r]`: write, scan, recompute, find, read, send, the
calls of `handleCreateClaim` and `handleDeleteClaim` in their order, with what
it has read in `local[r]`. `CutShort` is a database error or a client that hangs
up, after which the rest of the handler does not happen. `hub[c]` is where
`HandleWS` of `c` stands. `claims` is the worker's list and `saved` the one in
`worker.json`; `saving` is where `config.Save` stands, which removes the old file
before it renames the new one. While it saves, `readLoop` reads nothing and the
worker does not dial. `Crash` starts the worker again with what the file holds;
without a file it does not start (`EnsureConfig`). Completed directories are saved
in the same file, so `SaveCompleted` may open the gap at any time. Three
variables only record how far a property applies: `behind`, the connections on which a push was cut short or skipped
because it was empty, `treeBehind`, set when a refresh was cut short, and
`overwritten`, the ids of rows that were written over another
(`SetEffectiveReclaimByKey` keeps the id).

**WorkerPipeline.** `confirmed`, `qDownload` and `qVerify` are the files whose
`fileExt` has `confirmedDone`, `queuedDownload` and `queuedVerify` set; `pending`,
`taskCh`, `gidMap` and `pathGID` are the fields of `downloader`. `pathGID` is keyed
by a path as a string, and the string is not the same for a planned task (below the
configured `DownloadDir`) and an adopted one (made absolute); `Key` keeps the two
apart and `Absolute` says whether they coincide. `toVerify` counts the tasks of a
file, per name it was planned under, that are queued or being verified: the order
of verifications does not matter and their queue (16384) does not fill here.
`disk` is the set of names (`.downloading`, `.downloaded`, final) a file has, and
`control` if aria2's control file is there, which makes the planner download the file
whatever else exists (`claims.go:179`); aria2 removes it when a download succeeds.
`plan` and `todo` are where the walk of `claimState.apply` stands; it looks at the
flags, then at the disk, submits, and blocks in the send, as separate steps. The
planner is `InitWorker` while `starting` and the reporter's `readLoop` after that,
which is why `Replace` and `Confirm` wait for `plan = "idle"`. `step` and `hand`
are where `downloader.run` stands and the task it holds; between the receive
(`TakeTask`) and the lock of `handleTask` (`HandleTask`) the task is out of the channel
and still in `pending`, so that `Submit` refuses its file. `planGen` and
`planVisited` are what makes `todo` a set. Reporting itself is `ReportDelivery`;
here a reported file is confirmed some time later. Two variables only record how
far a property applies: `dropped`, files whose download or verification failed
since the last plan (the code clears the flag and leaves them alone), and `lost`,
that a notification of aria2 did not arrive.

**Aria2Client.** `request` and `wire` are the two directions of the WebSocket;
`calling` and `answer` the entry of `Client.pending` and its channel; `events` is
`Client.Events`; `reader` is `readLoop`, which may hold an event it cannot put;
`done` says whether `Client.done` is closed. When answer and `done` are both ready
`select` may take either (`Results`). A gid is a file and a number; a number is
given again once nothing refers to it, so that downloads need not be counted. A
broken connection loses what was on the way, in either direction, and a write to it
may fail or go nowhere. `tellActive` and `tellWaiting` are one call: every download
that lives through both is in one of the answers.

**RescueCrawl.** `pc[d]` is where `syncDir` of directory `d` stands; `Holding` are
those with a slot of the semaphore, which is released between requests. `remote`
is the site, which stays the same during a crawl. `dirs`, `files`, `size` are the
tree being merged, `report` the report. Paths are numbers; a path may be a file on
the site and a directory in the tree. A size has a listed form (`shown`); listing
and tree may round differently, so `Known` compares the two forms as the code does.

**TreeMigration.** `remaps` are the pairs in the SQL; `table` is what the
transaction sees and `stored` what everybody else does. An UPDATE handles its rows
in any order, and the unique keys are checked after each (`MoveRow`, `MoveBlocked`).
A row carries the path it is about, which only the model knows.

## Runs

All runs finish within three minutes on two cores. `expect: violation` runs
show where the code and its documents disagree; the findings quote both.

| Run | Instance | Shows |
|---|---|---|
| `tree_live` | root with two sub-directories, a file in each; 2 workers, 2 connections, 2 hashes; rows without hash from before | the live tree is what a recount and a restart give |
| `tree_overlap` | one file, replaced connections may still be inside a report | violation: tree and table differ until a restart |
| `tree_null_key` | one file, rows without `worker_key` | violation: a stored conflict is not seen |
| `delivery_retry` | two files, 2 connections, one failure, answers as late as they like | nothing given up before it is stored, nothing lost; every step is a step of `AtLeastOnce` or a stutter |
| `delivery_live` | the same, answers before the next heartbeat, fairness | everything is reported and recorded |
| `claims_serial` | 2 directories, 3 requests one after the other, 2 connections, one request cut short or save failed, 2 connections lost or crashes of the worker, fairness | table, tree and worker agree and converge; a restart goes on with the list in force; every step is a step of `ClaimReplica` or a stutter |
| `claims_overlap` | 1 directory, 4 requests, 2 at a time | a request takes away only the claim it has read, unless that one overwrote another |
| `claims_race` | 2 directories, 3 requests, 2 at a time | violation: an older list is pushed last |
| `claims_empty` | 2 requests, one connection lost | violation: nothing is pushed for an empty list |
| `worker_pipeline` | two files in sibling directories, what an earlier process left on disk and in aria2, one new list, two mishaps | flags, queue and maps agree with each other, claimed files are in somebody's hands, nobody waits for ever |
| `worker_start` | two files to download, a task channel with one place | violation: the start-up waits for a receiver that starts after it |
| `rescue` | a tree and a family of 144 sites around it, three levels deep, two requests at a time, one failure; rows of two workers | the crawl ends, merges and reports exactly; the tree is numbered in ranges; the table is never left half renumbered |

**Properties.** *ServerTree*: `AggregatesMatch` (deltas along the parent chain
equal a recount), `ConflictFlagExact` (flag equals disagreement of the hashes),
`RestartInvisible` (live tree equals the hydrated one whenever no report is half
done), `StoredConflictSeen` (two rows that disagree are flagged).
*ReportDelivery*: `AckedStored` (confirmed, completed or taken as answered
implies stored), `NoReportLost` (every file is queued, in a batch, or confirmed),
`CoverageKept` (pruning the completed directories keeps what they cover; disk
before memory never happens), `EventuallyComplete`. *ClaimSync*: `WorkerAgrees`,
`TreeAgrees`, `RemovedAsRead` (a claim is only taken away by a request that has read that
very claim, id and kind, with one exception, see below), `FinalStatePushed`, `Converges`, `RestartKeepsClaims`
(a restart goes on with the list in force, unless it hits a save or one failed).
*ReportDelivery* also refines *AtLeastOnce* (`DeliversAtLeastOnce`), and *ClaimSync*
refines *ClaimReplica* (`ImplementsReplica`): what a copy is given is the table of that
moment, in order, and it is owed (`TreeOwed`, `WorkerOwed`) until it has been given it.
*ClaimRules*: `ListsAgree` (server's totals, task check and walk give one answer
for a list; `Disputed` is computed over all lists of the run's tree). *WorkerPipeline*:
`QueuedOnce` (a file waits for aria2 at most once, on its way into the channel, in it, or
received and not yet handled, and `pending` holds exactly these), `MapsInverse` (gid and path lead to each
other), `FlagOwned` (a busy flag has an owner, so no file is skipped for ever by
`fileBusyOrConfirmed`), `OnlyClaimedQueued` (a drained queue stays free of what the
new claims exclude), `ClaimedInHand` (when nothing is being planned every claimed
file is confirmed, in a completed directory, given up, or in somebody's hands), `ConfirmedOnDisk`, `OneReader`
(one `readLoop` at a time, and no second dial), `NoStandstill` (no circular wait
between planner, downloader, aria2's reader and aria2; `SomebodyReady` says who waits
for nothing and for nobody), `ReadyMoves` (who is ready has a step of the code to take),
`StartsUp`. *TreeMigration*:
`BaselineKept` (the old tree is a prefix of the new one), `NumbersKept` (`buildDFS`
numbers every path once, in both trees, and loses none), `NumbersGrow`, `RangesHold`
(`buildDFS` numbers a directory after the one it is in, and what is in or below a
directory as one range),
`CrawlIsOver` (no goroutine outlives `Sync`), `ReportExact`, `SizesExact`,
`RowsFollowTheTree` (rows are all under old or all under new numbers of their
paths), `OnlyOrderBlocks` (the new numbers would fit), `CrawlEnds`. Each
specification has one `TypeOK`; the one of *ReportDelivery* includes `HubExact` (the
connection in `Hub.conns` is being served, and any other that is still served is broken:
a replaced `HandleWS` that ends late does not take its successor out). Every property of a passing run has a mutant of the code
(`Mut...` in the module, before the definition it changes) that TLC refutes.

**Bounds, and why they are enough.** Two workers and two hashes give every
agreement and disagreement, also back to agreement; two connections give one
replaced by another and a third by reusing the first. Two files in sibling
directories below a root give partial and complete directories, a chain of two
to climb and something to prune. `WireCap = 1` lets a ping and an answer be
under way and blocks the next, as a full socket buffer does. Two numbers for
pings are enough for one late answer; with three the same properties hold (6
million states for `delivery_retry`). One failure at every possible step is
what each argument is about; two were checked with a single connection. Three
or four requests allow claim, change, deletion and a claim made again.

In the pipeline two files are enough for one to be in the way of the other: one
waits in the channel while the other is downloaded, adopted, or confirmed. Two
mishaps let a failure follow another (a connection that breaks after a download
failed); the new list takes a file out of the plan and leaves the other in; one of the
cached lists has a white directory below a black one, where walk and check differ; one of the disks
has a finished file whose control file is still there. A download an earlier process left
half done is combined with a finished file only: that both files are downloaded while one is
adopted comes from a reconnect as well, and all combinations (1.7 million states) hold too. `Copies = 3` covers the
downloads of one file that can be referred to at the same time: one running, one in
an event, one in a map. `EvCap = 4` holds every event two files can cause;
`TaskCap = 2` every task. In the rescue run the tree has what renumbering needs:
directories before and after the place where something new is inserted, one of them
deeper; two workers have rows for the same and for different paths. Two slots
and up to three directories at once make goroutines wait for the semaphore; one
failure can hit any request or the migration.

**Where properties stop.** `RestartInvisible` is false when a replaced
connection may still be inside a report (`tree_overlap`) and when rows with a
higher status than `Verified` exist from before: the upsert lowers the row
(`db.go:265`), the tree keeps the maximum. `WorkerAgrees`, `TreeAgrees` and `ImplementsReplica` are
false when requests overlap (`claims_race`; the scan of `RefreshClaimsFromDB`
is taken before the lock in the same way). `RemovedAsRead` excepts a claim written over
another: two creations for one directory both find no claim, the first inserts a row, a
deletion reads it, the second creation overwrites it and keeps its id (`db.go:457`), and the
deletion, which looks it up by id, takes away the newer claim. TLC finds this when
the exception is dropped. `EventuallyComplete` needs answers
that beat the heartbeat (constant `Prompt`): if every answer is late,
`readLoop` drops every one. `Converges` does not cover a worker that dies between
the removal of `worker.json` and the renaming: its key is gone (`saving = "lost"`). In the pipeline:

* `ClaimedInHand`, `NoStandstill` and the second half of `MapsInverse` hold for an
  absolute `DownloadDir`. With a relative one, the default, TLC refutes them: a
  reconnect adopts a running download under its absolute path beside the planned
  path, `unregister` later deletes only one of the keys, and after a failed
  download and a new list `Submit` refuses the file for good.
* `NoStandstill` excepts a lost notification (`lost`): `adoptExisting` does not see
  a download that has ended, so the file stays registered until the process ends.
* It also excepts a dial that failed. `connect` gives up after 20 attempts,
  `reconnect` then cleans up again and waits for `done`, which only a `readLoop`
  that no longer exists would close. The restart of aria2 after three failed dials
  is therefore out of reach, which `OneReader` states as `failures <= 1`.
* With `EvCap = 3` TLC reaches the circular wait: `readLoop` is blocked on a full
  `Events` while `downloader.run`, its only receiver, waits for an answer behind the
  event. In the code that takes 256 events during one call. `Room`, the hypothesis of
  `NobodyStandsStill`, says that this does not happen.
* `ConfirmedOnDisk` assumes that the rename to the final name works; the code
  confirms the file either way.

`MoveBlocked` fires in `rescue`: when two rows of a worker move to adjacent numbers
and the lower is updated first, the higher is still in its way and the migration
aborts. `OnlyOrderBlocks` says that nothing but the order is wrong.

**Deadlock** is checked in the tree and delivery runs. In the claim runs the
number of requests is bounded, so the model stops when they are used up; a worker
whose files are confirmed and a migration that has ended stop as well.
`NoStandstill`, with `ReadyMoves`, is the deadlock check of the pipeline.

**Fairness.** Each conjunct is one goroutine that the Go scheduler runs when it
can: a verifier per file, the dialling and reading loop of `reporter.Run`, the
`report` goroutine and `HandleWS` of each connection, the goroutine of each HTTP
request. Failures, requests and lost connections have no fairness. The dialling
loop retries for ever, which is why connecting is fair. The pipeline uses fairness
in `worker_start` only: planner, downloader, `readLoop`, a verifier per task, and an
aria2 that answers and ends its downloads, so that the violation is not a matter of
somebody standing still. The crawl needs only that some goroutine goes on while one
can (`WF_vars(Crawling ...)`): requests end because the HTTP client has a timeout of
30 seconds.

## Proofs

TLAPS checks, for every value of the constants that satisfies the named
assumptions:

* `ServerTreeProofs!TypeCorrect`, `TotalsCorrect`, `ConflictsCorrect`:
  `TypeOK`, `AggregatesMatch` and `ConflictFlagExact` are invariants of
  `ServerTree`, for any tree, any number of workers and connections, any rows
  from before, and with replaced connections still running. The inductive
  invariant is types, totals and flags together: a delta is right only because
  the total before it was the recount, and totals stay in Nat only because they
  are cardinalities of sets that hold the file taken away. The core of the
  argument is that the parent chain of a file's directory is exactly the set of
  directories whose range holds the file (`TreeAssumption`), so one step of
  `bubbleDelta` changes exactly the recounts that change.
* `ReportDeliveryProofs!DeliveryTypeCorrect`, `AcknowledgedIsStored`: types with
  `HubExact`, and `AckedStored` for any number of files, connections, failures and late answers.
  `AckedStored` is not inductive: `DeliveryInv` adds `LatestCarriesBatch`, which
  says that whatever carries the latest number carries the whole batch or is
  stored already. The proof of that is where it matters that a new number is one
  nothing can carry, that the number is read before the batch, and that answers
  of a lost connection are not read. That completed directories cover only
  stored files rests on the lemma `CoveredByChain` about the climb and pruning.
* `AtLeastOnce!PromiseKept`: the abstract specification keeps its promise, that a
  report is with the sender or with the receiver and a crash loses none.
* `DeliveryRefinement!NothingForgotten`, `CoverageGrows`, `ImplementsAtLeastOnce`:
  `NoReportLost` and `CoverageKept`, and that every behaviour of `ReportDelivery` is
  one of `AtLeastOnce` under the mapping "kept is what is neither confirmed nor
  covered, received is what the table holds, recorded is what the saved directories
  cover". `PlaceInv` says where every file is. Confirming is the hard step: the climb
  and the pruning must not uncover a file (`PrunedCovers`: a pruned directory lies
  below one of the chain, by `AncestorOfAncestor`), and the file confirmed may be
  covered at once. `LowestDir` finds the lowest complete directory of a chain.
  Each action then maps to one abstract step or a stutter (`DeliverySteps`).

* `ServerTreeProofs!ConflictsSeen`, `RestartChangesNothing`: `StoredConflictSeen`
  and `RestartInvisible`, where they are true: `Overlap = FALSE` (no replaced
  connection still inside a report), `AllKeyed` (no row without `worker_key`) and, for
  the second, `NoneHigher` (no row from before above `Verified`). `tree_overlap` and
  `tree_null_key` refute them without the first two. The inductive invariant
  says what `applying` and `behind` stand for: a row differs from the hash in the tree
  only for a report that is half done (`HashesFollow`), which is the worker's own (`OwnRow`).
* `ClaimSyncProofs`: `TypeCorrect` and `IdsNotReused` rest on counting (a request uses
  up one id at most, `IdsLeft`), `ClaimsRemovedAsRead` and `RestartKept` hold with any overlap.
  The former needs that what a request has read stays what the table holds until the row
  is removed or written over (`ReadStands`).
  `TreeFollows` and `WorkerFollows` assume `Overlap = FALSE`; `claims_race` refutes the
  second without it. `SerialInv` says that one request or one connecting worker is
  between its steps at a time, that what it has read is still what the table holds,
  and that the last list on the wire is the table's.
* `ClaimSyncProofs!ChangesAsOne`: with `Overlap = FALSE` every behaviour of `ClaimSync` is one
  of `ClaimReplica`, under the mapping "the table is what the query lists, on the way is
  what the connection the worker reads carries, kept is the list in `worker.json`". The
  change happens when the row is written, the tree is told in `RecomputeClaimed` and the
  worker in `SendReclaims` or `SendInitial`; that what was read some steps before is the table
  still is what `SerialInv` is for. All other steps of a request are stutters, and so are
  lists written to a connection nobody reads.
* `TreeProofs!NothingDisputed`, `WorkerPipelineProofs!ListsAreRead`: the three readings
  of a list agree, for every tree and every list. The server's marks are a recursive
  function of the directory; instead of an induction the proof takes the least directory
  where the marks are not what the ancestors say.
* `WorkerPipelineProofs`: every state invariant of the pipeline but `ReadyMoves`, for any
  tree, lists, capacities, number of mishaps and contents of disk and aria2 at the
  start. The parts of the inductive invariant build on each other: `TypeInv`; `ReaderOK`
  (when the reader is off nothing is on the connection); `CallOK` (which call is under
  way where the downloader stands, and that what aria2 answers fits it); `MapsOK`; `QueueOK`
  (what is being sent, waits in the channel or was just received is in `pending`, and in one
  of the three places); `OwnedOK`;
  `DiskOK` (what is being verified or reported is on the disk under the name it has
  there, or has got its final name since); `PlanOK` (what the walk has behind it is done
  or in somebody's hands). `ClaimsInHand` assumes `Absolute = TRUE`.
* `WorkerPipelineProofs!NobodyStandsStill`: `NoStandstill`, with `Absolute = TRUE` and as long
  as there is `Room`: the plan of the start-up, which nobody receives yet, fits into the
  task channel, the event `readLoop` holds fits into `Events`, and aria2 finds a number for
  a new download. The first two are what the code relies on its capacities (1024, 256) for;
  the third is the bound `Copies`. When everybody waits, the start-up is over (`StartOK`:
  until then the planner has a file to walk), nothing is on its way to or from aria2 (`AnsweredOK`: a
  call without an answer has its request, its answer or a broken connection under way), so
  the downloader is in its `select` with both channels empty and the planner idle
  (`AllQuiet`). A claimed file is then in nobody's hands: what is registered is running or
  its end is under way, or a notification was lost (`KnownOK`), and what is to be verified
  or confirmed is on the disk (`FileOK`), so somebody is ready. `ClaimedInHand` leaves only
  files that are done or given up (`NothingLeft`).
* `TreeMigrationProofs`: the crawl with any number of directories, slots and failures.
  `EntriesInv` says that what a goroutine has left is a tail of the listing, in order
  and each entry once; `GoInv` who has started whom and who waits for whom, from which
  `CrawlLeavesNone` follows because a path that is still busy has a busy one above it
  (`NoneLeft`, by the assumption that `Up` has no cycle); `PrefixInv` that directories
  only grow at the end; `AccountInv` what tree and report say about a single path at
  every moment of its directory's goroutine, from which `ReportIsExact` and
  `SizesAreExact` follow path by path.
* `TreeMigrationProofs!RowsFollow`, `OrderBlocks`: for every set of rows and every order
  in which the statements take them. `RowsInv` says which tables have the new numbers,
  and of the table under way that exactly the rows in `moved` have.
* `TreeMigrationProofs!NumbersAreKept`, `NumbersOnlyGrow`: `NumbersKept` and `NumbersGrow`
  for trees of any depth and width, at every moment of the crawl; the two theorems
  about rows rest on the first. They are statements about what the recursive walk of
  `buildDFS` computes. Two minimal counterexamples stand in for the inductions: the
  first number of a concatenation that goes wrong (`LeastExists`), and the directory
  that goes wrong while nothing just inside it does (`DeepestExists`). They show that the
  walk is defined (`WalkIs`), comes to each path below once (`VisitRight`, as two
  directories side by side have nothing in common below them, `InsideApart`), and that
  the walk of a tree whose directories have only grown at their end embeds the old one in
  its order (`VisitEmbeds`). `OnceInv` adds to the invariant that no entry comes twice.
* `TreeMigrationProofs!RangesAreRight`: `RangesHold` for trees of any depth and width. A
  parent before its children, and one range for what is in or below a directory, is
  what the theorems about server, worker and claims take from `TreeAssumption`; here it is
  proved of the walk. The walk of a directory is one piece of the walk of what it is in
  (`VisitHolds`, again by `DeepestExists`), what the walk comes to there is what is below
  (`InPieceIs`), and a piece of the order of directories is a piece of the order of
  files, because `FlattenSeq` puts block behind block (`BlocksExist`, `FilesInRange`).

Assumptions: `TreeAssumption` (what `buildDFS` produces; `RangesAreRight` shows that it
does, the numbers from 0 in place of the places from 1 in a sequence), `ServerAssumption`,
`DeliveryAssumption`, `ClaimAssumption`, `ClientAssumption` and `PipelineAssumption` (model
values are distinct, bounds are numbers), `CrawlAssumption` (paths form a tree, the
baseline lists an entry under its own directory, once and as one kind),
`MigrationAssumption` (no two paths share directory and name) and `RowsAssumption` (rows
are about paths of the baseline). TLC evaluates them in the runs.

Only model-checked: every liveness property (`EventuallyComplete`, `Converges`, `CrawlEnds`,
`StartsUp`), and `ReadyMoves`, which is about ENABLED. `NobodyStandsStill` needs it to say
something about the code: it shows that somebody is ready, `ReadyMoves` that who is ready
has a step.

Proving corrected the model in one place: `ClaimedInHand` used to count only
confirmed files as done. It is false so: when a directory is completed, the
numbers of the completed directories below it are dropped, and a list that claims one
of those is walked from there, without a look above it. Its files are planned
again, found on the disk and confirmed a second time (`claims.go:297`).

## Not modelled, and why

* The shutdown: `reporter.Close` and its wait for one answer, the closing of the
  verifiers' queue while others may still submit, the end of `downloader.run`.
* Of the configuration file, the defaults, `Register` and `SyncName`. In
  `ReportDelivery` a save is one step that may fail; its steps are in `ClaimSync`.
* The life cycle of the hub (`Close`, closing a replaced connection under the lock).
* `RestartProcess` of aria2, which the code cannot reach; its options.
* HTTP authentication, accounts and statistics pages, message encoding, HTML, the
  updater, disk checks and the verifier command: input and output, with no interplay
  to get wrong. Generated flatbuffer code is left out; that a file holds a tree is an
  assumption (`CrawlAssumption`).
* Data races on `closed`, `reportTick` and `closing`, beyond reading `lastSent`
  without the lock.
* A failing `MkdirAll` is the same as a failing `addUri`; `tellWaiting`'s limit of
  1000 and the memory of a bad zip's hash are left out.

## Plan

1. The shutdown of the worker: `Close`, `closing`, the closed queue.
2. The life cycle of the hub.
