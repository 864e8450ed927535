---------------------------- MODULE WorkerPipeline ----------------------------
(***************************************************************************)
(* A worker's files on their way from a list of claims to a confirmed      *)
(* report (internal/worker): claimState plans, downloader feeds aria2 and  *)
(* hears from it, verifierRuntime checks, reporter confirms.  Four         *)
(* goroutines share the flags of fileExt and the maps of downloader:       *)
(*   planner     claimState.apply, called by InitWorker at start-up and    *)
(*               then by reporter.readLoop, which also confirms            *)
(*   downloader  downloader.run                                            *)
(*   verifiers   verifierRuntime.worker                                    *)
(*   readLoop    of the aria2 client (Aria2Client)                         *)
(* A behaviour begins when a worker process starts, with whatever an       *)
(* earlier process left on the disk, in aria2 and in worker.json.          *)
(***************************************************************************)
EXTENDS Aria2Client, ClaimRules, CompletedDirs

CONSTANTS Lists,       \* lists the server may push
          Cached,      \* lists worker.json may hold at the start
          Remains,     \* what may exist at the start: of each file a set of names
          Absolute,    \* is DownloadDir absolute? the default, "downloads", is not
          TaskCap,     \* capacity of downloader.taskCh
          MaxReplaces, \* lists pushed
          MaxMishaps   \* connections broken, downloads and verifications failed

\* The suffixes of localDownloadingPath, localDownloadedPath and localFinalPath; and
\* what else may be there of a file, the control file aria2 keeps while it downloads.
Names == {"downloading", "downloaded", "final"}
OnDisk == Names \cup {"control"}

ASSUME PipelineAssumption ==
  /\ Lists \subseteq List
  /\ Cached \subseteq List
  /\ Remains \subseteq [Files -> SUBSET OnDisk]
  /\ Absolute \in BOOLEAN
  /\ TaskCap \in Nat \ {0}
  /\ MaxReplaces \in Nat
  /\ MaxMishaps \in Nat

\* How a path is spelled: as planFile does, below the configured DownloadDir, or
\* made absolute by matchManagedTaskByLocalPath.  pathGID is keyed by the string.
Key == Files \X {"planned", "adopted"}
NoKey == <<NoFile, "none">>

VARIABLES
  \* shared
  claims,     \* claimState.claims
  completed,  \* workerStateStore.completedDirIDs
  confirmed,  \* files with Ext.confirmedDone
  qDownload,  \* files with Ext.queuedDownload
  qVerify,    \* files with Ext.queuedVerify
  taskCh,     \* downloader.taskCh
  pending,    \* downloader.pending
  gidMap,     \* downloader.gidMap: the key of the task of a gid
  pathGID,    \* downloader.pathGID
  toVerify,   \* how many tasks of verifierRuntime.taskCh, or in a verifier, name a file so
  reported,   \* reporter.verified: the file and its name
  \* the planner
  plan,       \* "checking", "looking", "submitting" or "sending" Next(todo), or "idle"
  todo,       \* files the walk has still to visit
  starting,   \* is InitWorker still planning the cached claims?
  \* the downloader
  step,       \* where downloader.run stands
  hand,       \* the file of the task or event it holds
  \* the model
  dropped,    \* files given up after a failure since the last plan
  replaces,
  mishaps

flags    == <<qDownload, qVerify>>
maps     == <<taskCh, pending, gidMap, pathGID>>
planner  == <<plan, todo, starting>>
loop     == <<step, hand>>
outcome  == <<completed, confirmed, toVerify, reported>>
count    == <<replaces, mishaps>>
aria2Client == <<aria2, net, client, lost>>
vars == <<claims, outcome, flags, maps, planner, loop, dropped, count, aria2Client>>

Mishap == mishaps < MaxMishaps /\ mishaps' = mishaps + 1

\* The files a plan has to visit; without white claims there is no walk.
Plan(list) == Walked(list, completed)

\* The walk goes up in file numbers.
Visiting == CHOOSE f \in todo : \A g \in todo : f <= g

\* A mutant of Visited: the walk does not notice its end.
MutNoEnd ==
  /\ todo' = todo \ {Visiting}
  /\ plan' = "checking"
  /\ starting' = (starting /\ todo' # {})

\* The next file, or the end of apply.
Visited ==
  /\ todo' = todo \ {Visiting}
  /\ plan' = IF todo' = {} THEN "idle" ELSE "checking"
  /\ starting' = (starting /\ todo' # {})

\* What an earlier process can have recorded: confirmManagedFile climbs as long as
\* directories are complete and keeps the highest.
Recorded(dirs) ==
  /\ \A d, e \in dirs : e \in Lineage[d] => e = d
  /\ \A d \in Dirs :
       Span(d) # {} /\ Span(d) \subseteq Covered(dirs) => dirs \cap Lineage[d] # {}

Init ==
  /\ ClientInit
  /\ disk \in Remains
  /\ jobs \in SUBSET {<<f, 1>> : f \in {f \in Files : {"downloading", "control"} \subseteq disk[f]}}
  /\ claims \in Cached
  /\ completed \in {dirs \in SUBSET Dirs : Recorded(dirs) /\ \A f \in Covered(dirs) : "final" \in disk[f]}
  /\ confirmed = {} /\ qDownload = {} /\ qVerify = {}
  /\ taskCh = <<>> /\ pending = {}
  /\ gidMap = [g \in Gid |-> NoKey]
  /\ pathGID = [k \in Key |-> NoGid]
  /\ toVerify = [k \in Files \X Names |-> 0]
  /\ reported = {}
  /\ todo = Plan(claims)
  /\ plan = (IF todo = {} THEN "idle" ELSE "checking")
  /\ starting = (todo # {})
  /\ step = "off" /\ hand = NoFile
  /\ dropped = {} /\ replaces = 0 /\ mishaps = 0

-----------------------------------------------------------------------------
(* The planner.                                                            *)

\* A mutant of Drained: the channel is emptied, pending is not.
MutKeepPending(p, q) == p

\* ResetPendingManaged deletes what it drains from pending.
Drained(p, q) == p \ {q[i] : i \in DOMAIN q}

\* A mutant of Left: one task is drained, not all.
MutDrainOne(q) == IF q = <<>> THEN q ELSE Tail(q)

\* What ResetPendingManaged leaves in the channel.
Left(q) == <<>>

\* Replace: new claims, and all queued downloads taken back.  Nobody but this
\* goroutine adds to the channel; a task the downloader receives in between is one
\* it received before.
Replace(list) ==
  /\ plan = "idle" /\ ~starting /\ step # "off"
  /\ replaces < MaxReplaces /\ replaces' = replaces + 1
  /\ list # claims
  /\ claims' = list
  /\ taskCh' = Left(taskCh)
  /\ pending' = Drained(pending, taskCh)
  /\ qDownload' = Drained(qDownload, taskCh)
  /\ todo' = Plan(list)
  /\ plan' = IF todo' = {} THEN "idle" ELSE "checking"
  /\ dropped' = {}
  /\ UNCHANGED <<outcome, qVerify, gidMap, pathGID, starting, loop, mishaps, aria2Client>>

\* fileBusyOrConfirmed
BusyOrConfirmed(f) == f \in confirmed \cup qDownload \cup qVerify

\* planFile: skip a file somebody has.
Check ==
  /\ plan = "checking"
  /\ IF BusyOrConfirmed(Visiting)
     THEN Visited
     ELSE plan' = "looking" /\ UNCHANGED <<todo, starting>>
  /\ UNCHANGED <<claims, outcome, flags, maps, loop, dropped, count, aria2Client>>

\* planFile: look at the disk.  A file only moves on in the order of the four
\* calls of Stat, so that they are one look.
Look ==
  LET f == Visiting
      toDownload == disk[f] \cap {"downloading", "control"} # {} \/ disk[f] = {}
      name == IF "downloaded" \in disk[f] THEN "downloaded" ELSE "final"
  IN  /\ plan = "looking"
      /\ IF toDownload
         THEN /\ qDownload' = qDownload \cup {f}
              /\ plan' = "submitting"
              /\ UNCHANGED <<qVerify, toVerify, todo, starting>>
         ELSE /\ qVerify' = qVerify \cup {f}
              /\ toVerify' = [toVerify EXCEPT ![<<f, name>>] = @ + 1]
              /\ Visited
              /\ UNCHANGED qDownload
      /\ UNCHANGED <<claims, completed, confirmed, reported, maps, loop, dropped,
                     count, aria2Client>>

\* downloader.Submit up to the channel: not a file the claims do not allow, nor
\* one that is queued or being downloaded under this name.
Submit ==
  LET f == Visiting
      queued == f \in pending \/ pathGID[<<f, "planned">>] # NoGid
  IN  /\ plan = "submitting"
      /\ qDownload' = IF Allowed(claims, f) THEN qDownload ELSE qDownload \ {f}
      /\ IF Allowed(claims, f) /\ ~queued
         THEN pending' = pending \cup {f} /\ plan' = "sending" /\ UNCHANGED <<todo, starting>>
         ELSE Visited /\ UNCHANGED pending
      /\ UNCHANGED <<claims, outcome, qVerify, taskCh, gidMap, pathGID, loop, dropped,
                     count, aria2Client>>

\* The send of Submit; while planning at start-up nobody receives yet.
SendTask ==
  /\ plan = "sending"
  /\ Len(taskCh) < TaskCap
  /\ taskCh' = Append(taskCh, Visiting)
  /\ Visited
  /\ UNCHANGED <<claims, outcome, flags, pending, gidMap, pathGID, loop, dropped,
                 count, aria2Client>>

Planning == Check \/ Look \/ Submit \/ SendTask

-----------------------------------------------------------------------------
(* The downloader.                                                         *)

GoTo(s, f) == step' = s /\ hand' = f

AdoptedKey(f) == IF Absolute THEN <<f, "planned">> ELSE <<f, "adopted">>

\* registerActive for several downloads, one after the other: a path that has a
\* gid keeps it.
Register(new) ==
  LET keys == {new[g] : g \in DOMAIN new} \ {k \in Key : pathGID[k] # NoGid}
      gidOf == [k \in keys |-> CHOOSE g \in DOMAIN new : new[g] = k]
  IN  /\ gidMap' = [g \in Gid |-> IF \E k \in keys : gidOf[k] = g THEN new[g] ELSE gidMap[g]]
      /\ pathGID' = [k \in Key |-> IF k \in keys THEN gidOf[k] ELSE pathGID[k]]
      /\ qDownload' = qDownload \cup {k[1] : k \in keys}

Held == {g \in Gid : gidMap[g] # NoKey}

\* run begins when InitWorker has returned, with adoptExisting.
Run ==
  /\ step = "off" /\ ~starting
  /\ Call(Tell)
  /\ GoTo("adopting", NoFile)
  /\ UNCHANGED <<claims, outcome, flags, maps, planner, dropped, count>>

\* adoptExisting: every download aria2 lists below DownloadDir.
Adopt ==
  /\ step = "adopting"
  /\ Return
  /\ \E r \in Results :
       IF r.kind = "jobs"
       THEN Register([g \in r.jobs |-> AdoptedKey(g[1])])
       ELSE UNCHANGED <<gidMap, pathGID, qDownload>>
  /\ GoTo("selecting", NoFile)
  /\ UNCHANGED <<claims, outcome, qVerify, taskCh, pending, planner, dropped, count>>

\* run receives a task, which is still in pending ...
TakeTask ==
  /\ step = "selecting"
  /\ taskCh # <<>>
  /\ taskCh' = Tail(taskCh)
  /\ GoTo("taken", Head(taskCh))
  /\ UNCHANGED <<claims, outcome, flags, pending, gidMap, pathGID, planner, dropped, count,
                 aria2Client>>

\* ... until handleTask has the lock; up to the call of addUri.
HandleTask ==
  /\ step = "taken"
  /\ pending' = pending \ {hand}
  /\ Call(Add(hand))
  /\ GoTo("adding", hand)
  /\ UNCHANGED <<claims, outcome, flags, taskCh, gidMap, pathGID, planner, dropped, count>>

\* A mutant of Unflagged: the flag stays.
MutKeepFlag(f) == qDownload

Unflagged(f) == qDownload \ {f}

\* handleTask gives up on the task.
GiveUp ==
  /\ qDownload' = Unflagged(hand)
  /\ dropped' = dropped \cup {hand}
  /\ GoTo("selecting", NoFile)
  /\ UNCHANGED <<gidMap, pathGID>>

\* handleTask: addUri returned; a duplicate makes tryAdoptDuplicate ask aria2.
Added ==
  /\ step = "adding"
  /\ \E r \in Results :
       \/ /\ r.kind = "gid"
          /\ Register([g \in {r.gid} |-> <<hand, "planned">>])
          /\ GoTo("selecting", NoFile)
          /\ UNCHANGED dropped
          /\ Return
       \/ /\ r = Duplicate
          /\ Call(Tell)
          /\ GoTo("matching", hand)
          /\ UNCHANGED <<gidMap, pathGID, qDownload, dropped>>
       \/ r = Failure /\ GiveUp /\ Return
  /\ UNCHANGED <<claims, outcome, qVerify, taskCh, pending, planner, count>>

\* tryAdoptDuplicate: the download of this path, if there still is one.
Match ==
  /\ step = "matching"
  /\ Return
  /\ \E r \in Results :
       IF r.kind = "jobs" /\ \E g \in r.jobs : g[1] = hand
       THEN /\ Register([g \in {g \in r.jobs : g[1] = hand} |-> <<hand, "planned">>])
            /\ GoTo("selecting", NoFile)
            /\ UNCHANGED dropped
       ELSE GiveUp
  /\ UNCHANGED <<claims, outcome, qVerify, taskCh, pending, planner, count>>

\* A mutant of Unmapped: the gid stays.
MutKeepGid(g) == gidMap

\* unregister deletes the gid, and pathGID of the path it stood for.
Unmapped(g) == [gidMap EXCEPT ![g] = NoKey]

\* handleEvent: unregister and clear the flag.  An event of an unknown gid is ignored.
TakeEvent ==
  /\ step = "selecting"
  /\ events # <<>>
  /\ events' = Tail(events)
  /\ LET g == Head(events).gid
         k == gidMap[g]
     IN  IF k = NoKey
         THEN UNCHANGED <<gidMap, pathGID, qDownload, loop, dropped>>
         ELSE /\ gidMap' = Unmapped(g)
              /\ pathGID' = [pathGID EXCEPT ![k] = NoGid]
              /\ qDownload' = qDownload \ {k[1]}
              /\ IF Head(events).success
                 THEN GoTo("ended", k[1]) /\ UNCHANGED dropped
                 ELSE UNCHANGED loop /\ dropped' = dropped \cup {k[1]}
  /\ UNCHANGED <<claims, outcome, qVerify, taskCh, pending, planner, count,
                 aria2, net, reader, done, calling, answer, failures, lost>>

\* handleEvent: hand the file to the verifiers.
SubmitVerify ==
  /\ step = "ended"
  /\ qVerify' = qVerify \cup {hand}
  /\ toVerify' = [toVerify EXCEPT ![<<hand, "downloading">>] = @ + 1]
  /\ GoTo("selecting", NoFile)
  /\ UNCHANGED <<claims, completed, confirmed, reported, qDownload, maps, planner,
                 dropped, count, aria2Client>>

\* run receives from Done; reconnect waits and cleans up.  After a dial that
\* failed it comes here again.
Disconnect ==
  /\ step \in {"selecting", "cleaning"}
  /\ Cleanup
  /\ GoTo("dialling", NoFile)
  /\ UNCHANGED <<claims, outcome, flags, maps, planner, dropped, count>>

\* ReconnectOnly succeeds; adoptExisting follows.
Reconnect ==
  /\ step = "dialling"
  /\ DialOk(Tell)
  /\ GoTo("adopting", NoFile)
  /\ UNCHANGED <<claims, outcome, flags, maps, planner, dropped, count>>

FailToReconnect ==
  /\ step = "dialling"
  /\ DialFail
  /\ GoTo("cleaning", NoFile)
  /\ UNCHANGED <<claims, outcome, flags, maps, planner, dropped, count>>

Downloading ==
  \/ Run \/ Adopt \/ TakeTask \/ HandleTask \/ Added \/ Match \/ TakeEvent \/ SubmitVerify
  \/ Disconnect \/ Reconnect \/ FailToReconnect

-----------------------------------------------------------------------------
(* The verifiers and the reporter.                                         *)

\* A mutant of ReportedName: the file is not renamed before it is reported.
MutNoRename(name) == name

\* prepareReportedPath
ReportedName(name) == IF name = "downloading" THEN "downloaded" ELSE name

\* Task.Verify succeeds and ends with PushVerified.
Verify(f, name) ==
  /\ toVerify[<<f, name>>] > 0
  /\ ~starting
  /\ name \in disk[f]
  /\ toVerify' = [toVerify EXCEPT ![<<f, name>>] = @ - 1]
  /\ disk' = [disk EXCEPT ![f] = (@ \ {name}) \cup {ReportedName(name)}]
  /\ reported' = reported \cup {<<f, ReportedName(name)>>}
  /\ UNCHANGED <<claims, completed, confirmed, flags, maps, planner, loop, dropped,
                 count, up, jobs, net, client, lost>>

\* Task.Verify fails: the file is gone, or it does not read or unzip.
VerifyFails(f, name) ==
  /\ toVerify[<<f, name>>] > 0
  /\ ~starting
  /\ IF name \in disk[f] THEN Mishap ELSE UNCHANGED mishaps
  /\ toVerify' = [toVerify EXCEPT ![<<f, name>>] = @ - 1]
  /\ qVerify' = qVerify \ {f}
  /\ dropped' = dropped \cup {f}
  /\ UNCHANGED <<claims, completed, confirmed, reported, qDownload, maps, planner,
                 loop, replaces, aria2Client>>

\* readLoop: the answer to the report of a file; the rename, then confirmManagedFile.
Confirm(f, name) ==
  /\ <<f, name>> \in reported
  /\ plan = "idle" /\ ~starting
  /\ reported' = reported \ {<<f, name>>}
  /\ disk' = IF name = "downloaded" /\ name \in disk[f]
             THEN [disk EXCEPT ![f] = (@ \ {name}) \cup {"final"}]
             ELSE disk
  /\ confirmed' = confirmed \cup {f}
  /\ qVerify' = qVerify \ {f}
  /\ qDownload' = qDownload \ {f}
  /\ completed' = Pruned(completed, CompleteChain(f, confirmed', completed))
  /\ UNCHANGED <<claims, toVerify, maps, planner, loop, dropped, count,
                 up, jobs, net, client, lost>>

-----------------------------------------------------------------------------
(* aria2.                                                                  *)

Aria2(A) == A /\ UNCHANGED <<claims, outcome, flags, maps, planner, loop, dropped, replaces>>

Reads == Aria2(Read /\ UNCHANGED mishaps)
Serves == Aria2(Serve(Held) /\ UNCHANGED mishaps)
Finishes(g) == Aria2(EndJob(g, TRUE) /\ UNCHANGED mishaps)
Fails(g) == Aria2(EndJob(g, FALSE) /\ Mishap)

Next ==
  \/ \E list \in Lists : Replace(list)
  \/ Planning
  \/ Downloading
  \/ \E f \in Files, name \in Names : Verify(f, name) \/ VerifyFails(f, name) \/ Confirm(f, name)
  \/ Reads \/ Serves
  \/ \E g \in Gid : Finishes(g) \/ Fails(g)
  \/ Aria2(Break /\ Mishap)
  \/ Aria2(Exit /\ Mishap)
  \/ Aria2(Start /\ UNCHANGED mishaps)

Spec == Init /\ [][Next]_vars

\* Every goroutine that can run does; aria2 answers and downloads end.
Fairness ==
  /\ WF_vars(Planning) /\ WF_vars(Downloading) /\ WF_vars(Reads) /\ WF_vars(Serves)
  /\ \A g \in Gid : WF_vars(Finishes(g) \/ Fails(g))
  /\ \A f \in Files, name \in Names :
       WF_vars(Verify(f, name) \/ VerifyFails(f, name)) /\ WF_vars(Confirm(f, name))

FairSpec == Spec /\ Fairness

-----------------------------------------------------------------------------
Steps ==
  {"off", "adopting", "selecting", "taken", "adding", "matching", "ended", "cleaning", "dialling"}

TypeOK ==
  /\ starting \in BOOLEAN
  /\ claims \in List /\ completed \subseteq Dirs
  /\ confirmed \subseteq Files /\ qDownload \subseteq Files /\ qVerify \subseteq Files
  /\ pending \subseteq Files /\ todo \subseteq Files /\ dropped \subseteq Files
  /\ taskCh \in Seq(Files) /\ Len(taskCh) <= TaskCap
  /\ gidMap \in [Gid -> Key \cup {NoKey}]
  /\ pathGID \in [Key -> Gid \cup {NoGid}]
  /\ toVerify \in [Files \X Names -> Nat]
  /\ reported \subseteq Files \X Names
  /\ plan \in {"idle", "checking", "looking", "submitting", "sending"}
  /\ plan = "idle" <=> todo = {}
  /\ step \in Steps
  /\ hand \in Files \cup {NoFile}
  /\ replaces \in 0 .. MaxReplaces /\ mishaps \in 0 .. MaxMishaps
  /\ up \in BOOLEAN /\ done \in BOOLEAN /\ conn \in {"open", "broken"}
  /\ jobs \subseteq Gid /\ disk \in [Files -> SUBSET OnDisk]
  /\ request \in Request \cup {NoRequest} /\ calling \in Request \cup {NoRequest}
  /\ wire \in Seq(Answer \cup Event) /\ events \in Seq(Event) /\ Len(events) <= EvCap
  /\ reader \in Event \cup {Idle, Off}
  /\ answer \in Answer \cup {NoAnswer, Failure}
  /\ lost \in BOOLEAN

InChannel == {taskCh[i] : i \in DOMAIN taskCh}
Registered(f) == \E g \in Gid : gidMap[g] \in {f} \X {"planned", "adopted"}
Planned(f) == plan \in {"submitting", "sending"} /\ f = Visiting
Verifying(f) == \E name \in Names : toVerify[<<f, name>>] > 0
Reported(f) == \E name \in Names : <<f, name>> \in reported

\* Server and worker understand a list in the same way: nothing is counted that is
\* never fetched, nor fetched without being counted.
ListsAgree == claims \notin Disputed

\* The file on its way into the channel, and the one on its way out of it.
Sending == IF plan = "sending" THEN {Visiting} ELSE {}
Taken == IF step = "taken" THEN {hand} ELSE {}

\* A file waits for aria2 at most once, on its way into the channel, in it, or received
\* but not yet handled, and pending holds exactly these: nothing is refused as pending
\* that nobody is going to hand to aria2.
QueuedOnce ==
  /\ \A i, j \in DOMAIN taskCh : taskCh[i] = taskCh[j] => i = j
  /\ InChannel \cap Sending = {} /\ InChannel \cap Taken = {} /\ Sending \cap Taken = {}
  /\ pending = InChannel \cup Sending \cup Taken

\* The key of a registered download leads back to it; with an absolute
\* DownloadDir there is no key without its download either.
MapsInverse ==
  /\ \A g \in Gid : gidMap[g] # NoKey => pathGID[gidMap[g]] = g
  /\ Absolute => \A k \in Key : pathGID[k] # NoGid => gidMap[pathGID[k]] = k

\* A file is marked busy only while somebody has it.
FlagOwned ==
  /\ \A f \in qDownload :
       \/ f \in InChannel \/ Planned(f) \/ hand = f
       \/ \E k \in Key : k[1] = f /\ pathGID[k] # NoGid
  /\ \A f \in qVerify : Verifying(f) \/ Reported(f)

\* Nothing waits for aria2 that the current claims do not allow.
OnlyClaimedQueued == \A f \in InChannel : Allowed(claims, f)

\* When nothing is being planned, a claimed file is confirmed, lies in a directory
\* recorded as complete, was given up after a failure, or somebody has it.
ClaimedInHand ==
  plan = "idle" =>
    \A f \in Files :
      Allowed(claims, f) =>
        \/ f \in confirmed \cup Covered(completed) \cup dropped
        \/ f \in InChannel \/ hand = f \/ Registered(f) \/ Verifying(f) \/ Reported(f)

\* A file that was confirmed, in this process or, as part of a directory worker.json
\* records as complete, in an earlier one, exists under its final name.
ConfirmedOnDisk == \A f \in confirmed \cup Covered(completed) : "final" \in disk[f]

\* The client's readLoop runs once at most on a connection, and not while the
\* cleanup believes it is over; the restart after three failed dials is out of reach.
OneReader ==
  /\ reader = Off <=> (done \/ step \in {"dialling", "cleaning"})
  /\ failures <= 1

\* A worker gets through its start-up.
StartsUp == <>(~starting)

\* What the goroutines, aria2 and the network can do without a failure, a new
\* list or somebody starting aria2.
Work ==
  \/ Planning \/ Downloading \/ Reads \/ Serves
  \/ \E g \in Gid : Finishes(g)
  \/ \E f \in Files, name \in Names : Verify(f, name) \/ Confirm(f, name)

\* Who waits for nothing and for nobody.
PlannerReady ==
  plan \in {"checking", "looking", "submitting"} \/ (plan = "sending" /\ Len(taskCh) < TaskCap)

DownloaderReady ==
  \/ step = "off" /\ ~starting
  \/ step \in {"adopting", "adding", "matching"} /\ (answer # NoAnswer \/ done)
  \/ step = "selecting" /\ (taskCh # <<>> \/ events # <<>>)
  \/ step \in {"selecting", "cleaning"} /\ done
  \/ step \in {"taken", "ended", "dialling"}

ReaderReady ==
  \/ reader = Idle /\ (wire # <<>> \/ conn = "broken")
  \/ reader \in Event /\ Len(events) < EvCap

VerifierReady ==
  ~starting /\ \E f \in Files, name \in Names : name \in disk[f] /\ toVerify[<<f, name>>] > 0
ReporterReady == plan = "idle" /\ ~starting /\ reported # {}

\* aria2 has a download to finish, or a request: for the next, a gid is free.
GidFree(f) == \E n \in 1 .. Copies : <<f, n>> \in Fresh(Held)
Aria2Ready ==
  \/ jobs # {}
  \/ up /\ request.kind = "tell"
  \/ up /\ request.kind = "add" /\ ((\E g \in jobs : g[1] = request.file) \/ GidFree(request.file))

SomebodyReady ==
  PlannerReady \/ DownloaderReady \/ ReaderReady \/ VerifierReady \/ ReporterReady \/ Aria2Ready

\* Who waits for nothing gets on: whatever a call is answered, and whatever is in a
\* channel, there is a step for it.
ReadyMoves ==
  /\ PlannerReady => ENABLED Planning
  /\ DownloaderReady => ENABLED Downloading
  /\ ReaderReady => ENABLED Reads
  /\ SomebodyReady => ENABLED Work

\* Nobody waits for anybody who waits for him: when everybody waits, every
\* claimed file is confirmed, recorded as complete or given up after a failure; or a
\* notification was lost, or aria2 is gone, or was gone when the client dialled.
NoStandstill ==
  SomebodyReady \/ lost \/ ~up \/ failures > 0
  \/ \A f \in Files : Allowed(claims, f) => f \in confirmed \cup Covered(completed) \cup dropped

=============================================================================
