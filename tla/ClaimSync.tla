------------------------------ MODULE ClaimSync ------------------------------
(***************************************************************************)
(* How a change of one worker's claims travels: the HTTP handlers that     *)
(* change the reclaims table (internal/server/handler.go, db.go), the      *)
(* claimed totals computed from the table (RefreshClaimsFromDB in tree.go), *)
(* and the list pushed to the worker, after a change and when it connects  *)
(* (syncReclaimsToConn in wsrpc.go), which the worker keeps over a restart *)
(* in worker.json (claimState.apply in internal/worker/claims.go, state.go *)
(* and config.Save).                                                       *)
(***************************************************************************)
EXTENDS Naturals, Sequences

CONSTANTS Dir,          \* directories
          Request,      \* goroutines serving one HTTP request each
          Conn,         \* WebSocket connections; reused when the server is done with one
          NoConn,       \* no connection
          NoDir,        \* no directory
          MaxRequests,  \* requests that may be made
          MaxErrors,    \* requests and first pushes cut short, saves that fail
          MaxDrops,     \* connections lost, with or without the worker
          Overlap       \* may requests and connecting overlap each other?

ASSUME ClaimAssumption ==
  /\ NoConn \notin Conn
  /\ NoDir \notin Dir
  /\ MaxRequests \in Nat
  /\ MaxErrors \in Nat
  /\ MaxDrops \in Nat
  /\ Overlap \in BOOLEAN

Kind == {"white", "black"}
\* The reclaims row of a directory, NoRow if there is none.
NoRow == [id |-> 0, kind |-> "none"]
Row   == [id : 1 .. MaxRequests, kind : Kind] \cup {NoRow}
State == [Dir -> Kind \cup {"none"}]
Empty == [d \in Dir |-> "none"]

\* worker.json is not there.
NoFile == [d \in Dir |-> "no file"]

\* A handler's variables: the directory, the wanted kind ("delete" for DELETE), the
\* row it has read, the list it has read, and what it got from Hub.GetConn.
Local   == [dir : Dir \cup {NoDir}, want : Kind \cup {"delete"}, seen : Row, list : State,
            wc : Conn \cup {NoConn}]
NoLocal == [dir |-> NoDir, want |-> "delete", seen |-> NoRow, list |-> Empty, wc |-> NoConn]

VARIABLES
  rows,       \* table reclaims, one row per directory (unique index)
  nextId,     \* the sequence behind reclaims.id
  overwritten, \* ids of rows a creation found in its way and overwrote
  requests,   \* requests made
  pc,         \* per request, the next thing its handler does
  local,      \* per request, the handler's variables
  treeClaims, \* the list the claimed totals of the tree were computed from
  hub,        \* per connection, where its HandleWS stands
  initial,    \* per connection, the list read for the first push
  registered, \* Hub.conns for this worker
  toWorker,   \* pushes on the wire
  online,     \* the connection the worker reads
  claims,     \* claimState.claims
  saved,      \* RuntimeState.Claims in worker.json
  saving,     \* "no", "writing" worker.json, "renaming" it, or it is "lost" with the
              \*   worker's key, and the worker does not start again
  errors,     \* requests and first pushes cut short, saves that failed
  drops,      \* connections lost so far
  behind,     \* connections on which a push was cut short or, being empty, skipped
  treeBehind  \* a refresh of the tree was cut short

reclaims == <<rows, nextId, overwritten>>
web    == <<pc, local>>
socket == <<hub, initial, registered, toWorker, online>>
worker == <<claims, saved, saving>>
vars   == <<reclaims, requests, web, treeClaims, socket, worker, errors, drops, behind, treeBehind>>

Init ==
  /\ rows = [d \in Dir |-> NoRow]
  /\ nextId = 1 /\ overwritten = {}
  /\ requests = 0
  /\ pc = [r \in Request |-> "idle"]
  /\ local = [r \in Request |-> NoLocal]
  /\ treeClaims = Empty
  /\ hub = [c \in Conn |-> "none"]
  /\ initial = [c \in Conn |-> Empty]
  /\ registered = NoConn
  /\ toWorker = [c \in Conn |-> <<>>]
  /\ online = NoConn
  /\ claims = Empty /\ saved = Empty /\ saving = "no"
  /\ errors = 0 /\ drops = 0
  /\ behind = {}
  /\ treeBehind = FALSE

\* What the canonical query returns for the worker.
Listed == [d \in Dir |-> rows[d].kind]

Served == \A r \in Request : pc[r] = "idle"
Synced == \A c \in Conn : hub[c] \in {"none", "open"}

-----------------------------------------------------------------------------
(* The handlers.                                                           *)

Begin(r) ==
  /\ pc[r] = "idle"
  /\ requests < MaxRequests
  /\ ~Overlap => Served /\ Synced
  /\ requests' = requests + 1

GoTo(r, next) == pc' = [pc EXCEPT ![r] = next]

\* The handler returns.
Return(r) == GoTo(r, "idle") /\ local' = [local EXCEPT ![r] = NoLocal]

\* handleCreateClaim up to GetEffectiveReclaim.
Create(r, d, kind) ==
  /\ Begin(r)
  /\ local' = [local EXCEPT ![r].dir = d, ![r].want = kind, ![r].seen = rows[d]]
  /\ GoTo(r, "write")
  /\ UNCHANGED <<reclaims, treeClaims, socket, worker, errors, drops, behind, treeBehind>>

\* handleDeleteClaim up to the target row; a claim that is not there is a 404.
Delete(r, d) ==
  /\ Begin(r)
  /\ rows[d] # NoRow
  /\ local' = [local EXCEPT ![r].dir = d, ![r].seen = rows[d]]
  /\ GoTo(r, "write")
  /\ UNCHANGED <<reclaims, treeClaims, socket, worker, errors, drops, behind, treeBehind>>

\* A mutant of AfterWrite: the handler does not refresh the tree.
MutNoRefresh == "find"

\* After the table, RefreshClaimsFromDB.
AfterWrite == "scan"

\* A mutant of InsertedId: the id does not come from the sequence.
MutOneId == 1

InsertedId == nextId

\* SetEffectiveReclaimByKey: insert, or overwrite a row that appeared since; the
\* overwritten row keeps its id.
SetEffective(r) ==
  LET d == local[r].dir
  IN  /\ pc[r] = "write"
      /\ local[r].seen = NoRow
      /\ rows' = [rows EXCEPT ![d] = [id |-> IF rows[d] = NoRow THEN InsertedId ELSE rows[d].id,
                                      kind |-> local[r].want]]
      /\ nextId' = IF rows[d] = NoRow THEN nextId + 1 ELSE nextId
      /\ overwritten' = overwritten \cup ({rows[d].id} \ {NoRow.id})
      /\ GoTo(r, AfterWrite)
      /\ UNCHANGED <<requests, local, treeClaims, socket, worker, errors, drops, behind, treeBehind>>

\* The claim is there already.
KeepClaim(r) ==
  /\ pc[r] = "write"
  /\ local[r].seen.kind = local[r].want
  /\ GoTo(r, AfterWrite)
  /\ UNCHANGED <<reclaims, requests, local, treeClaims, socket, worker, errors, drops,
                 behind, treeBehind>>

\* A mutant of StillThere: whatever row the directory has now.
MutByDirectory(r) == rows[local[r].dir] # NoRow

\* DeleteReclaimByKey finds the row by the id the handler has read.
StillThere(r) == rows[local[r].dir].id = local[r].seen.id

Deleting(r) ==
  pc[r] = "write" /\ local[r].seen # NoRow /\ local[r].seen.kind # local[r].want

\* Deleting, or claiming the opposite, which takes the claim away.
DeleteRow(r) ==
  /\ Deleting(r)
  /\ StillThere(r)
  /\ rows' = [rows EXCEPT ![local[r].dir] = NoRow]
  /\ GoTo(r, AfterWrite)
  /\ UNCHANGED <<nextId, overwritten, requests, local, treeClaims, socket, worker, errors, drops,
                 behind, treeBehind>>

\* "claim not found": the handler ends without refreshing or pushing anything.
NotFound(r) ==
  /\ Deleting(r)
  /\ ~StillThere(r)
  /\ Return(r)
  /\ UNCHANGED <<reclaims, requests, treeClaims, socket, worker, errors, drops, behind,
                 treeBehind>>

\* RefreshClaimsFromDB reads the table ...
ScanAllReclaims(r) ==
  /\ pc[r] = "scan"
  /\ local' = [local EXCEPT ![r].list = Listed]
  /\ GoTo(r, "recompute")
  /\ treeBehind' = FALSE
  /\ UNCHANGED <<reclaims, requests, treeClaims, socket, worker, errors, drops, behind>>

\* ... and only then takes the lock of the tree.
RecomputeClaimed(r) ==
  /\ pc[r] = "recompute"
  /\ treeClaims' = local[r].list
  /\ GoTo(r, "find")
  /\ UNCHANGED <<reclaims, requests, local, socket, worker, errors, drops, behind,
                 treeBehind>>

\* SyncReclaimsForWorker: done if the worker is not connected.
GetConn(r) ==
  /\ pc[r] = "find"
  /\ IF registered = NoConn THEN Return(r)
     ELSE GoTo(r, "read") /\ local' = [local EXCEPT ![r].wc = registered]
  /\ UNCHANGED <<reclaims, requests, treeClaims, socket, worker, errors, drops, behind,
                 treeBehind>>

\* A mutant of Skipped: an empty list is never sent.
MutNeverEmpty(list, sendEmpty) == list = Empty
\* Another one: the first push of a connection is never sent.
MutNoInitial(list, sendEmpty) == ~sendEmpty

\* syncReclaimsToConn does not send an empty list unless told to.
Skipped(list, sendEmpty) == list = Empty /\ ~sendEmpty

\* syncReclaimsToConn(wc, true): read the worker's rows ...
GetReclaims(r) ==
  /\ pc[r] = "read"
  /\ IF Skipped(Listed, TRUE) THEN Return(r)
     ELSE GoTo(r, "send") /\ local' = [local EXCEPT ![r].list = Listed]
  /\ UNCHANGED <<reclaims, requests, treeClaims, socket, worker, errors, drops, behind,
                 treeBehind>>

\* A mutant of Pushed: a push overtakes those before it.
MutOvertakes(c, list) ==
  toWorker' = IF c = online THEN [toWorker EXCEPT ![c] = <<list>> \o @] ELSE toWorker

\* What is written to a connection the worker no longer reads is lost.
Pushed(c, list) ==
  toWorker' = IF c = online THEN [toWorker EXCEPT ![c] = Append(@, list)] ELSE toWorker

\* ... and send them; nothing orders this with another sender's read.
SendReclaims(r) ==
  /\ pc[r] = "send"
  /\ Pushed(local[r].wc, local[r].list)
  /\ behind' = behind \ {local[r].wc}
  /\ Return(r)
  /\ UNCHANGED <<reclaims, requests, treeClaims, hub, initial, registered, online, worker,
                 errors, drops, treeBehind>>

\* The connections to which the rest of the handler would push.
Target(r) == (IF pc[r] = "read" THEN {local[r].wc} ELSE {registered}) \ {NoConn}

\* The database fails or the client hangs up, which cancels the context of
\* whatever the handler does next: it ends where it is.  (A write that commits
\* but whose answer is lost is a write followed by this.)
CutShort(r) ==
  /\ pc[r] \in {"write", "scan", "read"}
  /\ errors < MaxErrors /\ errors' = errors + 1
  /\ behind' = IF pc[r] = "write" THEN behind ELSE behind \cup Target(r)
  /\ treeBehind' = (treeBehind \/ pc[r] = "scan")
  /\ Return(r)
  /\ UNCHANGED <<reclaims, requests, treeClaims, socket, worker, drops>>

-----------------------------------------------------------------------------
(* Connections and the worker.                                             *)

\* The worker dials when its readLoop has returned, and HandleWS registers the
\* connection, closing the one before.
Connect(c) ==
  /\ online = NoConn /\ saving = "no"
  /\ hub[c] = "none"
  /\ ~Overlap => Served /\ Synced
  /\ online' = c
  /\ hub' = [hub EXCEPT ![c] = "registered"]
  /\ registered' = c
  /\ behind' = behind \ {c}
  /\ UNCHANGED <<reclaims, requests, web, treeClaims, initial, toWorker, worker, errors,
                 drops, treeBehind>>

\* sendInitialReclaims = syncReclaimsToConn(wc, false).
ReadInitial(c) ==
  /\ hub[c] = "registered"
  /\ initial' = [initial EXCEPT ![c] = Listed]
  /\ IF Skipped(Listed, FALSE)
     THEN hub' = [hub EXCEPT ![c] = "open"] /\ behind' = behind \cup {c}
     ELSE hub' = [hub EXCEPT ![c] = "sending"] /\ UNCHANGED behind
  /\ UNCHANGED <<reclaims, requests, web, treeClaims, registered, toWorker, online, worker,
                 errors, drops, treeBehind>>

SendInitial(c) ==
  /\ hub[c] = "sending"
  /\ Pushed(c, initial[c])
  /\ initial' = [initial EXCEPT ![c] = Empty]
  /\ behind' = behind \ {c}
  /\ hub' = [hub EXCEPT ![c] = "open"]
  /\ UNCHANGED <<reclaims, requests, web, treeClaims, registered, online, worker,
                 errors, drops, treeBehind>>

\* The read of sendInitialReclaims fails, which is only logged.
InitialFails(c) ==
  /\ hub[c] = "registered"
  /\ errors < MaxErrors /\ errors' = errors + 1
  /\ hub' = [hub EXCEPT ![c] = "open"]
  /\ behind' = behind \cup {c}
  /\ UNCHANGED <<reclaims, requests, web, treeClaims, initial, registered, toWorker, online,
                 worker, drops, treeBehind>>

\* A mutant of Persisted: an empty list is nothing to save.
MutNotEmpty(list) == list # Empty

\* UpdateClaims saves whatever list it is given.
Persisted(list) == TRUE

\* reporter.readLoop, MessageTaskSync: claimState.apply.  A list that is the present
\* one changes nothing, not even the file; another is in force before it is saved.
Replace ==
  /\ online # NoConn /\ saving = "no"
  /\ toWorker[online] # <<>>
  /\ LET list == Head(toWorker[online])
     IN  /\ claims' = list
         /\ saving' = IF list # claims /\ Persisted(list) THEN "writing" ELSE "no"
  /\ toWorker' = [toWorker EXCEPT ![online] = Tail(@)]
  /\ UNCHANGED <<reclaims, requests, web, treeClaims, hub, initial, registered, online,
                 saved, errors, drops, behind, treeBehind>>

\* UpdateCompletedDirIDs, after an answer, saves the claims as well; up to the removal
\* of the old file.
SaveCompleted ==
  /\ online # NoConn /\ saving = "no"
  /\ toWorker[online] = <<>>
  /\ saving' = "renaming"
  /\ saved' = NoFile
  /\ UNCHANGED <<reclaims, requests, web, treeClaims, socket, claims, errors, drops,
                 behind, treeBehind>>

\* Save: the new file is written beside the old one, which is then removed.
RemoveFile ==
  /\ saving = "writing"
  /\ saving' = "renaming"
  /\ saved' = NoFile
  /\ UNCHANGED <<reclaims, requests, web, treeClaims, socket, claims, errors,
                 drops, behind, treeBehind>>

RenameFile ==
  /\ saving = "renaming"
  /\ saving' = "no"
  /\ saved' = claims
  /\ UNCHANGED <<reclaims, requests, web, treeClaims, socket, claims, errors,
                 drops, behind, treeBehind>>

Save == RemoveFile \/ RenameFile

\* Either step fails, which is only logged.
SaveFails ==
  /\ saving \in {"writing", "renaming"}
  /\ errors < MaxErrors /\ errors' = errors + 1
  /\ saving' = "no"
  /\ UNCHANGED <<reclaims, requests, web, treeClaims, socket, claims, saved,
                 drops, behind, treeBehind>>

\* The worker dies and starts again with RestoreCached; without a file EnsureConfig
\* writes one that has no key, and gives up.
Crash ==
  /\ saving # "lost"
  /\ drops < MaxDrops /\ drops' = drops + 1
  /\ claims' = IF saved = NoFile THEN Empty ELSE saved
  /\ saving' = IF saved = NoFile THEN "lost" ELSE "no"
  /\ online' = NoConn
  /\ toWorker' = [c \in Conn |-> <<>>]
  /\ UNCHANGED <<reclaims, requests, web, treeClaims, hub, initial, registered, saved,
                 errors, behind, treeBehind>>

\* The connection goes away; what is on the wire is lost.
Drop ==
  /\ online # NoConn
  /\ drops < MaxDrops /\ drops' = drops + 1
  /\ online' = NoConn
  /\ toWorker' = [toWorker EXCEPT ![online] = <<>>]
  /\ UNCHANGED <<reclaims, requests, web, treeClaims, hub, initial, registered, worker,
                 errors, behind, treeBehind>>

\* HandleWS notices it and leaves Hub.conns, if it is still the one in there.
HangUp(c) ==
  /\ hub[c] = "open"
  /\ online # c
  /\ hub' = [hub EXCEPT ![c] = "none"]
  /\ registered' = IF registered = c THEN NoConn ELSE registered
  /\ UNCHANGED <<reclaims, requests, web, treeClaims, initial, toWorker, online, worker,
                 errors, drops, behind, treeBehind>>

-----------------------------------------------------------------------------
Serve(r) ==
  \/ SetEffective(r) \/ KeepClaim(r) \/ DeleteRow(r) \/ NotFound(r)
  \/ ScanAllReclaims(r) \/ RecomputeClaimed(r)
  \/ GetConn(r) \/ GetReclaims(r) \/ SendReclaims(r)

HandleWS(c) == ReadInitial(c) \/ SendInitial(c) \/ HangUp(c)

Next ==
  \/ \E r \in Request, d \in Dir : Delete(r, d) \/ \E kind \in Kind : Create(r, d, kind)
  \/ \E r \in Request : Serve(r) \/ CutShort(r)
  \/ \E c \in Conn : Connect(c) \/ HandleWS(c) \/ InitialFails(c)
  \/ Replace
  \/ SaveCompleted \/ Save \/ SaveFails
  \/ Drop
  \/ Crash

Spec == Init /\ [][Next]_vars

\* Handlers run to their end, and the worker connects, reads and saves.
FairSpec ==
  /\ Spec
  /\ \A r \in Request : WF_vars(Serve(r))
  /\ \A c \in Conn : WF_vars(HandleWS(c))
  /\ WF_vars(\E c \in Conn : Connect(c))
  /\ WF_vars(Replace)
  /\ WF_vars(Save)

-----------------------------------------------------------------------------
\* Types; two rows never share an id, and the sequence is past them all.
TypeOK ==
  /\ rows \in [Dir -> Row]
  /\ nextId \in 1 .. MaxRequests + 1 /\ overwritten \subseteq 1 .. MaxRequests
  /\ \A d, e \in Dir :
       rows[d] # NoRow => rows[d].id < nextId /\ (rows[e].id = rows[d].id => d = e)
  /\ requests \in 0 .. MaxRequests
  /\ pc \in [Request -> {"idle", "write", "scan", "recompute", "find", "read", "send"}]
  /\ local \in [Request -> Local] /\ initial \in [Conn -> State]
  /\ treeClaims \in State /\ claims \in State
  /\ saved \in State \cup {NoFile} /\ saving \in {"no", "writing", "renaming", "lost"}
  /\ hub \in [Conn -> {"none", "registered", "sending", "open"}]
  /\ registered \in Conn \cup {NoConn} /\ online \in Conn \cup {NoConn}
  /\ toWorker \in [Conn -> Seq(State)]
  /\ errors \in 0 .. MaxErrors /\ drops \in 0 .. MaxDrops
  /\ behind \subseteq Conn
  /\ treeBehind \in BOOLEAN

\* A claim is only taken away by a request that has read that very claim, its id and
\* its kind: ids are not given out again, and DeleteReclaimByKey looks the row up by id
\* before it deletes by directory.  The exception is a claim written over another:
\* of two creations that both found nothing, the second overwrites the row of the
\* first and leaves its id, and a deletion that read the first takes away the second.
RemovedAsRead ==
  [][\A d \in Dir : rows[d] # NoRow /\ rows'[d] = NoRow =>
       \E r \in Request :
         /\ pc[r] = "write" /\ pc'[r] # "write"
         /\ local[r].seen.id = rows[d].id
         /\ rows[d].id \notin overwritten => local[r].seen = rows[d]]_vars

\* Nothing is being served and nothing is on the wire to the worker.
Quiet ==
  /\ Served /\ Synced
  /\ online # NoConn => toWorker[online] = <<>>

\* A connected worker works on the claims the table holds, whatever was lost or cut
\* short before, except where this connection's last push was itself cut short or
\* was an empty first one that is not sent.
WorkerAgrees ==
  Quiet /\ online # NoConn /\ hub[online] = "open" /\ online \notin behind
  => claims = Listed

\* The claimed totals are those of the table whenever no request is served, unless
\* the last refresh was cut short.
TreeAgrees == Served /\ ~treeBehind => treeClaims = Listed

\* What the plan of the worker promises without that condition: the server pushes
\* the final wanted state to a connected worker.
FinalStatePushed ==
  Quiet /\ online # NoConn /\ hub[online] = "open" => claims = Listed

\* Once changes and lost connections are over, a worker with claims works on those
\* of the table, unless a request or a first push was cut short.
Converges ==
  [](errors = 0 /\ saving # "lost") => <>[](Listed # Empty => claims = Listed)

\* What a crash brings back is the list in force, unless it hits a save or a save
\* has failed.  (Saving again what is in force is not tried: the next push of the
\* same list changes nothing.)
RestartKeepsClaims == saving = "no" /\ errors = 0 => saved = claims

\* The tree's totals are about to be computed again, or should have been.
TreeOwed == treeBehind \/ \E r \in Request : pc[r] \in {"scan", "recompute"}

\* The worker is about to be sent the list, or should have been, or is not there.
WorkerOwed ==
  \/ online = NoConn \/ hub[online] # "open" \/ online \in behind
  \/ \E r \in Request : pc[r] \in {"scan", "recompute", "find", "read", "send"}

\* When requests and connecting do not overlap, a claim is changed as if in one step:
\* every list that is pushed, and every one the totals are computed from, is the table
\* at that moment; pushes arrive in their order; the worker keeps the list in force or
\* nothing; and after a change nothing but the table itself makes a copy up to date.
Replica ==
  INSTANCE ClaimReplica
    WITH table <- Listed, totals <- treeClaims, list <- claims, kept <- saved,
         linked <- online # NoConn,
         wire <- IF online = NoConn THEN <<>> ELSE toWorker[online],
         owed <- {copy \in {"tree", "worker"} :
                    (copy = "tree" /\ TreeOwed) \/ (copy = "worker" /\ WorkerOwed)}

ImplementsReplica == Replica!Spec

=============================================================================
