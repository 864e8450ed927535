---------------------------- MODULE ReportDelivery ----------------------------
(***************************************************************************)
(* How one worker's verified files reach the server and how the worker     *)
(* learns that they did: the reporter (internal/worker/reporter.go), its   *)
(* connections, the Hub that serves them (internal/server/wsrpc.go), and   *)
(* what the worker concludes from an answer (confirmManagedFile in         *)
(* internal/worker/claims.go, UpdateCompletedDirIDs in state.go).          *)
(*                                                                         *)
(* Every heartbeat sends the whole batch that is not answered yet under a  *)
(* new number; an answer counts only if it names the latest number.  The   *)
(* code only compares these numbers for equality, so a new number is any   *)
(* number no message can still be carrying, in place of lastSentVer + 1.   *)
(***************************************************************************)
EXTENDS CompletedDirs, Sequences

CONSTANTS Conn,       \* connections; one is used again once both ends are done with it
          NoConn,     \* no connection
          Version,    \* numbers of pings
          WireCap,    \* messages that fit on the wire, in each direction
          MaxFaults,  \* failures that may happen
          Prompt      \* does an answer always beat the next heartbeat?

NoVersion == 0

ASSUME DeliveryAssumption ==
  /\ NoConn \notin Conn
  /\ Version \subseteq Nat \ {NoVersion}
  /\ WireCap \in Nat \ {0}
  /\ MaxFaults \in Nat
  /\ Prompt \in BOOLEAN

Number == Version \cup {NoVersion}
Ping == [ver : Number, batch : SUBSET Files]
NoPing == [ver |-> NoVersion, batch |-> {}]

VARIABLES
  \* the worker process
  toVerify,     \* files queued for Task.Verify
  verified,     \* reporter.verified
  lastSent,     \* reporter.lastSent
  lastSentVer,  \* reporter.lastSentVer
  acking,       \* files of reportedTask that readLoop has not confirmed yet
  confirmed,    \* files with Ext.confirmedDone
  completed,    \* workerStateStore.completedDirIDs
  conn,         \* the connection readLoop reads; another one's *closed is true
  reporting,    \* per connection, where its report goroutine stands
  readVer,      \* per connection, the number its goroutine has read for the next ping
  \* what survives a worker restart
  saved,        \* RuntimeState.CompletedDirIDs in the configuration file
  \* the server
  stored,       \* files with a row of this worker in item_status
  registered,   \* Hub.conns for this worker
  serving,      \* per connection, where its HandleWS stands
  job,          \* per connection, the number of the ping in handlePing and the reports left of it
  \* between them
  toServer,     \* pings on the wire
  toWorker,     \* pongs on the wire
  broken,       \* connections that are closed or lost
  faults        \* failures so far

worker == <<toVerify, verified, lastSent, lastSentVer, acking, confirmed, completed>>
link   == <<conn, reporting, readVer>>
server == <<stored, registered, serving, job>>
wire   == <<toServer, toWorker, broken>>
vars   == <<worker, link, saved, server, wire, faults>>

-----------------------------------------------------------------------------
\* A mutant of Replan: a worker that recorded any directory plans nothing again.
MutPlanOnce(dirs) == IF dirs = {} THEN Files ELSE {}

\* main, InitWorker: the cached claims (here: everything) are planned again
\* except for the directories recorded as completed.
Replan(dirs) == Files \ Covered(dirs)

Init ==
  /\ toVerify = Replan({})
  /\ verified = {} /\ lastSent = {} /\ lastSentVer = NoVersion /\ acking = {}
  /\ confirmed = {} /\ completed = {} /\ saved = {}
  /\ conn = NoConn
  /\ reporting = [c \in Conn |-> "none"]
  /\ readVer = [c \in Conn |-> NoVersion]
  /\ stored = {}
  /\ registered = NoConn
  /\ serving = [c \in Conn |-> "none"]
  /\ job = [c \in Conn |-> NoPing]
  /\ toServer = [c \in Conn |-> <<>>]
  /\ toWorker = [c \in Conn |-> <<>>]
  /\ broken = {}
  /\ faults = 0

Fault == faults < MaxFaults /\ faults' = faults + 1

\* The socket: WriteMessage blocks while the peer does not read.
HasRoom(queue) == Len(queue) < WireCap

-----------------------------------------------------------------------------
(* The worker.                                                             *)

\* Task.Verify ends with PushVerified.
PushVerified(f) ==
  /\ f \in toVerify
  /\ toVerify' = toVerify \ {f}
  /\ verified' = verified \cup {f}
  /\ UNCHANGED <<lastSent, lastSentVer, acking, confirmed, completed,
                 link, saved, server, wire, faults>>

\* Run: dial, start a report goroutine for the connection and read from it.
\* The goroutine of the connection before may still be running.
Dial(c) ==
  /\ conn = NoConn
  /\ reporting[c] = "none" /\ serving[c] = "none"
  /\ conn' = c
  /\ reporting' = [reporting EXCEPT ![c] = "waiting"]
  /\ serving' = [serving EXCEPT ![c] = "upgraded"]
  /\ toServer' = [toServer EXCEPT ![c] = <<>>]
  /\ toWorker' = [toWorker EXCEPT ![c] = <<>>]
  /\ broken' = broken \ {c}
  /\ UNCHANGED <<worker, readVer, saved, stored, registered, job, faults>>

Answered(c) == toServer[c] = <<>> /\ serving[c] = "reading" /\ toWorker[c] = <<>>

\* report: the ticker fires and *closed is false.
Tick(c) ==
  /\ reporting[c] = "waiting"
  /\ conn = c
  /\ Prompt => Answered(c) \/ c \in broken
  /\ reporting' = [reporting EXCEPT ![c] = "ticked"]
  /\ UNCHANGED <<worker, conn, readVer, saved, server, wire, faults>>

\* report: the ticker fires and *closed is true; the deferred Close runs.
TickClosed(c) ==
  /\ reporting[c] = "waiting"
  /\ conn # c
  /\ reporting' = [reporting EXCEPT ![c] = "none"]
  /\ broken' = broken \cup {c}
  /\ UNCHANGED <<worker, conn, readVer, saved, server, toServer, toWorker, faults>>

\* The numbers that something of this process may still compare or send.
InUse ==
  {lastSentVer} \cup {readVer[c] : c \in Conn}
  \cup (IF conn = NoConn THEN {}
        ELSE {job[conn].ver}
             \cup {toServer[conn][i].ver : i \in DOMAIN toServer[conn]}
             \cup {toWorker[conn][i] : i \in DOMAIN toWorker[conn]})

\* A mutant of Batch: the branch for an unanswered batch forgets to append.
MutForgetNew == IF lastSent = {} THEN verified ELSE lastSent

\* What is not answered yet goes out again together with what is new.
Batch == lastSent \cup verified

\* report, under vMu: number the next ping and collect what it carries.
Collect(c) ==
  /\ reporting[c] = "ticked"
  /\ Version \ InUse # {}
  /\ lastSentVer' = CHOOSE v \in Version \ InUse : TRUE
  /\ lastSent' = Batch
  /\ verified' = {}
  /\ reporting' = [reporting EXCEPT ![c] = "collected"]
  /\ UNCHANGED <<toVerify, acking, confirmed, completed,
                 conn, readVer, saved, server, wire, faults>>

\* report, no lock held any more: the composite literal reads lastSentVer first ...
ReadVersion(c) ==
  /\ reporting[c] = "collected"
  /\ readVer' = [readVer EXCEPT ![c] = lastSentVer]
  /\ reporting' = [reporting EXCEPT ![c] = "numbered"]
  /\ UNCHANGED <<worker, conn, saved, server, wire, faults>>

\* ... and lastSent after it.
NextPing(c) == [ver |-> readVer[c], batch |-> lastSent]

\* WriteMessage succeeds; on a connection that is lost already, for nothing.
Send(c) ==
  /\ reporting[c] = "numbered"
  /\ \/ /\ c \notin broken
        /\ HasRoom(toServer[c])
        /\ toServer' = [toServer EXCEPT ![c] = Append(@, NextPing(c))]
     \/ c \in broken /\ UNCHANGED toServer
  /\ reporting' = [reporting EXCEPT ![c] = "waiting"]
  /\ readVer' = [readVer EXCEPT ![c] = NoVersion]
  /\ UNCHANGED <<worker, conn, saved, server, toWorker, broken, faults>>

\* WriteMessage fails: the goroutine ends and closes the connection.
SendFails(c) ==
  /\ reporting[c] = "numbered"
  /\ c \in broken
  /\ reporting' = [reporting EXCEPT ![c] = "none"]
  /\ readVer' = [readVer EXCEPT ![c] = NoVersion]
  /\ UNCHANGED <<worker, conn, saved, server, wire, faults>>

\* A mutant of IsLatest: any answer counts.
MutAnyAnswer(ver) == ver \in Version

\* readLoop: an answer to anything but the latest ping is dropped.
IsLatest(ver) == ver = lastSentVer

\* readLoop, MessagePong: under vMu, take the batch the answer is for.
ReadPong ==
  /\ conn # NoConn
  /\ acking = {}
  /\ toWorker[conn] # <<>>
  /\ IF IsLatest(Head(toWorker[conn]))
     THEN acking' = lastSent /\ lastSent' = {}
     ELSE UNCHANGED <<acking, lastSent>>
  /\ toWorker' = [toWorker EXCEPT ![conn] = Tail(@)]
  /\ UNCHANGED <<toVerify, verified, lastSentVer, confirmed, completed,
                 link, saved, server, toServer, broken, faults>>

\* One turn of readLoop's loop over reportedTask: rename the file and run
\* confirmManagedFile.  Saving the completed directories may fail; the worker
\* goes on with what it has in memory.
Confirm(f) ==
  LET dirs == Pruned(completed, CompleteChain(f, confirmed \cup {f}, completed))
  IN  /\ f \in acking
      /\ acking' = acking \ {f}
      /\ confirmed' = confirmed \cup {f}
      /\ completed' = dirs
      /\ \/ saved' = (IF dirs = completed THEN saved ELSE dirs) /\ UNCHANGED faults
         \/ dirs # completed /\ UNCHANGED saved /\ Fault
      /\ UNCHANGED <<toVerify, verified, lastSent, lastSentVer, link, server, wire>>

\* readLoop returns with a read error, Run sets closed; answers not read are lost.
LoseConn ==
  /\ conn \in broken
  /\ acking = {}
  /\ conn' = NoConn
  /\ toWorker' = [toWorker EXCEPT ![conn] = <<>>]
  /\ UNCHANGED <<worker, reporting, readVer, saved, server, toServer, broken, faults>>

\* The worker process ends at any point and a new one starts.
WorkerRestart ==
  /\ Fault
  /\ toVerify' = Replan(saved)
  /\ verified' = {} /\ lastSent' = {} /\ lastSentVer' = NoVersion /\ acking' = {}
  /\ confirmed' = {} /\ completed' = saved
  /\ conn' = NoConn
  /\ reporting' = [c \in Conn |-> "none"]
  /\ readVer' = [c \in Conn |-> NoVersion]
  /\ toWorker' = [c \in Conn |-> <<>>]
  /\ broken' = Conn
  /\ UNCHANGED <<saved, server, toServer>>

-----------------------------------------------------------------------------
(* The server.                                                             *)

\* HandleWS, under Hub.mu: register and close the connection it replaces,
\* which need not be the older one.
Register(c) ==
  /\ serving[c] = "upgraded"
  /\ serving' = [serving EXCEPT ![c] = "reading"]
  /\ registered' = c
  /\ broken' = broken \cup ({registered} \ {NoConn})
  /\ UNCHANGED <<worker, link, saved, stored, job, toServer, toWorker, faults>>

\* readLoop: the next ping.
Receive(c) ==
  /\ serving[c] = "reading"
  /\ toServer[c] # <<>>
  /\ serving' = [serving EXCEPT ![c] = "handling"]
  /\ job' = [job EXCEPT ![c] = Head(toServer[c])]
  /\ toServer' = [toServer EXCEPT ![c] = Tail(@)]
  /\ UNCHANGED <<worker, link, saved, stored, registered, toWorker, broken, faults>>

\* handleFileReport: store (and apply, see ServerTree) one report.
Store(c, f) ==
  /\ serving[c] = "handling"
  /\ f \in job[c].batch
  /\ stored' = stored \cup {f}
  /\ job' = [job EXCEPT ![c].batch = @ \ {f}]
  /\ UNCHANGED <<worker, link, saved, registered, serving, wire, faults>>

\* UpsertItemStatusByKey returns an error, before or after the row was written;
\* handlePing returns without an answer.  A connection that was replaced has its
\* context cancelled and needs no other failure for that.
StoreFails(c, f) ==
  /\ serving[c] = "handling"
  /\ f \in job[c].batch
  /\ stored' \in {stored, stored \cup {f}}
  /\ serving' = [serving EXCEPT ![c] = "reading"]
  /\ job' = [job EXCEPT ![c] = NoPing]
  /\ IF registered = c THEN Fault ELSE UNCHANGED faults
  /\ UNCHANGED <<worker, link, saved, registered, wire>>

AllStored(c) == job[c].batch = {}

\* handlePing: answer with the ping's number.
Answer(c) ==
  /\ serving[c] = "handling"
  /\ AllStored(c)
  /\ \/ /\ c \notin broken
        /\ HasRoom(toWorker[c])
        /\ toWorker' = [toWorker EXCEPT ![c] = Append(@, job[c].ver)]
     \/ c \in broken /\ UNCHANGED toWorker
  /\ serving' = [serving EXCEPT ![c] = "reading"]
  /\ job' = [job EXCEPT ![c] = NoPing]
  /\ UNCHANGED <<worker, link, saved, stored, registered, toServer, broken, faults>>

\* A mutant of Unregistered: whichever connection is there is taken out.
MutAnyConn(c) == NoConn

\* HandleWS leaves Hub.conns only if it is still the one in there.
Unregistered(c) == IF registered = c THEN NoConn ELSE registered

\* readLoop returns with a read error; pings still on the wire are lost.
HangUp(c) ==
  /\ serving[c] = "reading"
  /\ c \in broken
  /\ serving' = [serving EXCEPT ![c] = "none"]
  /\ registered' = Unregistered(c)
  /\ toServer' = [toServer EXCEPT ![c] = <<>>]
  /\ UNCHANGED <<worker, link, saved, stored, job, toWorker, broken, faults>>

\* The server process ends at any point; the rows survive.
ServerRestart ==
  /\ Fault
  /\ registered' = NoConn
  /\ serving' = [c \in Conn |-> "none"]
  /\ job' = [c \in Conn |-> NoPing]
  /\ toServer' = [c \in Conn |-> <<>>]
  /\ broken' = Conn
  /\ UNCHANGED <<worker, link, saved, stored, toWorker>>

\* The network drops a connection.
Break(c) ==
  /\ Fault
  /\ c \notin broken
  /\ broken' = broken \cup {c}
  /\ UNCHANGED <<worker, link, saved, server, toServer, toWorker>>

-----------------------------------------------------------------------------
Reporting(c) == Tick(c) \/ TickClosed(c) \/ Collect(c) \/ ReadVersion(c) \/ Send(c) \/ SendFails(c)
Reading == ReadPong \/ LoseConn \/ \E f \in Files : Confirm(f)
Handling(c) ==
  \/ Register(c) \/ Receive(c) \/ Answer(c) \/ HangUp(c)
  \/ \E f \in Files : Store(c, f) \/ StoreFails(c, f)

Next ==
  \/ \E f \in Files : PushVerified(f)
  \/ \E c \in Conn : Dial(c) \/ Reporting(c) \/ Handling(c) \/ Break(c)
  \/ Reading
  \/ WorkerRestart
  \/ ServerRestart

Spec == Init /\ [][Next]_vars

\* Every goroutine that can run does: a verifier for each file, Run's dialling
\* and reading, the report goroutine and the HandleWS of each connection.
Fairness ==
  /\ \A f \in Files : WF_vars(PushVerified(f))
  /\ WF_vars(\E c \in Conn : Dial(c))
  /\ WF_vars(Reading)
  /\ \A c \in Conn : WF_vars(Reporting(c)) /\ WF_vars(Handling(c))

FairSpec == Spec /\ Fairness

-----------------------------------------------------------------------------
\* Every variable is of its type; the wire is bounded.
Typed ==
  /\ toVerify \subseteq Files /\ verified \subseteq Files /\ lastSent \subseteq Files
  /\ acking \subseteq Files /\ confirmed \subseteq Files /\ stored \subseteq Files
  /\ completed \subseteq Dirs /\ saved \subseteq Dirs
  /\ lastSentVer \in Number
  /\ conn \in Conn \cup {NoConn} /\ registered \in Conn \cup {NoConn}
  /\ reporting \in [Conn -> {"none", "waiting", "ticked", "collected", "numbered"}]
  /\ readVer \in [Conn -> Number]
  /\ serving \in [Conn -> {"none", "upgraded", "reading", "handling"}]
  /\ job \in [Conn -> Ping]
  /\ toServer \in [Conn -> Seq(Ping)]
  /\ toWorker \in [Conn -> Seq(Number)]
  /\ \A c \in Conn : Len(toServer[c]) <= WireCap /\ Len(toWorker[c]) <= WireCap
  /\ broken \subseteq Conn
  /\ faults \in 0 .. MaxFaults

\* HandleWS is in readLoop.
Served(c) == serving[c] \in {"reading", "handling"}

\* Hub.conns holds the connection that is served and not closed.
HubExact ==
  /\ registered # NoConn => Served(registered)
  /\ \A c \in Conn : Served(c) => c = registered \/ c \in broken

\* Types; and a connection that was replaced is closed, and its HandleWS, which may
\* end long after, leaves the newer one registered.
TypeOK == Typed /\ HubExact

\* The worker gives up a report (renames the file, never verifies it again, calls
\* its directory complete, in memory or on disk) only when the server has stored
\* it, although answers can be late, connections and both processes can fail, and
\* two report goroutines can overlap while a connection is replaced.
AckedStored ==
  /\ acking \cup confirmed \subseteq stored
  /\ Covered(completed) \cup Covered(saved) \subseteq stored

\* A file to report is always somewhere: queued, in a batch, or given up for good.
NoReportLost ==
  Files = toVerify \cup verified \cup lastSent \cup acking \cup confirmed
          \cup Covered(completed)

\* Keeping the list of completed directories short (pruning those below a
\* completed one) never drops a file from what the list covers, and a file is
\* covered in memory as soon as it is on disk.
CoverageKept ==
  [][Covered(saved) \subseteq Covered(saved') /\ Covered(saved') \subseteq Covered(completed')]_vars

\* Sending and answering, with everything that can fail, is the delivery that
\* AtLeastOnce describes: what is queued or in a batch is kept, and the completed
\* directories on disk record what is finished.
Delivery ==
  INSTANCE AtLeastOnce
    WITH Reports <- Files, kept <- toVerify \cup verified \cup lastSent,
         received <- stored, recorded <- Covered(saved)

DeliversAtLeastOnce == Delivery!Spec

\* Once the failures stop, every file is reported and the whole claim ends up
\* recorded as complete.
EventuallyComplete == <>[](Covered(completed) = Files)

=============================================================================
