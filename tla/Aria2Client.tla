----------------------------- MODULE Aria2Client -----------------------------
(***************************************************************************)
(* The JSON-RPC client of aria2 (internal/worker/aria2/aria2.go) and as    *)
(* much of aria2 itself as the client can tell: requests are answered in   *)
(* order, a finished download is announced once, and what is on the way    *)
(* when a connection breaks may be lost.  The actions are pieces: the      *)
(* goroutine that calls the client (downloader.run) joins its own half to  *)
(* them in WorkerPipeline.                                                 *)
(***************************************************************************)
EXTENDS TreeShape, Sequences

CONSTANTS Copies, \* downloads of one file that something may still refer to
          EvCap   \* capacity of Client.Events

ASSUME ClientAssumption ==
  /\ Copies \in Nat \ {0}
  /\ EvCap \in Nat \ {0}

NoFile == -1

\* The gid aria2 gives to a download: of which file, and which of its copies.  A
\* number nothing refers to any more is given again.
Gid == Files \X (1 .. Copies)
NoGid == <<NoFile, 0>>

NoRequest == [kind |-> "none", file |-> NoFile]
Tell      == [kind |-> "tell", file |-> NoFile]
Add(f)    == [kind |-> "add", file |-> f]
Request   == {Add(f) : f \in Files} \cup {Tell}

NoAnswer  == [kind |-> "none"]
Failure   == [kind |-> "failure"]
Duplicate == [kind |-> "duplicate"]
Answer    == {Duplicate} \cup [kind : {"gid"}, gid : Gid] \cup [kind : {"jobs"}, jobs : SUBSET Gid]
Event     == [kind : {"event"}, gid : Gid, success : BOOLEAN]
Idle      == [kind |-> "reading"]
Off       == [kind |-> "off"]

VARIABLES
  \* aria2
  up,       \* is there a process behind the port?
  jobs,     \* unfinished downloads
  disk,     \* per file, the names it exists under, and its control file
  \* the connection
  conn,     \* "open" or "broken"
  request,  \* the request under way to aria2
  wire,     \* answers and notifications under way to the client
  \* the client
  reader,   \* readLoop: off, reading, or holding an event Client.Events has no room for
  done,     \* is Client.done closed?
  calling,  \* the call whose channel is in Client.pending
  answer,   \* what is in that channel
  events,   \* Client.Events
  failures, \* dials that failed since the connection was lost
  \* the model
  lost      \* has a notification failed to arrive?

aria2  == <<up, jobs, disk>>
net    == <<conn, request, wire>>
client == <<reader, done, calling, answer, events, failures>>

\* NewClient: connected, readLoop running, whatever aria2 has kept from before.
ClientInit ==
  /\ up = TRUE
  /\ conn = "open" /\ request = NoRequest /\ wire = <<>>
  /\ reader = Idle /\ done = FALSE
  /\ calling = NoRequest /\ answer = NoAnswer
  /\ events = <<>> /\ failures = 0
  /\ lost = FALSE

-----------------------------------------------------------------------------
(* aria2.                                                                  *)

\* The gids a sequence of messages mentions.
Named(q) == {q[i].gid : i \in {i \in DOMAIN q : q[i].kind \in {"event", "gid"}}}

\* Gids nothing refers to any more; held are those the downloader still knows.
Fresh(held) ==
  Gid \ (jobs \cup held \cup Named(wire) \cup Named(events) \cup Named(<<reader, answer>>))

Reply(m) == wire' = IF conn = "open" THEN Append(wire, m) ELSE wire

\* addUri of a file that is being downloaded is an error; otherwise the download
\* starts, and its file and control file exist.
ServeAdd(held) ==
  /\ request.kind = "add"
  /\ LET f == request.file
         free == {n \in 1 .. Copies : <<f, n>> \in Fresh(held)}
     IN  IF \E g \in jobs : g[1] = f
         THEN Reply(Duplicate) /\ UNCHANGED <<jobs, disk>>
         ELSE \E n \in free :
                /\ \A m \in free : n <= m
                /\ jobs' = jobs \cup {<<f, n>>}
                /\ disk' = [disk EXCEPT ![f] = @ \cup {"downloading", "control"}]
                /\ Reply([kind |-> "gid", gid |-> <<f, n>>])

\* tellWaiting and tellActive, as one: whatever lives through both is in one of them.
ServeTell ==
  /\ request.kind = "tell"
  /\ Reply([kind |-> "jobs", jobs |-> jobs])
  /\ UNCHANGED <<jobs, disk>>

Serve(held) ==
  /\ up
  /\ ServeAdd(held) \/ ServeTell
  /\ request' = NoRequest
  /\ UNCHANGED <<up, conn, client, lost>>

\* A download ends, and leaves its control file if it failed.  Only the connections
\* that are open are told.
EndJob(g, success) ==
  /\ g \in jobs
  /\ jobs' = jobs \ {g}
  /\ Reply([kind |-> "event", gid |-> g, success |-> success])
  /\ disk' = IF success THEN [disk EXCEPT ![g[1]] = @ \ {"control"}] ELSE disk
  /\ lost' = (lost \/ conn # "open")
  /\ UNCHANGED <<up, conn, request, client>>

\* The connection breaks, before or after the request under way has arrived.
Break ==
  /\ conn = "open"
  /\ conn' = "broken"
  /\ request' \in {request, NoRequest}
  /\ UNCHANGED <<aria2, wire, client, lost>>

\* aria2 dies with its downloads; a file it was writing stays.
Exit ==
  /\ up
  /\ up' = FALSE
  /\ jobs' = {}
  /\ lost' = (lost \/ jobs # {})
  /\ conn' = "broken"
  /\ request' = NoRequest
  /\ UNCHANGED <<disk, wire, client>>

\* Somebody starts it again.
Start ==
  /\ ~up
  /\ up' = TRUE
  /\ UNCHANGED <<jobs, disk, net, client, lost>>

-----------------------------------------------------------------------------
(* readLoop.                                                               *)

\* An answer goes to the pending call.
ReadAnswer ==
  /\ reader = Idle
  /\ wire # <<>> /\ Head(wire) \in Answer
  /\ answer' = Head(wire)
  /\ wire' = Tail(wire)
  /\ UNCHANGED <<aria2, conn, request, reader, done, calling, events, failures, lost>>

\* handleNotification takes a notification ...
ReadEvent ==
  /\ reader = Idle
  /\ wire # <<>> /\ Head(wire) \in Event
  /\ reader' = Head(wire)
  /\ wire' = Tail(wire)
  /\ UNCHANGED <<aria2, conn, request, done, calling, answer, events, failures, lost>>

\* ... and blocks until Client.Events has room.
PutEvent ==
  /\ reader \in Event
  /\ Len(events) < EvCap
  /\ events' = Append(events, reader)
  /\ reader' = Idle
  /\ UNCHANGED <<aria2, net, done, calling, answer, failures, lost>>

\* ReadMessage fails: pending calls fail, done is closed, what was still under way
\* is lost.
ReadError ==
  /\ reader = Idle
  /\ conn = "broken"
  /\ reader' = Off
  /\ done' = TRUE
  /\ answer' = IF calling # NoRequest /\ answer = NoAnswer THEN Failure ELSE answer
  /\ wire' = <<>>
  /\ lost' = (lost \/ \E i \in DOMAIN wire : wire[i] \in Event)
  /\ UNCHANGED <<aria2, conn, request, calling, events, failures>>

Read == ReadAnswer \/ ReadEvent \/ PutEvent \/ ReadError

-----------------------------------------------------------------------------
(* The calling goroutine.                                                  *)

\* callRPCRaw up to its select; on a broken connection the write fails, or goes
\* nowhere and the call waits.
Call(r) ==
  /\ calling' = r
  /\ IF conn = "open"
     THEN request' = r /\ answer' = NoAnswer
     ELSE request' = NoRequest /\ answer' \in {NoAnswer, Failure}
  /\ UNCHANGED <<aria2, conn, wire, reader, done, events, failures, lost>>

\* A mutant of Results: the call waits for its answer only.
MutAnswerOnly == {answer} \ {NoAnswer}

\* The select of callRPCRaw: the answer, or that the connection is closed; with
\* both ready either is taken.
Results == ({answer} \ {NoAnswer}) \cup (IF done THEN {Failure} ELSE {})

Return ==
  /\ calling # NoRequest
  /\ calling' = NoRequest
  /\ answer' = NoAnswer
  /\ UNCHANGED <<aria2, net, reader, done, events, failures, lost>>

\* A mutant of ReaderGone: the cleanup does not wait for readLoop.
MutNoWait == TRUE

\* cleanupForReconnect receives from done, which only readLoop closes.
ReaderGone == done

\* cleanupForReconnect: wait, drop the pending calls, make a new done.
Cleanup ==
  /\ ReaderGone
  /\ done' = FALSE
  /\ conn' = "broken"
  /\ UNCHANGED <<aria2, request, wire, reader, calling, answer, events, failures, lost>>

\* connect succeeds, readLoop starts on the new connection, and the next call is r.
DialOk(r) ==
  /\ up
  /\ conn' = "open" /\ wire' = <<>>
  /\ reader' = Idle
  /\ failures' = 0
  /\ calling' = r /\ request' = r /\ answer' = NoAnswer
  /\ UNCHANGED <<aria2, done, events, lost>>

\* connect gives up after its 20 attempts; done stays open with nobody to close it.
DialFail ==
  /\ ~up
  /\ failures' = failures + 1
  /\ UNCHANGED <<aria2, net, reader, done, calling, answer, events, lost>>

=============================================================================
