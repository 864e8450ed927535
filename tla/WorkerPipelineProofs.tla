------------------------- MODULE WorkerPipelineProofs -------------------------
(***************************************************************************)
(* TLAPS proofs about WorkerPipeline, for trees, claims, channels and      *)
(* downloads of any size and any number of failures: types, the protocol   *)
(* of the client's calls, the queue and the maps of the downloader, who    *)
(* owns a busy file, what is on the disk, and that nobody waits in a       *)
(* circle.                                                                 *)
(***************************************************************************)
EXTENDS WorkerPipeline, TreeProofs, SequenceTheorems

-----------------------------------------------------------------------------
(* Who writes what.                                                        *)

LEMMA WhoPlans ==
  ASSUME [Next]_vars
  PROVE  \/ \E list \in Lists : Replace(list)
         \/ Planning
         \/ UNCHANGED <<claims, planner, replaces>>
<1> USE DEF planner, count
<1>1. Downloading => UNCHANGED <<claims, planner, replaces>>
  BY DEF Downloading, Run, Adopt, TakeTask, HandleTask, Added, Match, TakeEvent, SubmitVerify,
         Disconnect, Reconnect, FailToReconnect
<1>2. ASSUME NEW f \in Files, NEW name \in Names,
             Verify(f, name) \/ VerifyFails(f, name) \/ Confirm(f, name)
      PROVE  UNCHANGED <<claims, planner, replaces>>
  BY <1>2 DEF Verify, VerifyFails, Confirm
<1>3. UNCHANGED vars => UNCHANGED <<claims, planner, replaces>>
  BY DEF vars
<1> QED
  BY <1>1, <1>2, <1>3 DEF Next, Reads, Serves, Finishes, Fails, Aria2

LEMMA WhoQueues ==
  ASSUME [Next]_vars
  PROVE  \/ \E list \in Lists : Replace(list)
         \/ Submit \/ SendTask \/ TakeTask \/ HandleTask
         \/ UNCHANGED <<taskCh, pending>>
BY DEF Next, vars, count, outcome, flags, maps, planner, loop, Planning, Check, Look, Downloading,
       Run, Adopt, Added, Match, TakeEvent, SubmitVerify, Disconnect, Reconnect, FailToReconnect,
       Verify, VerifyFails, Confirm, Reads, Serves, Finishes, Fails, Aria2

LEMMA WhoMaps ==
  ASSUME [Next]_vars
  PROVE  \/ Adopt \/ Added \/ Match \/ TakeEvent
         \/ UNCHANGED <<gidMap, pathGID>>
BY DEF Next, vars, count, outcome, flags, maps, planner, loop, Replace, Planning, Check, Look,
       Submit, SendTask, Downloading, Run, TakeTask, HandleTask, SubmitVerify, Disconnect, Reconnect,
       FailToReconnect, Verify, VerifyFails, Confirm, Reads, Serves, Finishes, Fails, Aria2

LEMMA WhoFlags ==
  ASSUME [Next]_vars
  PROVE  \/ \E list \in Lists : Replace(list)
         \/ Look \/ Submit
         \/ Adopt \/ Added \/ Match \/ TakeEvent
         \/ \E f \in Files, name \in Names : Confirm(f, name)
         \/ UNCHANGED qDownload
BY DEF Next, vars, count, outcome, flags, maps, planner, loop, Planning, Check, SendTask,
       Downloading, Run, TakeTask, HandleTask, SubmitVerify, Disconnect, Reconnect,
       FailToReconnect, Verify, VerifyFails, Reads, Serves, Finishes, Fails, Aria2

LEMMA WhoVerifies ==
  ASSUME [Next]_vars
  PROVE  \/ Look \/ SubmitVerify
         \/ \E f \in Files, name \in Names :
              Verify(f, name) \/ VerifyFails(f, name) \/ Confirm(f, name)
         \/ UNCHANGED <<qVerify, outcome>>
BY DEF Next, vars, count, outcome, flags, maps, planner, loop, Replace, Planning, Check, Submit,
       SendTask, Downloading, Run, Adopt, TakeTask, HandleTask, Added, Match, TakeEvent, Disconnect,
       Reconnect, FailToReconnect, Reads, Serves, Finishes, Fails, Aria2

LEMMA WhoGivesUp ==
  ASSUME [Next]_vars
  PROVE  \/ \E list \in Lists : Replace(list)
         \/ Added \/ Match \/ TakeEvent
         \/ \E f \in Files, name \in Names : VerifyFails(f, name)
         \/ UNCHANGED dropped
BY DEF Next, vars, count, outcome, flags, maps, planner, loop, Planning, Check, Look, Submit,
       SendTask, Downloading, Run, Adopt, TakeTask, HandleTask, SubmitVerify, Disconnect,
       Reconnect, FailToReconnect, Verify, Confirm, Reads, Serves, Finishes, Fails, Aria2

LEMMA WhoLoops ==
  ASSUME [Next]_vars
  PROVE  Downloading \/ UNCHANGED loop
BY DEF Next, vars, count, outcome, flags, maps, planner, loop, Replace, Planning, Check, Look,
       Submit, SendTask, Verify, VerifyFails, Confirm, Reads, Serves, Finishes, Fails, Aria2

LEMMA WhoTouchesFiles ==
  ASSUME [Next]_vars
  PROVE  \/ \E f \in Files, name \in Names : Verify(f, name) \/ Confirm(f, name)
         \/ Serve(Held)
         \/ \E g \in Gid : EndJob(g, TRUE) \/ EndJob(g, FALSE)
         \/ UNCHANGED disk
BY DEF Next, vars, count, outcome, flags, maps, planner, loop, Replace, Planning, Check, Look,
       Submit, SendTask, Downloading, Run, Adopt, TakeTask, HandleTask, Added, Match, TakeEvent,
       SubmitVerify, Disconnect, Reconnect, FailToReconnect, VerifyFails, Reads, Serves, Finishes, Fails, Aria2,
       Call, Return, Cleanup, DialOk, DialFail, Read, ReadAnswer, ReadEvent, PutEvent, ReadError,
       Break, Exit, Start, aria2, aria2Client

LEMMA WhoTalks ==
  ASSUME [Next]_vars
  PROVE  \/ Downloading
         \/ Read \/ Serve(Held)
         \/ \E g \in Gid : EndJob(g, TRUE) \/ EndJob(g, FALSE)
         \/ Break \/ Exit \/ Start
         \/ UNCHANGED <<up, jobs, net, client, lost>>
<1> USE DEF aria2, aria2Client
<1>1. ASSUME NEW list \in Lists, Replace(list) PROVE UNCHANGED <<up, jobs, net, client, lost>>
  BY <1>1 DEF Replace
<1>2. Planning => UNCHANGED <<up, jobs, net, client, lost>>
  BY DEF Planning, Check, Look, Submit, SendTask
<1>3. ASSUME NEW f \in Files, NEW name \in Names,
             Verify(f, name) \/ VerifyFails(f, name) \/ Confirm(f, name)
      PROVE  UNCHANGED <<up, jobs, net, client, lost>>
  BY <1>3 DEF Verify, VerifyFails, Confirm
<1>4. UNCHANGED vars => UNCHANGED <<up, jobs, net, client, lost>>
  BY DEF vars
<1> QED
  BY <1>1, <1>2, <1>3, <1>4 DEF Next, Reads, Serves, Finishes, Fails, Aria2

-----------------------------------------------------------------------------
(* Types.                                                                  *)

\* The downloader holds a file from its receipt until aria2 has it, and while it takes it
\* out of aria2.
HandOK == hand # NoFile <=> step \in {"taken", "adding", "matching", "ended"}

TypeInv == TypeOK /\ HandOK

LEMMA Markers ==
  /\ NoFile \notin Files /\ NoGid \notin Gid /\ NoKey \notin Key
  /\ \A g \in Gid : g[1] \in Files
  /\ \A k \in Key : k[1] \in Files
  /\ \A f \in Files : <<f, "planned">> \in Key /\ AdoptedKey(f) \in Key
<1>1. NoFile \notin Files
  BY DirNumbers DEF NoFile
<1> QED
  BY <1>1 DEF NoGid, Gid, NoKey, Key, AdoptedKey

LEMMA VisitingIs ==
  ASSUME todo \subseteq Files, todo # {}
  PROVE  Visiting \in todo
<1>1. todo \subseteq Nat
  BY DirNumbers
<1>2. \E f \in todo : \A g \in todo : f <= g
  BY <1>1, LeastExists
<1> QED
  BY <1>2 DEF Visiting

LEMMA PlanType == \A list : Plan(list) \subseteq Files
BY DEF Plan, Walked

LEMMA TypeStart == Init => TypeInv
<1> SUFFICES ASSUME Init PROVE TypeInv
  OBVIOUS
<1> USE PipelineAssumption, ClientAssumption DEF Init
<1>1. /\ starting \in BOOLEAN /\ up \in BOOLEAN /\ done \in BOOLEAN /\ lost \in BOOLEAN
  BY DEF ClientInit
<1>2. /\ claims \in List /\ completed \subseteq Dirs
      /\ confirmed \subseteq Files /\ qDownload \subseteq Files /\ qVerify \subseteq Files
      /\ pending \subseteq Files /\ dropped \subseteq Files
      /\ reported \subseteq Files \X Names
      /\ step \in Steps /\ hand \in Files \cup {NoFile}
  BY DEF Steps
<1>3. /\ todo \subseteq Files /\ (plan = "idle" <=> todo = {})
      /\ plan \in {"idle", "checking", "looking", "submitting", "sending"}
  BY PlanType
<1>4. /\ taskCh \in Seq(Files) /\ Len(taskCh) <= TaskCap
      /\ replaces \in 0 .. MaxReplaces /\ mishaps \in 0 .. MaxMishaps
  OBVIOUS
<1>5. /\ gidMap \in [Gid -> Key \cup {NoKey}] /\ pathGID \in [Key -> Gid \cup {NoGid}]
      /\ toVerify \in [Files \X Names -> Nat]
  OBVIOUS
<1>6. jobs \subseteq Gid /\ disk \in [Files -> SUBSET OnDisk]
  BY DEF Gid, OnDisk, Names
<1>7. /\ conn \in {"open", "broken"}
      /\ request \in Request \cup {NoRequest} /\ calling \in Request \cup {NoRequest}
      /\ wire \in Seq(Answer \cup Event) /\ events \in Seq(Event) /\ Len(events) <= EvCap
      /\ reader \in Event \cup {Idle, Off} /\ answer \in Answer \cup {NoAnswer, Failure}
  BY DEF ClientInit
<1>8. HandOK
  BY DEF HandOK
<1> QED
  BY <1>1, <1>2, <1>3, <1>4, <1>5, <1>6, <1>7, <1>8 DEF TypeInv, TypeOK

\* A walk that moves on to the next file.
LEMMA VisitedType ==
  ASSUME todo \subseteq Files, Visited
  PROVE  /\ todo' \subseteq Files /\ plan' \in {"idle", "checking"}
         /\ plan' = "idle" <=> todo' = {}
         /\ starting' \in BOOLEAN
BY DEF Visited

LEMMA PlanStep ==
  ASSUME TypeInv, [Next]_vars
  PROVE  /\ starting' \in BOOLEAN /\ claims' \in List
         /\ todo' \subseteq Files /\ (plan' = "idle" <=> todo' = {})
         /\ plan' \in {"idle", "checking", "looking", "submitting", "sending"}
         /\ replaces' \in 0 .. MaxReplaces
<1>0. /\ starting \in BOOLEAN /\ claims \in List /\ todo \subseteq Files
      /\ plan = "idle" <=> todo = {}
      /\ plan \in {"idle", "checking", "looking", "submitting", "sending"}
      /\ replaces \in 0 .. MaxReplaces
  BY DEF TypeInv, TypeOK
<1>1. ASSUME NEW list \in Lists, Replace(list) PROVE
         /\ starting' \in BOOLEAN /\ claims' \in List
         /\ todo' \subseteq Files /\ (plan' = "idle" <=> todo' = {})
         /\ plan' \in {"idle", "checking", "looking", "submitting", "sending"}
         /\ replaces' \in 0 .. MaxReplaces
  <2>1. list \in List /\ Plan(list) \subseteq Files
    BY PipelineAssumption, PlanType
  <2>2. replaces' \in 0 .. MaxReplaces
    BY <1>0, <1>1, PipelineAssumption DEF Replace
  <2>3. starting' \in BOOLEAN
    BY <1>0, <1>1 DEF Replace
  <2> QED
    BY <1>0, <1>1, <2>1, <2>2, <2>3 DEF Replace
<1>2. CASE Planning
  <2>1. UNCHANGED <<claims, replaces>>
    BY <1>2 DEF Planning, Check, Look, Submit, SendTask, count
  <2>2. \/ Visited
        \/ /\ plan' \in {"looking", "submitting", "sending"} /\ plan # "idle"
           /\ UNCHANGED <<todo, starting>>
    BY <1>2 DEF Planning, Check, Look, Submit, SendTask
  <2>3. CASE Visited
    BY <1>0, <2>1, <2>3, VisitedType
  <2>4. CASE plan' \in {"looking", "submitting", "sending"} /\ plan # "idle" /\ UNCHANGED <<todo, starting>>
    <3>1. starting' \in BOOLEAN
      BY <1>0, <2>4
    <3> QED
      BY <1>0, <2>1, <2>4, <3>1
  <2> QED
    BY <2>2, <2>3, <2>4
<1>3. CASE UNCHANGED <<claims, planner, replaces>>
  <2>1. starting' \in BOOLEAN
    BY <1>0, <1>3 DEF planner
  <2> QED
    BY <1>0, <1>3, <2>1 DEF planner
<1> QED
  BY <1>1, <1>2, <1>3, WhoPlans

LEMMA QueueStep ==
  ASSUME TypeInv, [Next]_vars
  PROVE  taskCh' \in Seq(Files) /\ Len(taskCh') <= TaskCap /\ pending' \subseteq Files
<1>0. /\ taskCh \in Seq(Files) /\ Len(taskCh) <= TaskCap /\ pending \subseteq Files
      /\ plan # "idle" => Visiting \in Files
  BY VisitingIs DEF TypeInv, TypeOK
<1>1. Len(taskCh) \in Nat /\ TaskCap \in Nat
  BY <1>0, PipelineAssumption
<1>2. ASSUME NEW list \in Lists, Replace(list)
      PROVE  taskCh' \in Seq(Files) /\ Len(taskCh') <= TaskCap /\ pending' \subseteq Files
  BY <1>0, <1>2, PipelineAssumption DEF Replace, Left, Drained
<1>3. CASE Submit
  BY <1>0, <1>3 DEF Submit
<1>4. CASE SendTask
  BY <1>0, <1>1, <1>4 DEF SendTask
<1>5. CASE TakeTask
  <2>1. Tail(taskCh) \in Seq(Files) /\ Len(Tail(taskCh)) = Len(taskCh) - 1
    BY <1>0, <1>5, HeadTailProperties DEF TakeTask
  <2> QED
    BY <1>0, <1>1, <1>5, <2>1 DEF TakeTask
<1>6. CASE HandleTask
  BY <1>0, <1>6 DEF HandleTask
<1>7. CASE UNCHANGED <<taskCh, pending>>
  BY <1>0, <1>7
<1> QED
  BY <1>2, <1>3, <1>4, <1>5, <1>6, <1>7, WhoQueues

\* registerActive: what it enters for some downloads, and that it changes nothing
\* that is there.
LEMMA Registers ==
  ASSUME gidMap \in [Gid -> Key \cup {NoKey}], pathGID \in [Key -> Gid \cup {NoGid}],
         qDownload \subseteq Files,
         NEW new, DOMAIN new \subseteq Gid, \A g \in DOMAIN new : new[g] \in Key,
         Register(new)
  PROVE  /\ gidMap' \in [Gid -> Key \cup {NoKey}] /\ pathGID' \in [Key -> Gid \cup {NoGid}]
         /\ qDownload \subseteq qDownload' /\ qDownload' \subseteq Files
         /\ \A k \in Key : pathGID[k] # NoGid => pathGID'[k] = pathGID[k]
         /\ \A g \in DOMAIN new : pathGID'[new[g]] # NoGid
         /\ \A k \in Key : pathGID'[k] # pathGID[k] =>
              /\ pathGID[k] = NoGid /\ pathGID'[k] \in DOMAIN new
              /\ new[pathGID'[k]] = k /\ gidMap'[pathGID'[k]] = k
         /\ \A g \in Gid : gidMap'[g] # gidMap[g] =>
              /\ g \in DOMAIN new /\ gidMap'[g] = new[g]
              /\ pathGID'[new[g]] = g /\ pathGID[new[g]] = NoGid
         /\ \A f \in qDownload' \ qDownload : \E k \in Key : k[1] = f /\ pathGID'[k] # NoGid
<1> DEFINE keys == {new[g] : g \in DOMAIN new} \ {k \in Key : pathGID[k] # NoGid}
           gidOf == [k \in keys |-> CHOOSE g \in DOMAIN new : new[g] = k]
<1>0. /\ gidMap' = [g \in Gid |-> IF \E k \in keys : gidOf[k] = g THEN new[g] ELSE gidMap[g]]
      /\ pathGID' = [k \in Key |-> IF k \in keys THEN gidOf[k] ELSE pathGID[k]]
      /\ qDownload' = qDownload \cup {k[1] : k \in keys}
  BY DEF Register
<1>1. \A k \in keys : gidOf[k] \in DOMAIN new /\ new[gidOf[k]] = k
  OBVIOUS
<1>2. /\ keys \subseteq Key /\ \A k \in keys : pathGID[k] = NoGid
      /\ \A g \in DOMAIN new : pathGID[new[g]] = NoGid => new[g] \in keys
  OBVIOUS
<1> HIDE DEF gidOf, keys
<1>3. \A k \in keys : gidOf[k] \in Gid /\ gidOf[k] # NoGid
  BY <1>1, Markers
<1>4. gidMap' \in [Gid -> Key \cup {NoKey}] /\ pathGID' \in [Key -> Gid \cup {NoGid}]
  BY <1>0, <1>1, <1>2, <1>3
<1>5. qDownload \subseteq qDownload' /\ qDownload' \subseteq Files
  BY <1>0, <1>2, Markers
<1>6. \A k \in Key : pathGID'[k] = IF k \in keys THEN gidOf[k] ELSE pathGID[k]
  BY <1>0
<1>7. \A g \in Gid : gidMap'[g] = IF \E k \in keys : gidOf[k] = g THEN new[g] ELSE gidMap[g]
  BY <1>0
<1>8. \A k \in Key : pathGID[k] # NoGid => pathGID'[k] = pathGID[k]
  BY <1>2, <1>6
<1>9. \A g \in DOMAIN new : pathGID'[new[g]] # NoGid
  BY <1>2, <1>3, <1>6, <1>8
<1>10. ASSUME NEW k \in Key, pathGID'[k] # pathGID[k]
       PROVE  /\ pathGID[k] = NoGid /\ pathGID'[k] \in DOMAIN new
              /\ new[pathGID'[k]] = k /\ gidMap'[pathGID'[k]] = k
  <2>1. k \in keys /\ pathGID'[k] = gidOf[k]
    BY <1>6, <1>10
  <2>2. gidMap'[gidOf[k]] = new[gidOf[k]]
    BY <1>3, <1>7, <2>1
  <2> QED
    BY <1>1, <1>2, <2>1, <2>2
<1>11. ASSUME NEW g \in Gid, gidMap'[g] # gidMap[g]
       PROVE  /\ g \in DOMAIN new /\ gidMap'[g] = new[g]
              /\ pathGID'[new[g]] = g /\ pathGID[new[g]] = NoGid
  <2>1. PICK k \in keys : gidOf[k] = g
    BY <1>7, <1>11
  <2> QED
    BY <1>1, <1>2, <1>6, <1>7, <2>1
<1>12. \A f \in qDownload' \ qDownload : \E k \in Key : k[1] = f /\ pathGID'[k] # NoGid
  BY <1>0, <1>2, <1>3, <1>6
<1> QED
  BY <1>4, <1>5, <1>8, <1>9, <1>10, <1>11, <1>12

\* A result is the answer of the call, or a failure.
LEMMA ResultIs ==
  ASSUME TypeOK, NEW r \in Results
  PROVE  r \in Answer \cup {Failure} /\ (r \in Answer => r = answer)
<1>1. Failure \notin Answer /\ NoAnswer \notin Answer
  BY DEF Failure, Answer, Duplicate, NoAnswer
<1> QED
  BY <1>1 DEF Results, TypeOK

\* The kinds of results.
LEMMA ResultKinds ==
  ASSUME NEW r \in Answer \cup {Failure}
  PROVE  /\ r.kind = "gid" => r \in Answer /\ r.gid \in Gid
         /\ r.kind = "jobs" => r \in Answer /\ r.jobs \subseteq Gid
         /\ Duplicate \in Answer
BY DEF Answer, Duplicate, Failure

\* What the downloader enters into its maps, if anything: downloads adopted at the
\* start, or those of the file it holds.
LEMMA WhatIsRegistered ==
  ASSUME TypeInv, Adopt \/ Added \/ Match
  PROVE  \/ /\ UNCHANGED <<gidMap, pathGID>>
            /\ qDownload' = qDownload \/ (qDownload' = qDownload \ {hand} /\ dropped' = dropped \cup {hand})
         \/ \E S \in SUBSET Gid : Adopt /\ Register([g \in S |-> AdoptedKey(g[1])])
         \/ \E S \in SUBSET Gid :
              /\ hand \in Files /\ S # {} /\ Register([g \in S |-> <<hand, "planned">>])
              /\ \A g \in S : \/ g[1] = hand
                              \/ Added /\ answer.kind = "gid" /\ answer.gid = g /\ answer \in Answer
<1> USE DEF TypeInv
<1>1. CASE Adopt
  <2>1. PICK r \in Results :
          IF r.kind = "jobs"
          THEN Register([g \in r.jobs |-> AdoptedKey(g[1])])
          ELSE UNCHANGED <<gidMap, pathGID, qDownload>>
    BY <1>1 DEF Adopt
  <2>2. r \in Answer \cup {Failure}
    BY ResultIs
  <2> QED
    BY <1>1, <2>1, <2>2, ResultKinds
<1>2. CASE Added
  <2>1. hand \in Files
    BY <1>2 DEF Added, HandOK, TypeOK
  <2>2. PICK r \in Results :
          \/ /\ r.kind = "gid"
             /\ Register([g \in {r.gid} |-> <<hand, "planned">>])
          \/ UNCHANGED <<gidMap, pathGID, qDownload>>
          \/ r = Failure /\ GiveUp
    BY <1>2 DEF Added
  <2>3. r \in Answer \cup {Failure} /\ (r \in Answer => r = answer)
    BY ResultIs
  <2>4. CASE r.kind = "gid" /\ Register([g \in {r.gid} |-> <<hand, "planned">>])
    <3>1. r \in Answer /\ r = answer /\ {r.gid} \in SUBSET Gid
      BY <2>3, <2>4, ResultKinds
    <3> QED
      BY <1>2, <2>1, <2>4, <3>1
  <2>5. CASE GiveUp
    BY <2>5 DEF GiveUp, Unflagged
  <2> QED
    BY <2>2, <2>4, <2>5
<1>3. CASE Match
  <2>1. hand \in Files
    BY <1>3 DEF Match, HandOK, TypeOK
  <2>2. PICK r \in Results :
          \/ /\ r.kind = "jobs" /\ \E g \in r.jobs : g[1] = hand
             /\ Register([g \in {g \in r.jobs : g[1] = hand} |-> <<hand, "planned">>])
          \/ GiveUp
    BY <1>3 DEF Match
  <2>3. r \in Answer \cup {Failure}
    BY ResultIs
  <2>4. CASE /\ r.kind = "jobs" /\ \E g \in r.jobs : g[1] = hand
             /\ Register([g \in {g \in r.jobs : g[1] = hand} |-> <<hand, "planned">>])
    <3> DEFINE S == {g \in r.jobs : g[1] = hand}
    <3>1. S \in SUBSET Gid /\ S # {} /\ \A g \in S : g[1] = hand
      BY <2>3, <2>4, ResultKinds
    <3>2. Register([g \in S |-> <<hand, "planned">>])
      BY <2>4
    <3> HIDE DEF S
    <3> QED
      BY <2>1, <3>1, <3>2
  <2>5. CASE GiveUp
    BY <2>5 DEF GiveUp, Unflagged
  <2> QED
    BY <2>2, <2>4, <2>5
<1> QED
  BY <1>1, <1>2, <1>3

\* The same, as a function from downloads to keys.
LEMMA Entries ==
  ASSUME TypeInv, Adopt \/ Added \/ Match
  PROVE  \/ /\ UNCHANGED <<gidMap, pathGID>>
            /\ qDownload' = qDownload \/ (qDownload' = qDownload \ {hand} /\ dropped' = dropped \cup {hand})
         \/ \E new :
              /\ Register(new) /\ DOMAIN new \subseteq Gid
              /\ \A g \in DOMAIN new : new[g] \in Key
              /\ \/ Adopt /\ \A g \in DOMAIN new : new[g] = AdoptedKey(g[1])
                 \/ /\ hand \in Files /\ DOMAIN new # {}
                    /\ \A g \in DOMAIN new :
                         /\ new[g] = <<hand, "planned">>
                         /\ \/ g[1] = hand
                            \/ Added /\ answer.kind = "gid" /\ answer.gid = g /\ answer \in Answer
<1>1. ASSUME NEW S \in SUBSET Gid, Adopt, Register([g \in S |-> AdoptedKey(g[1])])
      PROVE  \E new :
               /\ Register(new) /\ DOMAIN new \subseteq Gid
               /\ \A g \in DOMAIN new : new[g] \in Key
               /\ \A g \in DOMAIN new : new[g] = AdoptedKey(g[1])
  <2> DEFINE new == [g \in S |-> AdoptedKey(g[1])]
  <2>1. /\ DOMAIN new \subseteq Gid
        /\ \A g \in DOMAIN new : new[g] \in Key /\ new[g] = AdoptedKey(g[1])
    BY Markers
  <2>2. Register(new)
    BY <1>1
  <2> HIDE DEF new
  <2> QED
    BY <2>1, <2>2
<1>2. ASSUME NEW S \in SUBSET Gid, hand \in Files, S # {}, Register([g \in S |-> <<hand, "planned">>]),
             \A g \in S : \/ g[1] = hand
                          \/ Added /\ answer.kind = "gid" /\ answer.gid = g /\ answer \in Answer
      PROVE  \E new :
               /\ Register(new) /\ DOMAIN new \subseteq Gid
               /\ \A g \in DOMAIN new : new[g] \in Key
               /\ DOMAIN new # {}
               /\ \A g \in DOMAIN new :
                    /\ new[g] = <<hand, "planned">>
                    /\ \/ g[1] = hand
                       \/ Added /\ answer.kind = "gid" /\ answer.gid = g /\ answer \in Answer
  <2> DEFINE new == [g \in S |-> <<hand, "planned">>]
  <2>1. /\ DOMAIN new = S
        /\ \A g \in DOMAIN new : new[g] \in Key /\ new[g] = <<hand, "planned">>
    BY <1>2, Markers
  <2>2. Register(new)
    BY <1>2
  <2> HIDE DEF new
  <2> QED
    BY <1>2, <2>1, <2>2
<1> QED
  BY <1>1, <1>2, WhatIsRegistered

LEMMA MapStep ==
  ASSUME TypeInv, [Next]_vars
  PROVE  /\ gidMap' \in [Gid -> Key \cup {NoKey}]
         /\ pathGID' \in [Key -> Gid \cup {NoGid}]
<1>0. /\ gidMap \in [Gid -> Key \cup {NoKey}] /\ pathGID \in [Key -> Gid \cup {NoGid}]
      /\ qDownload \subseteq Files
  BY DEF TypeInv, TypeOK
<1>1. CASE Adopt \/ Added \/ Match
  BY <1>0, <1>1, Entries, Registers
<1>2. CASE TakeEvent
  BY <1>0, <1>2 DEF TakeEvent, Unmapped
<1>3. CASE UNCHANGED <<gidMap, pathGID>>
  BY <1>0, <1>3
<1> QED
  BY <1>1, <1>2, <1>3, WhoMaps

LEMMA FlagStep ==
  ASSUME TypeInv, [Next]_vars
  PROVE  qDownload' \subseteq Files /\ dropped' \subseteq Files
<1>0. /\ gidMap \in [Gid -> Key \cup {NoKey}] /\ pathGID \in [Key -> Gid \cup {NoGid}]
      /\ qDownload \subseteq Files /\ dropped \subseteq Files
      /\ plan # "idle" => Visiting \in Files
  BY VisitingIs DEF TypeInv, TypeOK
<1>1. qDownload' \subseteq Files
  <2>1. CASE Adopt \/ Added \/ Match
    BY <1>0, <2>1, Entries, Registers
  <2>2. CASE Look \/ Submit
    BY <1>0, <2>2 DEF Look, Submit
  <2>3. ASSUME NEW f \in Files, NEW name \in Names, Confirm(f, name) PROVE qDownload' \subseteq Files
    BY <1>0, <2>3 DEF Confirm
  <2>4. ASSUME NEW list \in Lists, Replace(list) PROVE qDownload' \subseteq Files
    BY <1>0, <2>4 DEF Replace, Drained
  <2>5. CASE TakeEvent
    BY <1>0, <2>5 DEF TakeEvent
  <2> QED
    BY <1>0, <2>1, <2>2, <2>3, <2>4, <2>5, WhoFlags
<1>2. dropped' \subseteq Files
  <2>1. CASE Added \/ Match
    <3>1. hand \in Files
      BY <2>1 DEF Added, Match, TypeInv, TypeOK, HandOK
    <3> QED
      BY <1>0, <2>1, <3>1 DEF Added, Match, GiveUp
  <2>2. CASE TakeEvent
    <3>1. Head(events).gid \in Gid
      <4>1. events \in Seq(Event) /\ events # <<>>
        BY <2>2 DEF TakeEvent, TypeInv, TypeOK
      <4>2. Head(events) \in Event
        BY <4>1, HeadTailProperties
      <4> QED
        BY <4>2 DEF Event
    <3> QED
      BY <1>0, <2>2, <3>1, Markers DEF TakeEvent
  <2>3. ASSUME NEW f \in Files, NEW name \in Names, VerifyFails(f, name) PROVE dropped' \subseteq Files
    BY <1>0, <2>3 DEF VerifyFails
  <2>4. ASSUME NEW list \in Lists, Replace(list) PROVE dropped' \subseteq Files
    BY <1>0, <2>4 DEF Replace
  <2> QED
    BY <1>0, <2>1, <2>2, <2>3, <2>4, WhoGivesUp
<1> QED
  BY <1>1, <1>2

LEMMA VerifyStep ==
  ASSUME TypeInv, [Next]_vars
  PROVE  /\ completed' \subseteq Dirs /\ confirmed' \subseteq Files /\ qVerify' \subseteq Files
         /\ toVerify' \in [Files \X Names -> Nat]
         /\ reported' \subseteq Files \X Names
<1>0. /\ completed \subseteq Dirs /\ confirmed \subseteq Files /\ qVerify \subseteq Files
      /\ toVerify \in [Files \X Names -> Nat]
      /\ reported \subseteq Files \X Names
      /\ plan # "idle" => Visiting \in Files
  BY VisitingIs DEF TypeInv, TypeOK
<1> DEFINE Typed == /\ completed' \subseteq Dirs /\ confirmed' \subseteq Files /\ qVerify' \subseteq Files
                    /\ toVerify' \in [Files \X Names -> Nat]
                    /\ reported' \subseteq Files \X Names
<1>1. CASE Look
  BY <1>0, <1>1 DEF Look, Names
<1>2. CASE SubmitVerify
  <2>1. hand \in Files
    BY <1>2 DEF SubmitVerify, TypeInv, TypeOK, HandOK
  <2> QED
    BY <1>0, <1>2, <2>1 DEF SubmitVerify, Names
<1>3. ASSUME NEW f \in Files, NEW name \in Names, Verify(f, name) \/ VerifyFails(f, name) PROVE Typed
  <2>1. toVerify[<<f, name>>] \in Nat /\ toVerify[<<f, name>>] > 0
    BY <1>0, <1>3 DEF Verify, VerifyFails
  <2>2. toVerify' \in [Files \X Names -> Nat]
    BY <1>0, <1>3, <2>1 DEF Verify, VerifyFails
  <2>3. ReportedName(name) \in Names
    BY DEF ReportedName, Names
  <2>4. reported' \subseteq Files \X Names
    BY <1>0, <1>3, <2>3 DEF Verify, VerifyFails
  <2>5. qVerify' \subseteq qVerify /\ UNCHANGED <<completed, confirmed>>
    BY <1>3 DEF Verify, VerifyFails, flags
  <2> QED
    BY <1>0, <2>2, <2>4, <2>5
<1>4. ASSUME NEW f \in Files, NEW name \in Names, Confirm(f, name) PROVE Typed
  <2>1. completed' \subseteq Dirs
    <3>1. CompleteChain(f, confirmed', completed) \subseteq Dirs
      BY ChainCovers
    <3> QED
      BY <1>0, <1>4, <3>1, PrunedCovers DEF Confirm
  <2> QED
    BY <1>0, <1>4, <2>1 DEF Confirm
<1>5. CASE UNCHANGED <<qVerify, outcome>>
  BY <1>0, <1>5 DEF outcome
<1> QED
  BY <1>1, <1>2, <1>3, <1>4, <1>5, WhoVerifies

LEMMA DiskStep ==
  ASSUME TypeInv, [Next]_vars
  PROVE  disk' \in [Files -> SUBSET OnDisk]
<1>0. disk \in [Files -> SUBSET OnDisk]
  BY DEF TypeInv, TypeOK
<1>1. ASSUME NEW f \in Files, NEW name \in Names, Verify(f, name) \/ Confirm(f, name)
      PROVE  disk' \in [Files -> SUBSET OnDisk]
  BY <1>0, <1>1 DEF Verify, Confirm, ReportedName, OnDisk, Names
<1>2. CASE Serve(Held)
  <2>1. UNCHANGED disk \/ \E f : disk' = [disk EXCEPT ![f] = @ \cup {"downloading", "control"}]
    BY <1>2 DEF Serve, ServeAdd, ServeTell
  <2>2. {"downloading", "control"} \subseteq OnDisk
    BY DEF OnDisk, Names
  <2> QED
    BY <1>0, <2>1, <2>2
<1>3. ASSUME NEW g \in Gid, EndJob(g, TRUE) \/ EndJob(g, FALSE)
      PROVE  disk' \in [Files -> SUBSET OnDisk]
  BY <1>0, <1>3 DEF EndJob
<1> QED
  BY <1>0, <1>1, <1>2, <1>3, WhoTouchesFiles

LEMMA LoopStep ==
  ASSUME TypeInv, [Next]_vars
  PROVE  /\ step' \in Steps
         /\ hand' \in Files \cup {NoFile}
         /\ HandOK'
<1>0. /\ step \in Steps
      /\ hand \in Files \cup {NoFile} /\ HandOK /\ NoFile \notin Files
  BY Markers DEF TypeInv, TypeOK
<1>1. ASSUME NEW t \in Steps,
             NEW f \in Files \cup {NoFile}, GoTo(t, f),
             f # NoFile <=> t \in {"taken", "adding", "matching", "ended"}
      PROVE  /\ step' \in Steps
             /\ hand' \in Files \cup {NoFile}
             /\ HandOK'
  BY <1>1 DEF GoTo, HandOK
<1>2. CASE TakeTask
  <2>1. Head(taskCh) \in Files
    <3>1. taskCh \in Seq(Files) /\ taskCh # <<>>
      BY <1>2 DEF TakeTask, TypeInv, TypeOK
    <3> QED
      BY <3>1, HeadTailProperties
  <2> QED
    BY <1>0, <1>1, <1>2, <2>1 DEF TakeTask, Steps
<1>3. CASE HandleTask \/ Added \/ Match
  <2>1. hand \in Files
    BY <1>0, <1>3 DEF HandleTask, Added, Match, HandOK
  <2>2. GoTo("adding", hand) \/ GoTo("selecting", NoFile) \/ GoTo("matching", hand)
    BY <1>3 DEF HandleTask, Added, Match, GiveUp
  <2> QED
    BY <1>0, <1>1, <2>1, <2>2 DEF Steps
<1>4. CASE TakeEvent
  <2>1. Head(events).gid \in Gid
    <3>1. events \in Seq(Event) /\ events # <<>>
      BY <1>4 DEF TakeEvent, TypeInv, TypeOK
    <3>2. Head(events) \in Event
      BY <3>1, HeadTailProperties
    <3> QED
      BY <3>2 DEF Event
  <2>2. gidMap[Head(events).gid] \in Key \cup {NoKey}
    BY <2>1 DEF TypeInv, TypeOK
  <2>3. \/ UNCHANGED loop
        \/ gidMap[Head(events).gid] # NoKey /\ GoTo("ended", gidMap[Head(events).gid][1])
    BY <1>4 DEF TakeEvent
  <2>4. CASE UNCHANGED loop
    BY <1>0, <2>4 DEF loop, HandOK
  <2> QED
    BY <1>0, <1>1, <2>2, <2>3, <2>4, Markers DEF Steps
<1>5. CASE Run \/ Adopt \/ SubmitVerify \/ Disconnect \/ Reconnect \/ FailToReconnect
  <2>1. \E t \in {"adopting", "selecting", "dialling", "cleaning"} : GoTo(t, NoFile)
    BY <1>5 DEF Run, Adopt, SubmitVerify, Disconnect, Reconnect, FailToReconnect
  <2> QED
    BY <1>1, <2>1 DEF Steps
<1>6. CASE UNCHANGED loop
  BY <1>0, <1>6 DEF loop, HandOK
<1> QED
  BY <1>2, <1>3, <1>4, <1>5, <1>6, WhoLoops DEF Downloading

\* The downloader's half of the client.
LEMMA DownloaderTalks ==
  ASSUME TypeInv, Downloading
  PROVE  \/ \E r \in Request : Call(r) \/ DialOk(r)
         \/ Return \/ Cleanup \/ DialFail
         \/ /\ events # <<>> /\ events' = Tail(events)
            /\ UNCHANGED <<aria2, net, reader, done, calling, answer, failures, lost>>
         \/ UNCHANGED aria2Client
<1>1. Tell \in Request
  BY DEF Request
<1>2. CASE HandleTask
  <2>1. Add(hand) \in Request
    BY <1>2, Markers DEF HandleTask, TypeInv, TypeOK, HandOK, Request
  <2> QED
    BY <1>2, <2>1 DEF HandleTask
<1>3. CASE \/ Run \/ Adopt \/ TakeTask \/ Added \/ Match \/ SubmitVerify
           \/ Disconnect \/ Reconnect \/ FailToReconnect
  BY <1>1, <1>3 DEF Run, Adopt, TakeTask, Added, Match, SubmitVerify, Disconnect, Reconnect,
                    FailToReconnect
<1>4. CASE TakeEvent
  BY <1>4 DEF TakeEvent
<1> QED
  BY <1>2, <1>3, <1>4 DEF Downloading

\* What goes on the wire.
LEMMA ReplyType ==
  ASSUME wire \in Seq(Answer \cup Event), NEW m \in Answer \cup Event, Reply(m)
  PROVE  wire' \in Seq(Answer \cup Event)
BY AppendProperties DEF Reply

LEMMA Aria2Step ==
  ASSUME TypeInv, [Next]_vars
  PROVE  up' \in BOOLEAN /\ jobs' \subseteq Gid /\ lost' \in BOOLEAN
<1>0. jobs \subseteq Gid /\ request \in Request \cup {NoRequest}
  BY DEF TypeInv, TypeOK
<1>1. up' \in BOOLEAN
  <2>1. up \in BOOLEAN
    BY DEF TypeInv, TypeOK
  <2> QED
    BY <2>1, WhoTalks, DownloaderTalks
       DEF Call, DialOk, Return, Cleanup, DialFail, Read, ReadAnswer, ReadEvent, PutEvent, ReadError,
           Serve, EndJob, Break, Exit, Start, aria2, aria2Client
<1>2. lost' \in BOOLEAN
  <2>1. lost \in BOOLEAN
    BY DEF TypeInv, TypeOK
  <2> QED
    BY <2>1, WhoTalks, DownloaderTalks
       DEF Call, DialOk, Return, Cleanup, DialFail, Read, ReadAnswer, ReadEvent, PutEvent, ReadError,
           Serve, EndJob, Break, Exit, Start, aria2, aria2Client
<1>3. jobs' \subseteq Gid
  <2>1. CASE Serve(Held)
    <3>1. request.kind = "add" => request.file \in Files
      BY <1>0 DEF Request, Add, Tell, NoRequest
    <3>2. CASE ServeAdd(Held)
      <4>1. UNCHANGED jobs \/ \E n \in 1 .. Copies : jobs' = jobs \cup {<<request.file, n>>}
        BY <3>2 DEF ServeAdd
      <4>2. request.file \in Files
        BY <3>1, <3>2 DEF ServeAdd
      <4> QED
        BY <1>0, <4>1, <4>2 DEF Gid
    <3>3. CASE ServeTell
      BY <1>0, <3>3 DEF ServeTell
    <3> QED
      BY <2>1, <3>2, <3>3 DEF Serve
  <2> QED
    BY <1>0, <2>1, WhoTalks, DownloaderTalks
       DEF Call, DialOk, Return, Cleanup, DialFail, Read, ReadAnswer, ReadEvent, PutEvent, ReadError,
           EndJob, Break, Exit, Start, aria2, aria2Client
<1> QED
  BY <1>1, <1>2, <1>3

LEMMA NetStep ==
  ASSUME TypeInv, [Next]_vars
  PROVE  /\ conn' \in {"open", "broken"} /\ request' \in Request \cup {NoRequest}
         /\ wire' \in Seq(Answer \cup Event)
<1>0. /\ jobs \subseteq Gid /\ request \in Request \cup {NoRequest}
      /\ conn \in {"open", "broken"} /\ wire \in Seq(Answer \cup Event)
  BY DEF TypeInv, TypeOK
<1>1. conn' \in {"open", "broken"} /\ request' \in Request \cup {NoRequest}
  BY <1>0, WhoTalks, DownloaderTalks
     DEF Call, DialOk, Return, Cleanup, DialFail, Read, ReadAnswer, ReadEvent, PutEvent, ReadError,
         Serve, EndJob, Break, Exit, Start, aria2, aria2Client, net
<1>2. wire' \in Seq(Answer \cup Event)
  <2>1. CASE Serve(Held)
    <3>1. request.kind = "add" => request.file \in Files
      BY <1>0 DEF Request, Add, Tell, NoRequest
    <3>2. \/ Reply(Duplicate)
          \/ \E n \in 1 .. Copies : request.kind = "add" /\ Reply([kind |-> "gid", gid |-> <<request.file, n>>])
          \/ Reply([kind |-> "jobs", jobs |-> jobs])
      BY <2>1 DEF Serve, ServeAdd, ServeTell
    <3> QED
      BY <1>0, <3>1, <3>2, ReplyType DEF Answer, Gid
  <2>2. ASSUME NEW g \in Gid, NEW success \in BOOLEAN, EndJob(g, success)
        PROVE  wire' \in Seq(Answer \cup Event)
    <3>1. [kind |-> "event", gid |-> g, success |-> success] \in Event
      BY DEF Event
    <3> QED
      BY <1>0, <2>2, <3>1, ReplyType DEF EndJob
  <2>3. CASE Read
    <3>1. wire # <<>> => Tail(wire) \in Seq(Answer \cup Event)
      BY <1>0, HeadTailProperties
    <3>2. UNCHANGED wire \/ (wire # <<>> /\ wire' = Tail(wire)) \/ wire' = <<>>
      BY <2>3 DEF Read, ReadAnswer, ReadEvent, PutEvent, ReadError, net
    <3>3. wire' = wire \/ wire' = <<>> => wire' \in Seq(Answer \cup Event)
      BY <1>0, EmptySeq
    <3> QED
      BY <3>1, <3>2, <3>3
  <2>4. CASE Downloading
    <3>1. wire' = wire \/ wire' = <<>>
      BY <2>4, DownloaderTalks DEF Call, DialOk, Return, Cleanup, DialFail, aria2Client, net
    <3> QED
      BY <1>0, <3>1, EmptySeq
  <2>5. CASE Break \/ Exit \/ Start \/ UNCHANGED <<up, jobs, net, client, lost>>
    <3>1. wire' = wire \/ wire' = <<>>
      BY <2>5 DEF Break, Exit, Start, net, aria2Client
    <3> QED
      BY <1>0, <3>1, EmptySeq
  <2> QED
    BY <2>1, <2>2, <2>3, <2>4, <2>5, WhoTalks
<1> QED
  BY <1>1, <1>2

LEMMA ClientStep ==
  ASSUME TypeInv, [Next]_vars
  PROVE  /\ done' \in BOOLEAN /\ reader' \in Event \cup {Idle, Off}
         /\ calling' \in Request \cup {NoRequest} /\ answer' \in Answer \cup {NoAnswer, Failure}
         /\ events' \in Seq(Event) /\ Len(events') <= EvCap
<1>0. /\ reader \in Event \cup {Idle, Off}
      /\ calling \in Request \cup {NoRequest} /\ answer \in Answer \cup {NoAnswer, Failure}
      /\ events \in Seq(Event) /\ Len(events) <= EvCap
  BY DEF TypeInv, TypeOK
<1>1. done' \in BOOLEAN
  <2>1. done \in BOOLEAN
    BY DEF TypeInv, TypeOK
  <2> QED
    BY <2>1, WhoTalks, DownloaderTalks
       DEF Call, DialOk, Return, Cleanup, DialFail, Read, ReadAnswer, ReadEvent, PutEvent, ReadError,
           Serve, EndJob, Break, Exit, Start, aria2Client, client
<1>2. reader' \in Event \cup {Idle, Off}
  BY <1>0, WhoTalks, DownloaderTalks
     DEF Call, DialOk, Return, Cleanup, DialFail, Read, ReadAnswer, ReadEvent, PutEvent, ReadError,
         Serve, EndJob, Break, Exit, Start, aria2Client, client
<1>3. calling' \in Request \cup {NoRequest} /\ answer' \in Answer \cup {NoAnswer, Failure}
  BY <1>0, WhoTalks, DownloaderTalks
     DEF Call, DialOk, Return, Cleanup, DialFail, Read, ReadAnswer, ReadEvent, PutEvent, ReadError,
         Serve, EndJob, Break, Exit, Start, aria2Client, client
<1>4. events' \in Seq(Event) /\ Len(events') <= EvCap
  <2>1. EvCap \in Nat /\ Len(events) \in Nat
    BY <1>0, ClientAssumption
  <2>2. CASE PutEvent
    BY <1>0, <2>1, <2>2, AppendProperties DEF PutEvent
  <2>3. CASE events # <<>> /\ events' = Tail(events)
    <3>1. Tail(events) \in Seq(Event) /\ Len(Tail(events)) = Len(events) - 1
      BY <1>0, <2>3, HeadTailProperties
    <3> QED
      BY <1>0, <2>1, <2>3, <3>1
  <2>4. CASE UNCHANGED events
    BY <1>0, <2>4
  <2> QED
    BY <2>2, <2>3, <2>4, WhoTalks, DownloaderTalks
       DEF Call, DialOk, Return, Cleanup, DialFail, Read, ReadAnswer, ReadEvent, ReadError,
           Serve, EndJob, Break, Exit, Start, aria2Client, client
<1> QED
  BY <1>1, <1>2, <1>3, <1>4

LEMMA MishapStep ==
  ASSUME TypeInv, [Next]_vars
  PROVE  mishaps' \in 0 .. MaxMishaps
<1>1. mishaps \in 0 .. MaxMishaps /\ MaxMishaps \in Nat
  BY PipelineAssumption DEF TypeInv, TypeOK
<1>2. UNCHANGED mishaps \/ Mishap
  <2>1. ASSUME NEW list \in Lists, Replace(list) PROVE UNCHANGED mishaps
    BY <2>1 DEF Replace
  <2>2. Planning => UNCHANGED mishaps
    BY DEF Planning, Check, Look, Submit, SendTask, count
  <2>3. Downloading => UNCHANGED mishaps
    BY DEF Downloading, Run, Adopt, TakeTask, HandleTask, Added, Match, TakeEvent, SubmitVerify,
           Disconnect, Reconnect, FailToReconnect, count
  <2>4. ASSUME NEW f \in Files, NEW name \in Names,
               Verify(f, name) \/ VerifyFails(f, name) \/ Confirm(f, name)
        PROVE  UNCHANGED mishaps \/ Mishap
    BY <2>4 DEF Verify, VerifyFails, Confirm, count
  <2>5. UNCHANGED vars => UNCHANGED mishaps
    BY DEF vars, count
  <2> QED
    BY <2>1, <2>2, <2>3, <2>4, <2>5 DEF Next, Reads, Serves, Finishes, Fails, Aria2
<1> QED
  BY <1>1, <1>2 DEF Mishap

LEMMA TypeStep ==
  ASSUME TypeInv, [Next]_vars
  PROVE  TypeInv'
<1>1. starting' \in BOOLEAN /\ up' \in BOOLEAN /\ done' \in BOOLEAN /\ lost' \in BOOLEAN
  BY PlanStep, Aria2Step, ClientStep
<1>2. TypeOK'
  BY <1>1, PlanStep, QueueStep, MapStep, FlagStep, VerifyStep, DiskStep, LoopStep, Aria2Step,
     NetStep, ClientStep, MishapStep DEF TypeOK
<1> QED
  BY <1>2, LoopStep DEF TypeInv

LEMMA Typing == Spec => []TypeInv
<1>1. TypeInv /\ UNCHANGED vars => TypeInv'
  BY TypeStep
<1> QED
  BY TypeStart, TypeStep, PTL DEF Spec

\* Types: for any tree, lists, channel capacities and number of failures the
\* channels of claims.go, downloader.go and aria2.go stay within their capacities
\* and the maps and flags hold files and downloads.
THEOREM TypeCorrect == Spec => []TypeOK
<1>1. TypeInv => TypeOK
  BY DEF TypeInv
<1> QED
  BY <1>1, Typing, PTL

-----------------------------------------------------------------------------
(* Sequences.                                                              *)

LEMMA Tails ==
  ASSUME NEW S, NEW q \in Seq(S), q # <<>>
  PROVE  /\ 1 \in DOMAIN q /\ Head(q) = q[1] /\ Head(q) \in S /\ Tail(q) \in Seq(S)
         /\ \A i \in DOMAIN Tail(q) :
              i \in Nat /\ i + 1 \in DOMAIN q /\ i + 1 # 1 /\ Tail(q)[i] = q[i + 1]
         /\ \A i \in DOMAIN q : i # 1 => i - 1 \in DOMAIN Tail(q) /\ Tail(q)[i - 1] = q[i]
<1>1. Head(q) \in S /\ Tail(q) \in Seq(S) /\ Len(Tail(q)) = Len(q) - 1 /\ Len(q) \in Nat /\ Len(q) # 0
  BY HeadTailProperties, EmptySeq
<1>2. DOMAIN q = 1 .. Len(q) /\ DOMAIN Tail(q) = 1 .. Len(q) - 1
  BY <1>1
<1>3. Head(q) = q[1] /\ \A i \in 1 .. Len(q) - 1 : Tail(q)[i] = q[i + 1]
  BY <1>1
<1> QED
  BY <1>1, <1>2, <1>3

LEMMA Appends ==
  ASSUME NEW S, NEW q \in Seq(S), NEW e
  PROVE  /\ DOMAIN Append(q, e) = DOMAIN q \cup {Len(q) + 1}
         /\ Len(q) + 1 \notin DOMAIN q
         /\ Append(q, e)[Len(q) + 1] = e
         /\ \A i \in DOMAIN q : Append(q, e)[i] = q[i]
OBVIOUS

-----------------------------------------------------------------------------
(* The client's readLoop and its restart.                                  *)

\* The readLoop is over exactly from the moment it closes done until the next dial
\* succeeds, and then the connection is gone and nothing is left on it; a dial that
\* fails leaves a done that nobody closes.
ReaderOK ==
  /\ reader = Off <=> (done = TRUE \/ step \in {"dialling", "cleaning"})
  /\ reader = Off => wire = <<>> /\ conn = "broken"
  /\ step \in {"dialling", "cleaning"} => done = FALSE
  /\ failures = IF step = "cleaning" THEN 1 ELSE 0

LEMMA ReaderStart == Init => ReaderOK
BY DEF Init, ClientInit, ReaderOK, Idle, Off

\* What the rest of the world does to the reader and the connection.
LEMMA OthersReadStep ==
  ASSUME TypeInv, ReaderOK, UNCHANGED loop,
         \/ Read \/ Serve(Held)
         \/ \E g \in Gid : EndJob(g, TRUE) \/ EndJob(g, FALSE)
         \/ Break \/ Exit \/ Start
         \/ UNCHANGED <<up, jobs, net, client, lost>>
  PROVE  ReaderOK'
<1> USE DEF ReaderOK, loop
<1>0. Off \notin Event /\ Idle # Off
  BY DEF Off, Event, Idle
<1>1. CASE ReadAnswer \/ ReadEvent \/ PutEvent
  BY <1>0, <1>1 DEF ReadAnswer, ReadEvent, PutEvent, net
<1>2. CASE ReadError
  BY <1>0, <1>2 DEF ReadError, TypeInv, TypeOK
<1>3. CASE Serve(Held)
  BY <1>3 DEF Serve, ServeAdd, ServeTell, Reply, client
<1>4. CASE \E g \in Gid : EndJob(g, TRUE) \/ EndJob(g, FALSE)
  BY <1>4 DEF EndJob, Reply, client
<1>5. CASE Break \/ Exit \/ Start \/ UNCHANGED <<up, jobs, net, client, lost>>
  BY <1>5 DEF Break, Exit, Start, client, net
<1> QED
  BY <1>1, <1>2, <1>3, <1>4, <1>5 DEF Read

LEMMA DownloaderReadStep ==
  ASSUME TypeInv, ReaderOK, Downloading
  PROVE  ReaderOK'
<1> USE DEF ReaderOK, GoTo
<1>0. done \in BOOLEAN /\ Idle # Off
  BY DEF TypeInv, TypeOK, Off, Idle
<1>1. CASE Run \/ HandleTask
  BY <1>1 DEF Run, HandleTask, Call
<1>2. CASE Adopt \/ Match
  BY <1>2 DEF Adopt, Match, Return, net, GiveUp
<1>3. CASE Added
  BY <1>3 DEF Added, Return, Call, net, GiveUp
<1>4. CASE TakeEvent
  BY <1>4 DEF TakeEvent, net, loop
<1>5. CASE TakeTask \/ SubmitVerify
  BY <1>5 DEF TakeTask, SubmitVerify, aria2Client, net, client
<1>6. CASE Disconnect
  BY <1>0, <1>6 DEF Disconnect, Cleanup, ReaderGone
<1>7. CASE Reconnect
  BY <1>0, <1>7 DEF Reconnect, DialOk
<1>8. CASE FailToReconnect
  BY <1>8 DEF FailToReconnect, DialFail, net
<1> QED
  BY <1>1, <1>2, <1>3, <1>4, <1>5, <1>6, <1>7, <1>8 DEF Downloading

LEMMA ReaderStep ==
  ASSUME TypeInv, ReaderOK, [Next]_vars
  PROVE  ReaderOK'
BY WhoTalks, WhoLoops, OthersReadStep, DownloaderReadStep

\* One readLoop at most reads from a connection, the cleanup waits for it, and after
\* one dial that fails nobody dials again (readLoop, cleanupForReconnect and
\* ReconnectOnly of aria2.go, reconnect of downloader.go).
THEOREM OneReaderOnly == Spec => []OneReader
<1>1. ReaderOK /\ TypeInv => OneReader
  BY DEF ReaderOK, OneReader, TypeInv, TypeOK
<1>2. TypeInv /\ ReaderOK /\ UNCHANGED vars => ReaderOK'
  BY ReaderStep
<1> QED
  BY <1>1, <1>2, ReaderStart, ReaderStep, Typing, PTL DEF Spec

-----------------------------------------------------------------------------
(* Calls and their answers.                                                *)

\* The answers aria2 gives to a call.
Fits(a, call) ==
  \/ call.kind = "add" /\ (a = Duplicate \/ (a.kind = "gid" /\ a.gid[1] = call.file))
  \/ call.kind = "tell" /\ a.kind = "jobs"

\* The downloader has the call under way that belongs to where it stands; on a
\* connection there is the request, or one answer that fits, or neither.
CallOK ==
  /\ calling = (IF step = "adding" THEN Add(hand)
                ELSE IF step \in {"adopting", "matching"} THEN Tell ELSE NoRequest)
  /\ conn = "open" /\ request # NoRequest =>
       request = calling /\ answer = NoAnswer /\ \A i \in DOMAIN wire : wire[i] \in Event
  /\ \A i \in DOMAIN wire : wire[i] \in Answer =>
       /\ Fits(wire[i], calling) /\ answer = NoAnswer
       /\ \A j \in DOMAIN wire : wire[j] \in Answer => i = j
  /\ answer \in Answer => Fits(answer, calling)
  /\ calling = NoRequest => answer = NoAnswer

LEMMA MessageKinds ==
  /\ \A m \in Event : m.kind = "event" /\ m \notin Answer
  /\ NoAnswer \notin Answer /\ Failure \notin Answer /\ Failure # NoAnswer
  /\ \A f \in Files : Add(f) # NoRequest /\ Add(f) # Tell /\ Add(f).kind = "add" /\ Add(f).file = f
  /\ Tell # NoRequest /\ Tell.kind = "tell" /\ NoRequest.kind = "none"
  /\ \A a : ~ Fits(a, NoRequest)
BY DEF Event, Answer, Duplicate, NoAnswer, Failure, Add, Tell, NoRequest, Fits

LEMMA CallStart == Init => CallOK
BY MessageKinds DEF Init, ClientInit, CallOK

\* An event goes on the wire.
LEMMA EventReplied ==
  ASSUME TypeInv, CallOK, NEW m \in Event, Reply(m), UNCHANGED <<conn, request, client, loop>>
  PROVE  CallOK'
<1> USE DEF CallOK, client, loop
<1>0. wire \in Seq(Answer \cup Event)
  BY DEF TypeInv, TypeOK
<1>1. CASE wire' = Append(wire, m)
  <2>1. /\ DOMAIN wire' = DOMAIN wire \cup {Len(wire) + 1}
        /\ wire'[Len(wire) + 1] = m /\ \A i \in DOMAIN wire : wire'[i] = wire[i]
    BY <1>0, <1>1, Appends
  <2>2. m \notin Answer
    BY MessageKinds
  <2> QED
    BY <2>1, <2>2
<1>2. CASE wire' = wire
  BY <1>2
<1> QED
  BY <1>1, <1>2 DEF Reply

\* The answer to the request goes on the wire.
LEMMA AnswerReplied ==
  ASSUME TypeInv, CallOK, NEW m \in Answer, Reply(m), Fits(m, request), request # NoRequest,
         request' = NoRequest, UNCHANGED <<conn, client, loop>>
  PROVE  CallOK'
<1> USE DEF CallOK, client, loop
<1>0. wire \in Seq(Answer \cup Event)
  BY DEF TypeInv, TypeOK
<1>1. CASE conn = "open" /\ wire' = Append(wire, m)
  <2>1. /\ DOMAIN wire' = DOMAIN wire \cup {Len(wire) + 1}
        /\ wire'[Len(wire) + 1] = m /\ \A i \in DOMAIN wire : wire'[i] = wire[i]
    BY <1>0, <1>1, Appends
  <2>2. \A i \in DOMAIN wire : wire[i] \notin Answer
    BY <1>1, MessageKinds
  <2> QED
    BY <1>1, <2>1, <2>2
<1>2. CASE wire' = wire
  BY <1>2
<1> QED
  BY <1>1, <1>2 DEF Reply

LEMMA OthersCallStep ==
  ASSUME TypeInv, ReaderOK, CallOK, UNCHANGED loop,
         \/ Read \/ Serve(Held)
         \/ \E g \in Gid : EndJob(g, TRUE) \/ EndJob(g, FALSE)
         \/ Break \/ Exit \/ Start
         \/ UNCHANGED <<up, jobs, net, client, lost>>
  PROVE  CallOK'
<1>0. /\ wire \in Seq(Answer \cup Event) /\ request \in Request \cup {NoRequest} /\ jobs \subseteq Gid
      /\ calling \in Request \cup {NoRequest}
  BY DEF TypeInv, TypeOK
<1>1. CASE ReadAnswer \/ ReadEvent
  <2>1. /\ wire # <<>> /\ wire' = Tail(wire)
        /\ UNCHANGED <<conn, request, calling, step, hand>>
        /\ (answer' = Head(wire) /\ Head(wire) \in Answer) \/ (answer' = answer /\ Head(wire) \in Event)
    BY <1>1 DEF ReadAnswer, ReadEvent, loop
  <2>2. /\ 1 \in DOMAIN wire /\ Head(wire) = wire[1]
        /\ \A i \in DOMAIN Tail(wire) :
              i \in Nat /\ i + 1 \in DOMAIN wire /\ i + 1 # 1 /\ Tail(wire)[i] = wire[i + 1]
    BY <1>0, <2>1, Tails
  <2>3. CASE answer' = Head(wire) /\ Head(wire) \in Answer
    <3>1. \A i \in DOMAIN wire' : wire'[i] \notin Answer
      BY <2>1, <2>2, <2>3 DEF CallOK
    <3>2. conn = "open" => request = NoRequest
      BY <2>2, <2>3, MessageKinds DEF CallOK
    <3>3. Fits(answer', calling) /\ calling # NoRequest
      BY <2>2, <2>3, MessageKinds DEF CallOK
    <3> QED
      BY <2>1, <3>1, <3>2, <3>3 DEF CallOK
  <2>4. CASE answer' = answer /\ Head(wire) \in Event
    <3>1. \A i \in DOMAIN wire' : i \in Nat /\ i + 1 \in DOMAIN wire /\ wire'[i] = wire[i + 1]
      BY <2>1, <2>2
    <3>2. ASSUME NEW i \in DOMAIN wire', wire'[i] \in Answer
          PROVE  /\ Fits(wire'[i], calling) /\ answer = NoAnswer
                 /\ \A j \in DOMAIN wire' : wire'[j] \in Answer => i = j
      <4>1. \A j \in DOMAIN wire' : wire'[j] \in Answer => i + 1 = j + 1
        BY <3>1, <3>2 DEF CallOK
      <4>2. \A j \in DOMAIN wire' : wire'[j] \in Answer => i = j
        BY <3>1, <4>1
      <4> QED
        BY <3>1, <3>2, <4>2 DEF CallOK
    <3> QED
      BY <2>1, <2>4, <3>1, <3>2 DEF CallOK
  <2> QED
    BY <2>1, <2>3, <2>4
<1>2. CASE PutEvent
  BY <1>2 DEF PutEvent, CallOK, net, loop
<1>3. CASE ReadError
  <2>1. \A i \in DOMAIN wire' : FALSE
    BY <1>3 DEF ReadError
  <2> QED
    BY <1>3, <2>1, MessageKinds DEF ReadError, CallOK, loop
<1>4. CASE Serve(Held)
  <2>0. request' = NoRequest /\ UNCHANGED <<conn, client, loop>>
    BY <1>4 DEF Serve
  <2>1. CASE ServeAdd(Held)
    <3>1. request.kind = "add" /\ request # NoRequest /\ request.file \in Files
      BY <1>0, <2>1, MessageKinds DEF ServeAdd, Request
    <3>2. CASE Reply(Duplicate)
      <4>1. Duplicate \in Answer /\ Fits(Duplicate, request)
        BY <3>1 DEF Answer, Fits
      <4> QED
        BY <2>0, <3>1, <3>2, <4>1, AnswerReplied
    <3>3. CASE \E n \in 1 .. Copies : Reply([kind |-> "gid", gid |-> <<request.file, n>>])
      <4>1. PICK n \in 1 .. Copies : Reply([kind |-> "gid", gid |-> <<request.file, n>>])
        BY <3>3
      <4>2. /\ [kind |-> "gid", gid |-> <<request.file, n>>] \in Answer
            /\ Fits([kind |-> "gid", gid |-> <<request.file, n>>], request)
        BY <3>1 DEF Answer, Fits, Gid
      <4> QED
        BY <2>0, <3>1, <4>1, <4>2, AnswerReplied
    <3> QED
      BY <2>1, <3>2, <3>3 DEF ServeAdd
  <2>2. CASE ServeTell
    <3>1. request.kind = "tell" /\ request # NoRequest
      BY <2>2, MessageKinds DEF ServeTell
    <3>2. /\ [kind |-> "jobs", jobs |-> jobs] \in Answer
          /\ Fits([kind |-> "jobs", jobs |-> jobs], request)
      BY <1>0, <3>1 DEF Answer, Fits
    <3> QED
      BY <2>0, <2>2, <3>1, <3>2, AnswerReplied DEF ServeTell
  <2> QED
    BY <1>4, <2>1, <2>2 DEF Serve
<1>5. ASSUME NEW g \in Gid, NEW success \in BOOLEAN, EndJob(g, success) PROVE CallOK'
  <2>1. [kind |-> "event", gid |-> g, success |-> success] \in Event
    BY DEF Event
  <2> QED
    BY <1>5, <2>1, EventReplied DEF EndJob
<1>6. CASE Break \/ Exit
  BY <1>6, MessageKinds DEF Break, Exit, CallOK, client, loop
<1>7. CASE Start \/ UNCHANGED <<up, jobs, net, client, lost>>
  BY <1>7 DEF Start, CallOK, client, net, loop
<1> QED
  BY <1>1, <1>2, <1>3, <1>4, <1>5, <1>6, <1>7 DEF Read

\* A call that returns leaves no answer on the way, nor, on a connection that is
\* open, a request.
LEMMA CallReturns ==
  ASSUME TypeInv, ReaderOK, CallOK, Results # {}
  PROVE  /\ \A i \in DOMAIN wire : wire[i] \notin Answer
         /\ conn = "open" => request = NoRequest
<1>1. CASE done = TRUE
  <2>1. reader = Off
    BY <1>1 DEF ReaderOK
  <2>2. wire = <<>> /\ conn = "broken"
    BY <2>1 DEF ReaderOK
  <2> QED
    BY <2>2
<1>2. CASE done # TRUE
  <2>1. done = FALSE
    BY <1>2 DEF TypeInv, TypeOK
  <2>2. answer # NoAnswer
    BY <2>1 DEF Results
  <2> QED
    BY <2>2 DEF CallOK
<1> QED
  BY <1>1, <1>2

\* With no call under way nothing is on its way either.
LEMMA NoCallQuiet ==
  ASSUME CallOK, calling = NoRequest
  PROVE  /\ \A i \in DOMAIN wire : wire[i] \notin Answer
         /\ conn = "open" => request = NoRequest
BY MessageKinds DEF CallOK

\* A new call.
LEMMA Calls ==
  ASSUME NEW r \in Request,
         \/ Call(r) /\ \A i \in DOMAIN wire : wire[i] \notin Answer
         \/ DialOk(r),
         wire \in Seq(Answer \cup Event),
         calling' = (IF step' = "adding" THEN Add(hand')
                     ELSE IF step' \in {"adopting", "matching"} THEN Tell ELSE NoRequest)
  PROVE  CallOK'
<1>0. r # NoRequest
  BY MessageKinds DEF Request
<1>1. CASE Call(r) /\ \A i \in DOMAIN wire : wire[i] \notin Answer
  <2>1. calling' = r /\ UNCHANGED <<wire, conn>> /\ answer' \in {NoAnswer, Failure}
    BY <1>1 DEF Call
  <2>2. conn' = "open" => request' = r /\ answer' = NoAnswer
    BY <1>1 DEF Call
  <2>3. \A i \in DOMAIN wire : wire[i] \in Event
    BY <1>1
  <2>4. answer' \notin Answer
    BY <2>1, MessageKinds
  <2> QED
    BY <1>0, <1>1, <2>1, <2>2, <2>3, <2>4 DEF CallOK
<1>2. CASE DialOk(r)
  <2>1. calling' = r /\ request' = r /\ answer' = NoAnswer
    BY <1>2 DEF DialOk
  <2>2. \A i \in DOMAIN wire' : FALSE
    BY <1>2 DEF DialOk
  <2> QED
    BY <1>0, <2>1, <2>2, MessageKinds DEF CallOK
<1> QED
  BY <1>1, <1>2

\* A call that is over.
LEMMA Returned ==
  ASSUME \A i \in DOMAIN wire : wire[i] \notin Answer, conn = "open" => request = NoRequest,
         Return, step' \notin {"adding", "adopting", "matching"}
  PROVE  CallOK'
BY MessageKinds DEF CallOK, Return, net

LEMMA DownloaderCallStep ==
  ASSUME TypeInv, ReaderOK, CallOK, Downloading
  PROVE  CallOK'
<1>0. /\ wire \in Seq(Answer \cup Event) /\ hand \in Files \cup {NoFile}
      /\ Tell \in Request /\ HandOK
  BY DEF TypeInv, TypeOK, Request
<1>1. CASE Run
  <2>1. calling = NoRequest
    BY <1>1 DEF Run, CallOK
  <2> QED
    BY <1>0, <1>1, <2>1, NoCallQuiet, Calls DEF Run, GoTo, Call
<1>2. CASE HandleTask
  <2>1. calling = NoRequest
    BY <1>2 DEF HandleTask, CallOK
  <2>2. Add(hand) \in Request
    BY <1>0, <1>2 DEF HandleTask, HandOK, Request
  <2>3. \A i \in DOMAIN wire : wire[i] \notin Answer
    BY <2>1, NoCallQuiet
  <2>4. Call(Add(hand)) /\ calling' = Add(hand) /\ step' = "adding" /\ hand' = hand
    BY <1>2 DEF HandleTask, Call, GoTo
  <2> QED
    BY <1>0, <2>2, <2>3, <2>4, Calls
<1>3. CASE Adopt \/ Added \/ Match
  <2>1. Results # {}
    BY <1>3 DEF Adopt, Added, Match
  <2>2. \/ Return /\ step' = "selecting"
        \/ Call(Tell) /\ step' = "matching"
    BY <1>3 DEF Adopt, Added, Match, GoTo, GiveUp
  <2>3. CASE Return /\ step' = "selecting"
    BY <2>1, <2>3, CallReturns, Returned
  <2>4. CASE Call(Tell) /\ step' = "matching"
    <3>1. calling' = Tell
      BY <2>4 DEF Call
    <3> QED
      BY <1>0, <2>1, <2>4, <3>1, CallReturns, Calls
  <2> QED
    BY <2>2, <2>3, <2>4
<1>4. CASE Reconnect
  <2>1. DialOk(Tell) /\ calling' = Tell /\ step' = "adopting"
    BY <1>4 DEF Reconnect, DialOk, GoTo
  <2> QED
    BY <1>0, <2>1, Calls
<1>5. CASE TakeEvent
  BY <1>5 DEF TakeEvent, CallOK, net, loop, GoTo
<1>6. CASE TakeTask \/ SubmitVerify
  BY <1>6 DEF TakeTask, SubmitVerify, CallOK, aria2Client, net, client, GoTo
<1>7. CASE Disconnect
  BY <1>7, MessageKinds DEF Disconnect, Cleanup, CallOK, GoTo
<1>8. CASE FailToReconnect
  BY <1>8 DEF FailToReconnect, DialFail, CallOK, net, GoTo
<1> QED
  BY <1>1, <1>2, <1>3, <1>4, <1>5, <1>6, <1>7, <1>8 DEF Downloading

LEMMA CallStep ==
  ASSUME TypeInv, ReaderOK, CallOK, [Next]_vars
  PROVE  CallOK'
BY WhoTalks, WhoLoops, OthersCallStep, DownloaderCallStep

-----------------------------------------------------------------------------
(* The maps of the downloader.                                             *)

\* A gid is entered under a path of the file it downloads, and the path leads back
\* to it; when paths are spelled in one way only, the gid is the one the path has.
MapsOK ==
  /\ \A g \in Gid : gidMap[g] # NoKey => pathGID[gidMap[g]] = g
  /\ Absolute = TRUE => \A k \in Key : pathGID[k] # NoGid => gidMap[pathGID[k]] = k
  /\ \A g \in Gid : gidMap[g] # NoKey =>
       /\ gidMap[g][1] = g[1]
       /\ Absolute = TRUE => gidMap[g] = <<g[1], "planned">>

LEMMA MapsStart == Init => MapsOK
BY Markers DEF Init, MapsOK

\* Entries of downloads under their own file.
LEMMA MapsRegister ==
  ASSUME TypeInv, MapsOK, NEW new, DOMAIN new \subseteq Gid, \A g \in DOMAIN new : new[g] \in Key,
         Register(new),
         \A g \in DOMAIN new : new[g][1] = g[1] /\ (Absolute = TRUE => new[g] = <<g[1], "planned">>)
  PROVE  MapsOK'
<1>0. /\ gidMap \in [Gid -> Key \cup {NoKey}] /\ pathGID \in [Key -> Gid \cup {NoGid}]
      /\ qDownload \subseteq Files
  BY DEF TypeInv, TypeOK
<1>1. /\ gidMap' \in [Gid -> Key \cup {NoKey}] /\ pathGID' \in [Key -> Gid \cup {NoGid}]
      /\ \A k \in Key : pathGID[k] # NoGid => pathGID'[k] = pathGID[k]
      /\ \A k \in Key : pathGID'[k] # pathGID[k] =>
            /\ pathGID[k] = NoGid /\ pathGID'[k] \in DOMAIN new
            /\ new[pathGID'[k]] = k /\ gidMap'[pathGID'[k]] = k
      /\ \A g \in Gid : gidMap'[g] # gidMap[g] =>
            /\ g \in DOMAIN new /\ gidMap'[g] = new[g]
            /\ pathGID'[new[g]] = g /\ pathGID[new[g]] = NoGid
  BY <1>0, Registers
<1>2. ASSUME NEW g \in Gid, gidMap'[g] # NoKey PROVE pathGID'[gidMap'[g]] = g
  <2>1. CASE gidMap'[g] = gidMap[g]
    <3>1. gidMap[g] \in Key /\ pathGID[gidMap[g]] = g /\ g # NoGid
      BY <1>0, <1>2, <2>1, Markers DEF MapsOK
    <3> QED
      BY <1>1, <2>1, <3>1
  <2>2. CASE gidMap'[g] # gidMap[g]
    BY <1>1, <2>2
  <2> QED
    BY <2>1, <2>2
<1>3. ASSUME Absolute = TRUE, NEW k \in Key, pathGID'[k] # NoGid PROVE gidMap'[pathGID'[k]] = k
  <2>1. CASE pathGID'[k] # pathGID[k]
    BY <1>1, <2>1
  <2>2. CASE pathGID'[k] = pathGID[k]
    <3>1. pathGID[k] \in Gid /\ gidMap[pathGID[k]] = k /\ k # NoKey
      BY <1>0, <1>3, <2>2, Markers DEF MapsOK
    <3>2. k = <<pathGID[k][1], "planned">>
      BY <1>3, <3>1 DEF MapsOK
    <3>3. gidMap'[pathGID[k]] # gidMap[pathGID[k]] => new[pathGID[k]] = k /\ pathGID[new[pathGID[k]]] = NoGid
      BY <1>1, <1>3, <3>1, <3>2
    <3> QED
      BY <1>3, <2>2, <3>1, <3>3
  <2> QED
    BY <2>1, <2>2
<1>4. ASSUME NEW g \in Gid, gidMap'[g] # NoKey
      PROVE  gidMap'[g][1] = g[1] /\ (Absolute = TRUE => gidMap'[g] = <<g[1], "planned">>)
  <2>1. CASE gidMap'[g] = gidMap[g]
    BY <1>4, <2>1 DEF MapsOK
  <2>2. CASE gidMap'[g] # gidMap[g]
    BY <1>1, <2>2
  <2> QED
    BY <2>1, <2>2
<1> QED
  BY <1>2, <1>3, <1>4 DEF MapsOK

\* The gid of an event is one of aria2's.
LEMMA EventGid ==
  ASSUME TypeInv, TakeEvent
  PROVE  Head(events).gid \in Gid /\ gidMap[Head(events).gid] \in Key \cup {NoKey}
<1>1. events \in Seq(Event) /\ events # <<>> /\ gidMap \in [Gid -> Key \cup {NoKey}]
  BY DEF TakeEvent, TypeInv, TypeOK
<1>2. Head(events) \in Event
  BY <1>1, HeadTailProperties
<1> QED
  BY <1>1, <1>2 DEF Event

LEMMA MapsStep ==
  ASSUME TypeInv, CallOK, MapsOK, [Next]_vars
  PROVE  MapsOK'
<1>0. /\ gidMap \in [Gid -> Key \cup {NoKey}] /\ pathGID \in [Key -> Gid \cup {NoGid}]
  BY DEF TypeInv, TypeOK
<1>1. CASE Adopt \/ Added \/ Match
  <2>1. CASE UNCHANGED <<gidMap, pathGID>>
    BY <2>1 DEF MapsOK
  <2>2. ASSUME NEW new, Register(new), DOMAIN new \subseteq Gid, \A g \in DOMAIN new : new[g] \in Key,
               \A g \in DOMAIN new : new[g] = AdoptedKey(g[1])
        PROVE  MapsOK'
    <3>1. \A g \in DOMAIN new :
            new[g][1] = g[1] /\ (Absolute = TRUE => new[g] = <<g[1], "planned">>)
      BY <2>2 DEF AdoptedKey
    <3> QED
      BY <2>2, <3>1, MapsRegister
  <2>3. ASSUME NEW new, Register(new), DOMAIN new \subseteq Gid, \A g \in DOMAIN new : new[g] \in Key,
               \A g \in DOMAIN new :
                 /\ new[g] = <<hand, "planned">>
                 /\ \/ g[1] = hand
                    \/ Added /\ answer.kind = "gid" /\ answer.gid = g /\ answer \in Answer
        PROVE  MapsOK'
    <3>1. ASSUME NEW g \in DOMAIN new, Added, answer.kind = "gid", answer.gid = g, answer \in Answer
          PROVE  g[1] = hand
      <4>1. Fits(answer, Add(hand))
        BY <3>1 DEF CallOK, Added
      <4> QED
        BY <3>1, <4>1 DEF Fits, Add, Duplicate
    <3>2. \A g \in DOMAIN new :
            new[g][1] = g[1] /\ (Absolute = TRUE => new[g] = <<g[1], "planned">>)
      BY <2>3, <3>1
    <3> QED
      BY <2>3, <3>2, MapsRegister
  <2> QED
    BY <1>1, <2>1, <2>2, <2>3, Entries
<1>2. CASE TakeEvent
  <2>1. CASE gidMap[Head(events).gid] = NoKey
    <3>1. UNCHANGED <<gidMap, pathGID>>
      BY <1>2, <2>1 DEF TakeEvent
    <3> QED
      BY <3>1 DEF MapsOK
  <2>2. CASE gidMap[Head(events).gid] # NoKey
    <3> DEFINE gone == Head(events).gid
               key == gidMap[gone]
    <3>1. gone \in Gid /\ key \in Key /\ pathGID[key] = gone
      BY <1>2, <2>2, EventGid DEF MapsOK
    <3>2. gidMap' = [gidMap EXCEPT ![gone] = NoKey] /\ pathGID' = [pathGID EXCEPT ![key] = NoGid]
      BY <1>2, <2>2 DEF TakeEvent, Unmapped
    <3> HIDE DEF gone
    <3>3. \A g \in Gid : gidMap'[g] = IF g = gone THEN NoKey ELSE gidMap[g]
      BY <1>0, <3>2
    <3>4. \A k \in Key : pathGID'[k] = IF k = key THEN NoGid ELSE pathGID[k]
      BY <1>0, <3>2
    <3>5. ASSUME NEW g \in Gid, gidMap'[g] # NoKey PROVE pathGID'[gidMap'[g]] = g
      <4>1. g # gone /\ gidMap'[g] = gidMap[g] /\ gidMap[g] \in Key /\ pathGID[gidMap[g]] = g
        BY <1>0, <3>3, <3>5 DEF MapsOK
      <4> QED
        BY <3>1, <3>4, <4>1
    <3>6. ASSUME Absolute = TRUE, NEW k \in Key, pathGID'[k] # NoGid PROVE gidMap'[pathGID'[k]] = k
      <4>1. k # key /\ pathGID'[k] = pathGID[k] /\ pathGID[k] \in Gid /\ gidMap[pathGID[k]] = k
        BY <1>0, <3>4, <3>6 DEF MapsOK
      <4> QED
        BY <3>3, <4>1
    <3> QED
      BY <3>3, <3>5, <3>6 DEF MapsOK
  <2> QED
    BY <2>1, <2>2
<1>3. CASE UNCHANGED <<gidMap, pathGID>>
  BY <1>3 DEF MapsOK
<1> QED
  BY <1>1, <1>2, <1>3, WhoMaps

LEMMA MapsHold == Spec => [](TypeInv /\ ReaderOK /\ CallOK /\ MapsOK)
<1> DEFINE Inv == TypeInv /\ ReaderOK /\ CallOK /\ MapsOK
<1>1. Init => Inv
  BY TypeStart, ReaderStart, CallStart, MapsStart
<1>2. Inv /\ [Next]_vars => Inv'
  BY TypeStep, ReaderStep, CallStep, MapsStep
<1> QED
  BY <1>1, <1>2, PTL DEF Spec

\* A registered download is found again under its path, and, as long as aria2 spells
\* paths as the downloader does, nothing is left in one map that has gone from the
\* other (registerActive, unregister, adoptExisting and tryAdoptDuplicate).
THEOREM MapsAreInverse == Spec => []MapsInverse
<1>1. MapsOK => MapsInverse
  BY PipelineAssumption DEF MapsOK, MapsInverse
<1> QED
  BY <1>1, MapsHold, PTL

-----------------------------------------------------------------------------
(* The queue to aria2.                                                     *)

\* What waits in the channel waits once, may be downloaded, and is all the
\* downloader takes for pending, but for the file on its way in and the one on its way out.
QueueOK ==
  /\ QueuedOnce
  /\ OnlyClaimedQueued
  /\ plan = "sending" => Allowed(claims, Visiting)

LEMMA QueueStart == Init => QueueOK
BY DEF Init, QueueOK, QueuedOnce, OnlyClaimedQueued, InChannel, Sending, Taken

\* The walk leaves a file.
LEMMA VisitedLeaves == Visited => plan' # "sending" /\ plan' # "submitting"
BY DEF Visited

\* The file on its way in.
LEMMA SendingStays ==
  ASSUME UNCHANGED <<plan, todo>>
  PROVE  Sending' = Sending /\ Visiting' = Visiting
BY DEF Sending, Visiting

\* The file on its way out: the downloader alone moves it.
LEMMA TakenStays ==
  ASSUME [Next]_vars, ~ TakeTask, ~ HandleTask
  PROVE  Taken' = Taken
<1>1. CASE UNCHANGED loop
  BY <1>1 DEF loop, Taken
<1>2. CASE Downloading /\ ~ UNCHANGED loop
  <2>1. step # "taken" /\ step' # "taken"
    BY <1>2 DEF Downloading, Run, Adopt, Added, Match, TakeEvent, SubmitVerify, Disconnect, Reconnect,
                FailToReconnect, GoTo, GiveUp
  <2> QED
    BY <2>1 DEF Taken
<1> QED
  BY <1>1, <1>2, WhoLoops

LEMMA QueueOKStep ==
  ASSUME TypeInv, QueueOK, [Next]_vars
  PROVE  QueueOK'
<1> USE DEF QueueOK, QueuedOnce, OnlyClaimedQueued
<1>0. taskCh \in Seq(Files) /\ todo \subseteq Files /\ (plan = "idle" <=> todo = {})
  BY DEF TypeInv, TypeOK
<1>1. ASSUME NEW list \in Lists, Replace(list) PROVE QueueOK'
  <2>1. /\ taskCh' = <<>> /\ pending' = pending \ InChannel /\ plan = "idle" /\ plan' # "sending"
        /\ UNCHANGED loop
    BY <1>1 DEF Replace, Left, Drained, InChannel
  <2>2. InChannel' = {} /\ \A i \in DOMAIN taskCh' : FALSE
    BY <2>1 DEF InChannel
  <2>3. Sending = {} /\ Sending' = {} /\ Taken' = Taken
    BY <2>1 DEF Sending, Taken, loop
  <2> QED
    BY <2>1, <2>2, <2>3
<1>2. CASE Submit
  <2>0. /\ UNCHANGED <<claims, taskCh, loop>> /\ InChannel' = InChannel
        /\ Sending = {} /\ Taken' = Taken /\ pending = InChannel \cup Taken
    BY <1>2 DEF Submit, InChannel, Sending, Taken, loop
  <2>1. CASE Visited /\ UNCHANGED pending
    <3>1. plan' # "sending" /\ Sending' = {}
      BY <2>1, VisitedLeaves DEF Sending
    <3> QED
      BY <2>0, <2>1, <3>1
  <2>2. CASE /\ Allowed(claims, Visiting) /\ Visiting \notin pending
             /\ pending' = pending \cup {Visiting} /\ plan' = "sending" /\ UNCHANGED todo
    <3>1. Visiting' = Visiting /\ Sending' = {Visiting}
      BY <2>2 DEF Visiting, Sending
    <3>2. (\A f \in InChannel : Allowed(claims, f))' <=> \A f \in InChannel : Allowed(claims, f)
      BY <2>0
    <3>3. Allowed(claims, Visiting)' <=> Allowed(claims, Visiting)
      BY <2>0, <3>1
    <3> QED
      BY <2>0, <2>2, <3>1, <3>2, <3>3
  <2> QED
    BY <1>2, <2>1, <2>2 DEF Submit
<1>3. CASE SendTask
  <2>1. /\ taskCh' = Append(taskCh, Visiting) /\ plan' # "sending" /\ UNCHANGED <<claims, pending, loop>>
        /\ Sending = {Visiting} /\ Sending' = {} /\ Taken' = Taken
    BY <1>3, VisitedLeaves DEF SendTask, Sending, Taken, loop
  <2>2. Visiting \notin InChannel /\ Visiting \notin Taken /\ Allowed(claims, Visiting)
    BY <1>3, <2>1 DEF SendTask
  <2>3. /\ DOMAIN taskCh' = DOMAIN taskCh \cup {Len(taskCh) + 1} /\ Len(taskCh) + 1 \notin DOMAIN taskCh
        /\ taskCh'[Len(taskCh) + 1] = Visiting /\ \A i \in DOMAIN taskCh : taskCh'[i] = taskCh[i]
    BY <1>0, <2>1, Appends
  <2>4. InChannel' = InChannel \cup {Visiting}
    BY <2>3 DEF InChannel
  <2>5. \A i, j \in DOMAIN taskCh' : taskCh'[i] = taskCh'[j] => i = j
    BY <2>2, <2>3 DEF InChannel
  <2> QED
    BY <2>1, <2>2, <2>4, <2>5
<1>4. CASE TakeTask
  <2>1. /\ taskCh # <<>> /\ taskCh' = Tail(taskCh) /\ UNCHANGED <<claims, pending>>
        /\ Sending' = Sending /\ Visiting' = Visiting /\ plan' = plan
        /\ Taken = {} /\ Taken' = {Head(taskCh)}
    BY <1>4, SendingStays DEF TakeTask, GoTo, planner, Taken
  <2>2. /\ 1 \in DOMAIN taskCh /\ Head(taskCh) = taskCh[1]
        /\ \A i \in DOMAIN taskCh' :
             i \in Nat /\ i + 1 \in DOMAIN taskCh /\ i + 1 # 1 /\ taskCh'[i] = taskCh[i + 1]
        /\ \A i \in DOMAIN taskCh : i # 1 => i - 1 \in DOMAIN taskCh' /\ taskCh'[i - 1] = taskCh[i]
    BY <1>0, <2>1, Tails
  <2>3. InChannel' = InChannel \ {Head(taskCh)}
    <3>1. InChannel' \subseteq InChannel \ {Head(taskCh)}
      BY <2>2 DEF InChannel
    <3>2. ASSUME NEW f \in InChannel, f # Head(taskCh) PROVE f \in InChannel'
      <4>1. PICK i \in DOMAIN taskCh : f = taskCh[i]
        BY <3>2 DEF InChannel
      <4> QED
        BY <2>2, <3>2, <4>1 DEF InChannel
    <3> QED
      BY <3>1, <3>2
  <2>4. \A i, j \in DOMAIN taskCh' : taskCh'[i] = taskCh'[j] => i = j
    <3>1. \A i, j \in DOMAIN taskCh' : taskCh'[i] = taskCh'[j] => i + 1 = j + 1
      BY <2>2
    <3> QED
      BY <2>2, <3>1
  <2>5. Head(taskCh) \in InChannel
    BY <2>2 DEF InChannel
  <2>6. \A f \in InChannel' : Allowed(claims', f)
    BY <2>1, <2>3
  <2>7. plan' = "sending" => Allowed(claims', Visiting')
    BY <2>1
  <2>8. /\ InChannel' \cap Sending' = {} /\ InChannel' \cap Taken' = {} /\ Sending' \cap Taken' = {}
        /\ pending' = InChannel' \cup Sending' \cup Taken'
    BY <2>1, <2>3, <2>5
  <2> QED
    BY <2>4, <2>6, <2>7, <2>8
<1>5. CASE HandleTask
  <2>1. /\ UNCHANGED <<claims, taskCh>> /\ pending' = pending \ {hand}
        /\ Sending' = Sending /\ Visiting' = Visiting /\ plan' = plan
        /\ Taken = {hand} /\ Taken' = {}
    BY <1>5, SendingStays DEF HandleTask, GoTo, planner, Taken
  <2>2. InChannel' = InChannel
    BY <2>1 DEF InChannel
  <2> QED
    BY <2>1, <2>2
<1>6. CASE /\ UNCHANGED <<taskCh, pending>> /\ ~ Submit /\ ~ SendTask /\ ~ TakeTask /\ ~ HandleTask
           /\ ~ (\E list \in Lists : Replace(list))
  <2>0. InChannel' = InChannel /\ Taken' = Taken
    BY <1>6, TakenStays DEF InChannel
  <2>1. CASE Check \/ Look
    <3>1. plan # "sending" /\ plan' # "sending" /\ UNCHANGED claims
      BY <2>1, VisitedLeaves DEF Check, Look
    <3>2. Sending = {} /\ Sending' = {}
      BY <3>1 DEF Sending
    <3> QED
      BY <1>6, <2>0, <3>1, <3>2
  <2>2. CASE UNCHANGED <<claims, planner>>
    <3>1. plan' = plan /\ Sending' = Sending /\ Visiting' = Visiting
      BY <2>2, SendingStays DEF planner
    <3> QED
      BY <1>6, <2>0, <2>2, <3>1
  <2> QED
    BY <1>6, <2>1, <2>2, WhoPlans DEF Planning
<1> QED
  BY <1>1, <1>2, <1>3, <1>4, <1>5, <1>6, WhoQueues

LEMMA QueueHolds == Spec => [](TypeInv /\ QueueOK)
<1>1. TypeInv /\ QueueOK /\ UNCHANGED vars => QueueOK'
  BY QueueOKStep
<1> QED
  BY <1>1, QueueStart, QueueOKStep, Typing, PTL DEF Spec

\* No file waits for aria2 twice, and Submit refuses as pending none that is not on its
\* way in, in the channel or on its way out: Submit, run, handleTask and
\* ResetPendingManaged keep pending and the channel in step, whoever runs in between.
THEOREM FilesQueuedOnce == Spec => []QueuedOnce
<1>1. QueueOK => QueuedOnce
  BY DEF QueueOK
<1> QED
  BY <1>1, QueueHolds, PTL

\* Whatever list replaces the claims, and whenever, nothing that waits for aria2 is
\* forbidden by it: apply empties the channel before it plans (Submit, Replace).
THEOREM QueueIsClaimed == Spec => []OnlyClaimedQueued
<1>1. QueueOK => OnlyClaimedQueued
  BY DEF QueueOK
<1> QED
  BY <1>1, QueueHolds, PTL

-----------------------------------------------------------------------------
(* Who has a busy file.                                                    *)

LEMMA WhoMoves ==
  ASSUME [Next]_vars
  PROVE  \/ \E list \in Lists : Replace(list)
         \/ Planning
         \/ Downloading
         \/ \E f \in Files, name \in Names : Verify(f, name) \/ VerifyFails(f, name) \/ Confirm(f, name)
         \/ UNCHANGED <<claims, outcome, flags, maps, planner, loop, dropped, replaces>>
BY DEF Next, vars, count, Reads, Serves, Finishes, Fails, Aria2

GidIn(map, f) == \E k \in Key : k[1] = f /\ map[k] # NoGid
HasGid(f) == GidIn(pathGID, f)

\* As FlagOwned; a finished download is no longer flagged while it is handed over.
OwnedOK ==
  /\ \A f \in qDownload :
       f \in InChannel \/ Planned(f) \/ (hand = f /\ step # "ended") \/ HasGid(f)
  /\ \A f \in qVerify : Verifying(f) \/ Reported(f)

LEMMA OwnedStart == Init => OwnedOK
BY DEF Init, OwnedOK

\* A mark for the verifiers belongs to a task, or to a report.
LEMMA VerifyOwned ==
  ASSUME TypeInv, \A f \in qVerify : Verifying(f) \/ Reported(f), [Next]_vars
  PROVE  \A f \in qVerify' : (Verifying(f) \/ Reported(f))'
<1>0. /\ toVerify \in [Files \X Names -> Nat] /\ toVerify' \in [Files \X Names -> Nat]
      /\ qVerify \subseteq Files
      /\ plan # "idle" => Visiting \in Files
  BY VerifyStep, VisitingIs DEF TypeInv, TypeOK
<1> USE DEF Verifying, Reported
\* One more task for a file.
<1>1. ASSUME NEW f \in Files, NEW name \in Names, qVerify' \subseteq qVerify \cup {f},
             toVerify' = [toVerify EXCEPT ![<<f, name>>] = @ + 1], UNCHANGED reported
      PROVE  \A g \in qVerify' : (Verifying(g) \/ Reported(g))'
  <2>1. <<f, name>> \in Files \X Names /\ toVerify[<<f, name>>] \in Nat
    BY <1>0
  <2>2. toVerify'[<<f, name>>] > 0
    BY <1>0, <1>1, <2>1
  <2>3. ASSUME NEW g \in Files, g # f, NEW other \in Names
        PROVE  toVerify'[<<g, other>>] = toVerify[<<g, other>>]
    BY <1>0, <1>1, <2>3
  <2> QED
    BY <1>0, <1>1, <2>2, <2>3
<1>2. CASE Look \/ SubmitVerify
  <2>1. CASE UNCHANGED <<qVerify, toVerify, reported>>
    BY <2>1
  <2>2. CASE Look /\ ~ UNCHANGED <<qVerify, toVerify, reported>>
    <3>1. \E name \in Names : /\ qVerify' = qVerify \cup {Visiting}
                              /\ toVerify' = [toVerify EXCEPT ![<<Visiting, name>>] = @ + 1]
      BY <2>2 DEF Look, Names
    <3> QED
      BY <1>0, <1>1, <2>2, <3>1 DEF Look
  <2>3. CASE SubmitVerify
    <3>1. hand \in Files /\ "downloading" \in Names
      BY <2>3 DEF SubmitVerify, TypeInv, TypeOK, HandOK, Names
    <3> QED
      BY <1>1, <2>3, <3>1 DEF SubmitVerify
  <2> QED
    BY <1>2, <2>1, <2>2, <2>3
<1>3. ASSUME NEW f \in Files, NEW name \in Names, Verify(f, name) \/ VerifyFails(f, name)
      PROVE  \A g \in qVerify' : (Verifying(g) \/ Reported(g))'
  <2>1. ASSUME NEW g \in Files, g # f, NEW other \in Names
        PROVE  toVerify'[<<g, other>>] = toVerify[<<g, other>>]
    BY <1>0, <1>3, <2>1 DEF Verify, VerifyFails
  <2>2. /\ reported \subseteq reported' /\ qVerify' \subseteq qVerify
        /\ \/ f \notin qVerify'
           \/ <<f, ReportedName(name)>> \in reported' /\ ReportedName(name) \in Names
    BY <1>3 DEF Verify, VerifyFails, ReportedName, Names, flags
  <2> QED
    BY <1>0, <2>1, <2>2
<1>4. ASSUME NEW f \in Files, NEW name \in Names, Confirm(f, name)
      PROVE  \A g \in qVerify' : (Verifying(g) \/ Reported(g))'
  <2>1. /\ qVerify' = qVerify \ {f} /\ UNCHANGED toVerify
        /\ \A g \in Files, other \in Names : g # f /\ <<g, other>> \in reported => <<g, other>> \in reported'
    BY <1>4 DEF Confirm
  <2> QED
    BY <1>0, <2>1
<1>5. CASE UNCHANGED <<qVerify, outcome>>
  BY <1>5 DEF outcome
<1> QED
  BY <1>2, <1>3, <1>4, <1>5, WhoVerifies

\* A file that is pending while none is being sent is in the channel or was just received.
LEMMA WhoIsPending ==
  ASSUME QueueOK, plan # "sending"
  PROVE  \A f \in pending : f \in InChannel \/ (hand = f /\ step = "taken")
BY DEF QueueOK, QueuedOnce, Sending, Taken

\* The planner's part of the files busy with aria2.
LEMMA PlannerOwns ==
  ASSUME TypeInv, QueueOK, OwnedOK,
         Planning \/ \E list \in Lists : Replace(list)
  PROVE  \A f \in qDownload' :
           (f \in InChannel \/ Planned(f) \/ (hand = f /\ step # "ended") \/ HasGid(f))'
<1> USE DEF OwnedOK, Planned, HasGid, GidIn
<1>0. taskCh \in Seq(Files) /\ (plan # "idle" => Visiting \in Files)
  BY VisitingIs DEF TypeInv, TypeOK
<1>1. CASE \E list \in Lists : Replace(list)
  <2>1. /\ qDownload' = qDownload \ InChannel /\ plan = "idle" /\ UNCHANGED <<pathGID, step, hand>>
    BY <1>1 DEF Replace, Drained, InChannel, loop
  <2> QED
    BY <2>1
<1>2. CASE Check
  <2>1. /\ UNCHANGED <<qDownload, taskCh, pathGID, step, hand>> /\ plan = "checking"
    BY <1>2 DEF Check, flags, maps, loop
  <2>2. InChannel' = InChannel
    BY <2>1 DEF InChannel
  <2> QED
    BY <2>1, <2>2
<1>3. CASE Look
  <2>1. /\ UNCHANGED <<taskCh, pathGID, step, hand>> /\ plan = "looking"
        /\ \/ UNCHANGED qDownload
           \/ qDownload' = qDownload \cup {Visiting} /\ plan' = "submitting" /\ UNCHANGED todo
    BY <1>3 DEF Look, maps, loop
  <2>2. InChannel' = InChannel
    BY <2>1 DEF InChannel
  <2>3. todo' = todo => Visiting' = Visiting
    BY DEF Visiting
  <2> QED
    BY <2>1, <2>2, <2>3
<1>4. CASE Submit
  <2>1. /\ UNCHANGED <<taskCh, pathGID, step, hand>> /\ plan = "submitting" /\ qDownload' \subseteq qDownload
        /\ \/ plan' = "sending" /\ UNCHANGED todo
           \/ Visiting \notin qDownload'
           \/ Visiting \in pending \/ pathGID[<<Visiting, "planned">>] # NoGid
    BY <1>4 DEF Submit, loop
  <2>2. InChannel' = InChannel
    BY <2>1 DEF InChannel
  <2>3. todo' = todo => Visiting' = Visiting
    BY DEF Visiting
  <2>4. \/ plan' = "sending" /\ Visiting' = Visiting
        \/ Visiting \notin qDownload'
        \/ Visiting \in InChannel' \/ (hand = Visiting /\ step = "taken") \/ GidIn(pathGID, Visiting)
    <3>1. ASSUME pathGID[<<Visiting, "planned">>] # NoGid PROVE GidIn(pathGID, Visiting)
      <4>1. <<Visiting, "planned">> \in Key
        BY <1>0, <2>1, Markers
      <4> QED
        BY <3>1, <4>1 DEF GidIn
    <3>2. Visiting \in pending => Visiting \in InChannel' \/ (hand = Visiting /\ step = "taken")
      BY <2>1, <2>2, WhoIsPending
    <3> QED
      BY <2>1, <2>3, <3>1, <3>2
  <2> QED
    BY <2>1, <2>2, <2>4
<1>5. CASE SendTask
  <2>1. /\ UNCHANGED <<qDownload, pathGID, step, hand>> /\ plan = "sending" /\ taskCh' = Append(taskCh, Visiting)
    BY <1>5 DEF SendTask, flags, loop
  <2>2. InChannel' = InChannel \cup {Visiting}
    BY <1>0, <2>1, Appends DEF InChannel
  <2> QED
    BY <2>1, <2>2
<1> QED
  BY <1>1, <1>2, <1>3, <1>4, <1>5 DEF Planning

\* What taking a task out leaves in the channel.
LEMMA TaskTaken ==
  ASSUME TypeInv, TakeTask
  PROVE  InChannel \subseteq InChannel' \cup {Head(taskCh)} /\ Head(taskCh) \in Files
<1>1. taskCh \in Seq(Files) /\ taskCh # <<>> /\ taskCh' = Tail(taskCh)
  BY DEF TypeInv, TypeOK, TakeTask
<1>2. /\ 1 \in DOMAIN taskCh /\ Head(taskCh) = taskCh[1] /\ Head(taskCh) \in Files
      /\ \A i \in DOMAIN taskCh : i # 1 => i - 1 \in DOMAIN taskCh' /\ taskCh'[i - 1] = taskCh[i]
  BY <1>1, Tails
<1> QED
  BY <1>2 DEF InChannel

\* Registering takes nobody's gid away, and gives the file in hand one.
LEMMA GidsStay ==
  ASSUME TypeInv, Adopt \/ Added \/ Match
  PROVE  /\ \A f \in Files : HasGid(f) => HasGid(f)'
         /\ qDownload' \ qDownload \subseteq {f \in Files : HasGid(f)'}
         /\ \/ step' = "selecting" /\ Adopt
            \/ step' = "matching" /\ hand' = hand /\ UNCHANGED qDownload
            \/ GidIn(pathGID', hand)
            \/ hand \notin qDownload' /\ hand \in dropped'
<1>0. /\ gidMap \in [Gid -> Key \cup {NoKey}] /\ pathGID \in [Key -> Gid \cup {NoGid}]
      /\ qDownload \subseteq Files
  BY DEF TypeInv, TypeOK
<1>1. ASSUME NEW new, Register(new), DOMAIN new \subseteq Gid, \A g \in DOMAIN new : new[g] \in Key
      PROVE  /\ \A f \in Files : HasGid(f) => HasGid(f)'
             /\ qDownload' \ qDownload \subseteq {f \in Files : HasGid(f)'}
             /\ \A g \in DOMAIN new : GidIn(pathGID', new[g][1])
  <2>1. /\ \A k \in Key : pathGID[k] # NoGid => pathGID'[k] = pathGID[k]
        /\ \A g \in DOMAIN new : pathGID'[new[g]] # NoGid
        /\ \A f \in qDownload' \ qDownload : \E k \in Key : k[1] = f /\ pathGID'[k] # NoGid
        /\ qDownload' \subseteq Files
    BY <1>0, <1>1, Registers
  <2> QED
    BY <1>1, <2>1 DEF HasGid, GidIn
<1>2. CASE UNCHANGED <<gidMap, pathGID>> /\ qDownload' = qDownload \ {hand} /\ dropped' = dropped \cup {hand}
  BY <1>2 DEF HasGid, GidIn
<1>3. CASE UNCHANGED <<gidMap, pathGID, qDownload>>
  <2>1. ASSUME NEW g, Register([h \in {g} |-> <<hand, "planned">>]), g \in Gid, hand \in Files
        PROVE  GidIn(pathGID', hand)
    <3> DEFINE new == [h \in {g} |-> <<hand, "planned">>]
    <3>1. DOMAIN new = {g} /\ new[g] = <<hand, "planned">> /\ new[g] \in Key
      BY <2>1, Markers
    <3>2. Register(new)
      BY <2>1
    <3> HIDE DEF new
    <3> QED
      BY <1>1, <2>1, <3>1, <3>2
  <2>2. ASSUME NEW S \in SUBSET Gid, NEW g \in S, Register([h \in S |-> <<hand, "planned">>]), hand \in Files
        PROVE  GidIn(pathGID', hand)
    <3> DEFINE new == [h \in S |-> <<hand, "planned">>]
    <3>1. DOMAIN new = S /\ new[g] = <<hand, "planned">> /\ \A h \in S : new[h] \in Key
      BY <2>2, Markers
    <3>2. Register(new)
      BY <2>2
    <3> HIDE DEF new
    <3> QED
      BY <1>1, <2>2, <3>1, <3>2
  <2>3. CASE Adopt
    BY <1>3, <2>3 DEF Adopt, HasGid, GidIn, GoTo
  <2>4. CASE Added
    <3>1. hand \in Files
      BY <2>4 DEF Added, HandOK, TypeInv, TypeOK
    <3>2. PICK r \in Results :
            \/ r.kind = "gid" /\ Register([g \in {r.gid} |-> <<hand, "planned">>])
            \/ GoTo("matching", hand)
            \/ GiveUp
      BY <2>4 DEF Added
    <3>3. r \in Answer \cup {Failure}
      BY ResultIs DEF TypeInv
    <3>4. CASE r.kind = "gid" /\ Register([g \in {r.gid} |-> <<hand, "planned">>])
      <4>1. r.gid \in Gid
        BY <3>3, <3>4, ResultKinds
      <4> QED
        BY <1>3, <2>1, <3>1, <3>4, <4>1 DEF HasGid, GidIn
    <3>5. CASE GoTo("matching", hand) \/ GiveUp
      BY <1>3, <3>5 DEF GoTo, GiveUp, Unflagged, HasGid, GidIn
    <3> QED
      BY <3>2, <3>4, <3>5
  <2>5. CASE Match
    <3>1. hand \in Files
      BY <2>5 DEF Match, HandOK, TypeInv, TypeOK
    <3>2. PICK r \in Results :
            \/ /\ r.kind = "jobs" /\ \E g \in r.jobs : g[1] = hand
               /\ Register([g \in {g \in r.jobs : g[1] = hand} |-> <<hand, "planned">>])
            \/ GiveUp
      BY <2>5 DEF Match
    <3>3. r \in Answer \cup {Failure}
      BY ResultIs DEF TypeInv
    <3>4. CASE /\ r.kind = "jobs" /\ \E g \in r.jobs : g[1] = hand
               /\ Register([g \in {g \in r.jobs : g[1] = hand} |-> <<hand, "planned">>])
      <4>1. {g \in r.jobs : g[1] = hand} \in SUBSET Gid
        BY <3>3, <3>4, ResultKinds
      <4> QED
        BY <1>3, <2>2, <3>1, <3>4, <4>1 DEF HasGid, GidIn
    <3>5. CASE GiveUp
      BY <1>3, <3>5 DEF GiveUp, Unflagged, HasGid, GidIn
    <3> QED
      BY <3>2, <3>4, <3>5
  <2> QED
    BY <2>3, <2>4, <2>5
<1>4. ASSUME NEW new, Register(new), DOMAIN new \subseteq Gid, \A g \in DOMAIN new : new[g] \in Key,
             Adopt \/ (DOMAIN new # {} /\ \A g \in DOMAIN new : new[g] = <<hand, "planned">>)
      PROVE  /\ \A f \in Files : HasGid(f) => HasGid(f)'
             /\ qDownload' \ qDownload \subseteq {f \in Files : HasGid(f)'}
             /\ (step' = "selecting" /\ Adopt) \/ GidIn(pathGID', hand)
  BY <1>1, <1>4 DEF Adopt, GoTo
<1> QED
  BY <1>2, <1>3, <1>4, Entries

\* The downloader's part.
LEMMA DownloaderOwns ==
  ASSUME TypeInv, QueueOK, OwnedOK, Downloading
  PROVE  \A f \in qDownload' :
           (f \in InChannel \/ Planned(f) \/ (hand = f /\ step # "ended") \/ HasGid(f))'
<1>0. /\ qDownload \subseteq Files /\ pathGID \in [Key -> Gid \cup {NoGid}]
      /\ HandOK /\ UNCHANGED <<plan, todo>> /\ hand \in Files \cup {NoFile} /\ NoFile \notin Files
  <2>1. UNCHANGED planner
    BY DEF Downloading, Run, Adopt, TakeTask, HandleTask, Added, Match, TakeEvent, SubmitVerify,
           Disconnect, Reconnect, FailToReconnect
  <2> QED
    BY <2>1, Markers DEF planner, TypeInv, TypeOK
<1>1. \A f : Planned(f)' <=> Planned(f)
  BY <1>0 DEF Planned, Visiting
<1>2. CASE TakeTask
  <2>1. /\ UNCHANGED <<qDownload, pathGID>> /\ step = "selecting" /\ step' = "taken" /\ hand' = Head(taskCh)
    BY <1>2 DEF TakeTask, GoTo, flags
  <2>2. hand = NoFile
    BY <1>0, <2>1 DEF HandOK
  <2> QED
    BY <1>0, <1>1, <1>2, <2>1, <2>2, TaskTaken DEF OwnedOK, HasGid, GidIn
<1>3. CASE Adopt \/ Added \/ Match
  <2>1. /\ InChannel' = InChannel
    BY <1>3 DEF Adopt, Added, Match, InChannel
  <2>2. /\ \A f \in Files : HasGid(f) => HasGid(f)'
        /\ qDownload' \ qDownload \subseteq {f \in Files : HasGid(f)'}
        /\ \/ step' = "selecting" /\ Adopt
           \/ step' = "matching" /\ hand' = hand /\ UNCHANGED qDownload
           \/ GidIn(pathGID', hand)
           \/ hand \notin qDownload' /\ hand \in dropped'
    BY <1>3, GidsStay
  <2>3. Adopt => hand = NoFile
    BY <1>0 DEF Adopt, HandOK
  <2> QED
    BY <1>0, <1>1, <2>1, <2>2, <2>3 DEF OwnedOK, HasGid
<1>4. CASE TakeEvent
  <2>1. InChannel' = InChannel /\ hand = NoFile
    BY <1>0, <1>4 DEF TakeEvent, InChannel, HandOK
  <2>2. CASE UNCHANGED <<pathGID, qDownload, loop>>
    BY <1>0, <1>1, <2>1, <2>2 DEF OwnedOK, HasGid, GidIn, loop
  <2>3. ASSUME NEW key \in Key, pathGID' = [pathGID EXCEPT ![key] = NoGid],
               qDownload' = qDownload \ {key[1]}
        PROVE  \A f \in qDownload' :
                 (f \in InChannel \/ Planned(f) \/ (hand = f /\ step # "ended") \/ HasGid(f))'
    <3>1. \A f \in qDownload' : HasGid(f) => HasGid(f)'
      BY <1>0, <2>3 DEF HasGid, GidIn
    <3> QED
      BY <1>0, <1>1, <2>1, <2>3, <3>1 DEF OwnedOK
  <2>4. gidMap[Head(events).gid] \in Key \cup {NoKey}
    BY <1>4, EventGid
  <2> QED
    BY <1>4, <2>2, <2>3, <2>4 DEF TakeEvent
<1>5. CASE HandleTask
  <2>1. UNCHANGED <<qDownload, taskCh, pathGID, hand>> /\ step' = "adding"
    BY <1>5 DEF HandleTask, GoTo, flags
  <2>2. InChannel' = InChannel /\ \A f \in Files : HasGid(f)' <=> HasGid(f)
    BY <2>1 DEF InChannel, HasGid, GidIn
  <2> QED
    BY <1>0, <1>1, <2>1, <2>2 DEF OwnedOK
<1>6. CASE Run \/ SubmitVerify \/ Disconnect \/ Reconnect \/ FailToReconnect
  <2>1. UNCHANGED <<qDownload, taskCh, pathGID>> /\ step \in {"off", "ended", "selecting", "cleaning", "dialling"}
    BY <1>6 DEF Run, SubmitVerify, Disconnect, Reconnect, FailToReconnect, flags, maps
  <2>2. InChannel' = InChannel /\ \A f \in Files : HasGid(f)' <=> HasGid(f)
    BY <2>1 DEF InChannel, HasGid, GidIn
  <2>3. \A f \in Files : ~ (hand = f /\ step # "ended")
    BY <1>0, <2>1 DEF HandOK
  <2> QED
    BY <1>0, <1>1, <2>1, <2>2, <2>3 DEF OwnedOK
<1> QED
  BY <1>2, <1>3, <1>4, <1>5, <1>6 DEF Downloading

LEMMA OwnedStep ==
  ASSUME TypeInv, QueueOK, OwnedOK, [Next]_vars
  PROVE  OwnedOK'
<1>1. \A f \in qVerify' : (Verifying(f) \/ Reported(f))'
  BY VerifyOwned DEF OwnedOK
<1>2. \A f \in qDownload' :
        (f \in InChannel \/ Planned(f) \/ (hand = f /\ step # "ended") \/ HasGid(f))'
  <2>1. ASSUME NEW f \in Files, NEW name \in Names,
               Verify(f, name) \/ VerifyFails(f, name) \/ Confirm(f, name)
        PROVE  UNCHANGED <<taskCh, pathGID, plan, todo, step, hand>> /\ qDownload' \subseteq qDownload
    BY <2>1 DEF Verify, VerifyFails, Confirm, maps, planner, loop, flags
  <2>2. ASSUME UNCHANGED <<claims, outcome, flags, maps, planner, loop, dropped, replaces>>
        PROVE  UNCHANGED <<taskCh, pathGID, plan, todo, step, hand>> /\ qDownload' \subseteq qDownload
    BY <2>2 DEF maps, planner, loop, flags
  <2>3. ASSUME UNCHANGED <<taskCh, pathGID, plan, todo, step, hand>>, qDownload' \subseteq qDownload
        PROVE  \A f \in qDownload' :
                 (f \in InChannel \/ Planned(f) \/ (hand = f /\ step # "ended") \/ HasGid(f))'
    BY <2>3 DEF OwnedOK, InChannel, Planned, Visiting, HasGid, GidIn
  <2> QED
    BY <2>1, <2>2, <2>3, PlannerOwns, DownloaderOwns, WhoMoves
<1> QED
  BY <1>1, <1>2 DEF OwnedOK

LEMMA OwnedHolds == Spec => [](TypeInv /\ ReaderOK /\ CallOK /\ MapsOK /\ QueueOK /\ OwnedOK)
<1> DEFINE Inv == TypeInv /\ QueueOK /\ OwnedOK
<1>1. Init => Inv
  BY TypeStart, QueueStart, OwnedStart
<1>2. Inv /\ [Next]_vars => Inv'
  BY TypeStep, QueueOKStep, OwnedStep
<1> QED
  BY <1>1, <1>2, MapsHold, PTL DEF Spec

\* A file is marked as busy only while it waits, is downloaded, checked or reported,
\* or is just being handed on: no failure, lost connection or new list leaves a mark
\* behind (the flags of fileExt).
THEOREM FlagsAreOwned == Spec => []FlagOwned
<1>1. OwnedOK => FlagOwned
  BY DEF OwnedOK, FlagOwned, HasGid, GidIn
<1> QED
  BY <1>1, OwnedHolds, PTL

-----------------------------------------------------------------------------
(* What is on the disk.                                                    *)

\* A report names the file as it was when it was checked; a second report of the
\* same file may have given it its final name since.
DiskOK ==
  /\ ConfirmedOnDisk
  /\ \A p \in reported : p[2] # "downloading" /\ (p[2] \in disk[p[1]] \/ "final" \in disk[p[1]])

LEMMA DiskStart == Init => DiskOK
<1> SUFFICES ASSUME Init PROVE DiskOK
  OBVIOUS
<1>1. \A f \in Covered(completed) : "final" \in disk[f]
  BY DEF Init
<1> QED
  BY <1>1 DEF Init, DiskOK, ConfirmedOnDisk

\* A file never loses its final name.
LEMMA FinalStays ==
  ASSUME TypeInv, DiskOK, [Next]_vars
  PROVE  \A f \in Files : "final" \in disk[f] => "final" \in disk'[f]
<1>0. disk \in [Files -> SUBSET OnDisk]
  BY DEF TypeInv, TypeOK
<1>1. ASSUME NEW f \in Files, NEW name \in Names, Verify(f, name) \/ Confirm(f, name), NEW g \in Files
      PROVE  "final" \in disk[g] => "final" \in disk'[g]
  BY <1>0, <1>1 DEF Verify, Confirm, ReportedName
<1>2. CASE Serve(Held)
  BY <1>0, <1>2 DEF Serve, ServeAdd, ServeTell
<1>3. CASE \E g \in Gid : EndJob(g, TRUE) \/ EndJob(g, FALSE)
  BY <1>0, <1>3 DEF EndJob
<1> QED
  BY <1>1, <1>2, <1>3, WhoTouchesFiles

\* What was in a report keeps the name, or has the final one.
LEMMA ReportsStay ==
  ASSUME TypeInv, DiskOK, [Next]_vars
  PROVE  \A p \in reported : p[2] \in disk'[p[1]] \/ "final" \in disk'[p[1]]
<1>0. disk \in [Files -> SUBSET OnDisk] /\ reported \subseteq Files \X Names
  BY DEF TypeInv, TypeOK
<1> SUFFICES ASSUME NEW p \in reported PROVE p[2] \in disk'[p[1]] \/ "final" \in disk'[p[1]]
  OBVIOUS
<1>1. p[1] \in Files /\ p[2] # "downloading" /\ (p[2] \in disk[p[1]] \/ "final" \in disk[p[1]])
  BY <1>0 DEF DiskOK
<1>2. CASE "final" \in disk[p[1]]
  BY <1>1, <1>2, FinalStays
<1>3. CASE p[2] \in disk[p[1]]
  <2>1. ASSUME NEW f \in Files, NEW name \in Names, Verify(f, name)
        PROVE  p[2] \in disk'[p[1]]
    BY <1>0, <1>1, <1>3, <2>1 DEF Verify, ReportedName
  <2>2. ASSUME NEW f \in Files, NEW name \in Names, Confirm(f, name)
        PROVE  p[2] \in disk'[p[1]] \/ "final" \in disk'[p[1]]
    BY <1>0, <1>1, <1>3, <2>2 DEF Confirm
  <2>3. CASE Serve(Held)
    BY <1>0, <1>1, <1>3, <2>3 DEF Serve, ServeAdd, ServeTell
  <2>4. CASE \E g \in Gid : EndJob(g, TRUE) \/ EndJob(g, FALSE)
    <3>1. p[2] # "control"
      BY <1>0 DEF Names
    <3> QED
      BY <1>0, <1>1, <1>3, <2>4, <3>1 DEF EndJob
  <2> QED
    BY <1>3, <2>1, <2>2, <2>3, <2>4, WhoTouchesFiles
<1> QED
  BY <1>1, <1>2, <1>3

\* Who records files as done.
LEMMA WhoConfirms ==
  ASSUME [Next]_vars
  PROVE  \/ \E f \in Files, name \in Names : Confirm(f, name)
         \/ UNCHANGED <<completed, confirmed>>
BY DEF Next, vars, count, outcome, flags, maps, planner, loop, Replace, Planning, Check, Look, Submit,
       SendTask, Downloading, Run, Adopt, TakeTask, HandleTask, Added, Match, TakeEvent, SubmitVerify,
       Disconnect, Reconnect, FailToReconnect, Verify, VerifyFails, Reads, Serves, Finishes, Fails, Aria2

\* Confirming a file adds it, and no other, to those known to be done.
LEMMA ConfirmCovers ==
  ASSUME TypeInv, NEW f \in Files, NEW name \in Names, Confirm(f, name)
  PROVE  /\ confirmed' = confirmed \cup {f}
         /\ Covered(completed) \subseteq Covered(completed')
         /\ Covered(completed') \subseteq confirmed' \cup Covered(completed)
<1> DEFINE chain == CompleteChain(f, confirmed', completed)
<1>0. completed \subseteq Dirs /\ confirmed' = confirmed \cup {f} /\ completed' = Pruned(completed, chain)
  BY DEF TypeInv, TypeOK, Confirm
<1>1. chain \subseteq Dirs /\ Covered(chain) \subseteq confirmed' \cup Covered(completed)
  BY ChainCovers
<1> HIDE DEF chain
<1>2. Covered(completed') = Covered(completed \cup chain)
  BY <1>0, <1>1, PrunedCovers
<1>3. Covered(completed \cup chain) = Covered(completed) \cup Covered(chain)
  BY DEF Covered
<1> QED
  BY <1>0, <1>1, <1>2, <1>3

LEMMA DiskOKStep ==
  ASSUME TypeInv, DiskOK, [Next]_vars
  PROVE  DiskOK'
<1>0. /\ disk \in [Files -> SUBSET OnDisk] /\ reported \subseteq Files \X Names
      /\ confirmed \subseteq Files /\ \A dirs : Covered(dirs) \subseteq Files
  BY DEF TypeInv, TypeOK, Covered
<1>1. ConfirmedOnDisk'
  <2>1. \A f \in confirmed \cup Covered(completed) : "final" \in disk'[f]
    BY <1>0, FinalStays DEF DiskOK, ConfirmedOnDisk
  <2>2. ASSUME NEW f \in Files, NEW name \in Names, Confirm(f, name)
        PROVE  \A g \in confirmed' \cup Covered(completed') : "final" \in disk'[g]
    <3>1. confirmed' \cup Covered(completed') \subseteq confirmed \cup {f} \cup Covered(completed)
      BY <2>2, ConfirmCovers
    <3>2. <<f, name>> \in reported /\ name # "downloading"
          /\ (name \in disk[f] \/ "final" \in disk[f])
      BY <2>2 DEF Confirm, DiskOK
    <3>3. "final" \in disk'[f]
      BY <1>0, <2>2, <3>2 DEF Confirm, Names
    <3> QED
      BY <2>1, <3>1, <3>3
  <2>3. ASSUME UNCHANGED <<completed, confirmed>>
        PROVE  \A g \in confirmed' \cup Covered(completed') : "final" \in disk'[g]
    BY <2>1, <2>3
  <2>4. \A g \in confirmed' \cup Covered(completed') : "final" \in disk'[g]
    BY <2>2, <2>3, WhoConfirms
  <2>5. Covered(completed)' = Covered(completed')
    BY DEF Covered
  <2> QED
    BY <2>4, <2>5 DEF ConfirmedOnDisk
<1>2. \A p \in reported' : p[2] # "downloading" /\ (p[2] \in disk'[p[1]] \/ "final" \in disk'[p[1]])
  <2>1. \A p \in reported : p[2] # "downloading" /\ (p[2] \in disk'[p[1]] \/ "final" \in disk'[p[1]])
    BY ReportsStay DEF DiskOK
  <2>2. ASSUME NEW f \in Files, NEW name \in Names, Verify(f, name)
        PROVE  \A p \in reported' : p[2] # "downloading" /\ (p[2] \in disk'[p[1]] \/ "final" \in disk'[p[1]])
    <3>1. reported' = reported \cup {<<f, ReportedName(name)>>} /\ ReportedName(name) \in disk'[f]
      BY <1>0, <2>2 DEF Verify
    <3>2. ReportedName(name) # "downloading"
      BY DEF ReportedName
    <3> QED
      BY <2>1, <3>1, <3>2
  <2>3. (\E f \in Files, name \in Names : Verify(f, name)) \/ reported' \subseteq reported
    BY WhoVerifies DEF Look, SubmitVerify, VerifyFails, Confirm, outcome
  <2> QED
    BY <2>1, <2>2, <2>3
<1> QED
  BY <1>1, <1>2 DEF DiskOK

LEMMA DiskHolds == Spec => [](TypeInv /\ DiskOK)
<1>1. TypeInv /\ DiskOK /\ UNCHANGED vars => DiskOK'
  BY DiskOKStep
<1> QED
  BY <1>1, DiskStart, DiskOKStep, Typing, PTL DEF Spec

\* What counts as confirmed, file by file or as part of a directory recorded as
\* complete, exists under its final name, however often the file was reported and
\* whatever became of its downloads (verify.go, PushVerified, confirmManagedFile).
THEOREM ConfirmedExists == Spec => []ConfirmedOnDisk
<1>1. DiskOK => ConfirmedOnDisk
  BY DEF DiskOK
<1> QED
  BY <1>1, DiskHolds, PTL

-----------------------------------------------------------------------------
(* Nothing claimed is forgotten.                                           *)

InHand(f) ==
  \/ f \in confirmed \cup Covered(completed) \cup dropped
  \/ f \in InChannel \/ hand = f \/ HasGid(f) \/ Verifying(f) \/ Reported(f)

\* The claimed files the walk has behind it are done, given up, or in somebody's hands.
PlanOK == \A f \in Files : Allowed(claims, f) => f \in todo \/ InHand(f)

\* Every claimed file is on the plan, or in a directory that is complete.
LEMMA PlanReaches ==
  ASSUME NEW list, NEW dirs, NEW f \in Files, Allowed(list, f)
  PROVE  f \in Walked(list, dirs) \/ f \in Covered(dirs)
BY DEF Allowed, Walked, Covered, Below

LEMMA PlanStart == Init => PlanOK
BY PlanReaches DEF Init, PlanOK, InHand, Plan

\* A busy file is in somebody's hands, unless it is the one just planned.
LEMMA BusyInHand ==
  ASSUME TypeInv, OwnedOK, plan \notin {"submitting", "sending"},
         NEW f \in Files, BusyOrConfirmed(f)
  PROVE  InHand(f)
BY DEF BusyOrConfirmed, OwnedOK, InHand, Planned

\* The walk.
LEMMA PlannerKeeps ==
  ASSUME TypeInv, QueueOK, OwnedOK, PlanOK, [Next]_vars,
         Planning \/ \E list \in Lists : Replace(list)
  PROVE  PlanOK'
<1>0. /\ taskCh \in Seq(Files) /\ toVerify \in [Files \X Names -> Nat]
      /\ (plan = "idle" <=> todo = {}) /\ (plan # "idle" => Visiting \in Files)
  BY VisitingIs DEF TypeInv, TypeOK
<1>1. ASSUME NEW list \in Lists, Replace(list) PROVE PlanOK'
  <2>1. claims' = list /\ todo' = Walked(list, completed) /\ UNCHANGED completed
    BY <1>1 DEF Replace, outcome, Plan
  <2>2. \A f \in Files : Allowed(list, f) => f \in todo' \/ f \in Covered(completed')
    BY <2>1, PlanReaches
  <2>3. Covered(completed)' = Covered(completed')
    BY DEF Covered
  <2> QED
    BY <2>1, <2>2, <2>3 DEF PlanOK, InHand
\* A step that leaves the file it visits in somebody's hands.
<1>2. ASSUME UNCHANGED <<claims, completed, confirmed, dropped, hand, pathGID, reported>>,
             InChannel \subseteq InChannel', \A f \in Files : Verifying(f) => Verifying(f)',
             \A f \in todo : f \in todo' \/ (Allowed(claims, f) => InHand(f)')
      PROVE  PlanOK'
  <2>1. \A f \in Files : InHand(f) => InHand(f)'
    BY <1>2 DEF InHand, HasGid, Reported
  <2>2. \A f \in Files : Allowed(claims, f)' <=> Allowed(claims, f)
    BY <1>2
  <2> QED
    BY <1>2, <2>1, <2>2 DEF PlanOK
<1>3. CASE Check
  <2>1. /\ UNCHANGED <<claims, completed, confirmed, dropped, hand, pathGID, reported, taskCh, toVerify>>
        /\ plan = "checking"
    BY <1>3 DEF Check, outcome, maps, loop
  <2>2. InChannel' = InChannel /\ \A f \in Files : Verifying(f)' <=> Verifying(f)
    BY <2>1 DEF InChannel, Verifying
  <2>3. \A f \in todo : f \in todo' \/ (f = Visiting /\ BusyOrConfirmed(f))
    BY <1>3 DEF Check, Visited
  <2>4. \A f \in Files : InHand(f) => InHand(f)'
    BY <2>1, <2>2 DEF InHand, HasGid, Reported
  <2> QED
    BY <1>0, <1>2, <2>1, <2>2, <2>3, <2>4, BusyInHand
<1>4. CASE Look
  <2>1. /\ UNCHANGED <<claims, completed, confirmed, dropped, hand, pathGID, reported, taskCh>>
        /\ plan = "looking"
    BY <1>4 DEF Look, outcome, maps, loop
  <2>2. InChannel' = InChannel
    BY <2>1 DEF InChannel
  <2>3. CASE UNCHANGED <<toVerify, todo>>
    <3>1. \A f \in Files : Verifying(f)' <=> Verifying(f)
      BY <2>3 DEF Verifying
    <3> QED
      BY <1>2, <2>1, <2>2, <2>3, <3>1
  <2>4. ASSUME NEW name \in Names, toVerify' = [toVerify EXCEPT ![<<Visiting, name>>] = @ + 1], Visited
        PROVE  PlanOK'
    <3>1. Visiting \in Files /\ <<Visiting, name>> \in Files \X Names
      BY <1>0, <2>1
    <3>2. \A k \in Files \X Names : toVerify'[k] = IF k = <<Visiting, name>> THEN toVerify[k] + 1 ELSE toVerify[k]
      BY <1>0, <2>4
    <3>3. \A k \in Files \X Names : toVerify[k] \in Nat
      BY <1>0
    <3>4. \A f \in Files : Verifying(f) => Verifying(f)'
      BY <3>2, <3>3 DEF Verifying
    <3>5. toVerify'[<<Visiting, name>>] > 0
      BY <3>1, <3>2, <3>3
    <3>6. ASSUME NEW f, f = Visiting PROVE InHand(f)'
      BY <3>5, <3>6 DEF InHand, Verifying
    <3>7. \A f \in todo : f \in todo' \/ f = Visiting
      BY <2>4 DEF Visited
    <3> QED
      BY <1>2, <2>1, <2>2, <3>4, <3>6, <3>7
  <2> QED
    BY <1>4, <2>3, <2>4 DEF Look, Names
<1>5. CASE Submit
  <2>1. /\ UNCHANGED <<claims, completed, confirmed, dropped, hand, pathGID, reported, taskCh, toVerify>>
        /\ plan = "submitting"
    BY <1>5 DEF Submit, outcome, loop
  <2>2. InChannel' = InChannel /\ \A f \in Files : Verifying(f)' <=> Verifying(f)
    BY <2>1 DEF InChannel, Verifying
  <2>3. \A f \in pending : f \in InChannel \/ hand = f
    BY <2>1, WhoIsPending
  <2>4. \A f \in todo : \/ f \in todo'
                        \/ /\ f = Visiting
                           /\ Allowed(claims, f) => f \in pending \/ pathGID[<<f, "planned">>] # NoGid
    BY <1>5 DEF Submit, Visited
  <2>5. \A f \in Files : f \in pending \/ pathGID[<<f, "planned">>] # NoGid => InHand(f)
    BY <2>3, Markers DEF InHand, HasGid, GidIn
  <2>6. \A f \in Files : InHand(f) => InHand(f)'
    BY <2>1, <2>2 DEF InHand, HasGid, Reported
  <2> QED
    BY <1>0, <1>2, <2>1, <2>2, <2>4, <2>5, <2>6
<1>6. CASE SendTask
  <2>1. /\ UNCHANGED <<claims, completed, confirmed, dropped, hand, pathGID, reported, toVerify>>
        /\ taskCh' = Append(taskCh, Visiting)
    BY <1>6 DEF SendTask, outcome, loop
  <2>2. InChannel' = InChannel \cup {Visiting}
    BY <1>0, <2>1, Appends DEF InChannel
  <2>3. \A f \in Files : Verifying(f)' <=> Verifying(f)
    BY <2>1 DEF Verifying
  <2>4. \A f \in todo : f \in todo' \/ f = Visiting
    BY <1>6 DEF SendTask, Visited
  <2>5. \A f \in InChannel' : InHand(f)'
    BY DEF InHand
  <2> QED
    BY <1>2, <2>1, <2>2, <2>3, <2>4, <2>5
<1> QED
  BY <1>1, <1>3, <1>4, <1>5, <1>6 DEF Planning

\* Whoever else has a file in his hands passes it on, or it is done or given up.
LEMMA DownloaderKeeps ==
  ASSUME TypeInv, Downloading, NEW f \in Files, InHand(f)
  PROVE  InHand(f)'
<1>0. /\ pathGID \in [Key -> Gid \cup {NoGid}] /\ toVerify \in [Files \X Names -> Nat]
      /\ HandOK /\ hand \in Files \cup {NoFile} /\ NoFile \notin Files
  BY Markers DEF TypeInv, TypeOK
<1>1. UNCHANGED <<completed, confirmed, reported>> /\ dropped \subseteq dropped'
  BY DEF Downloading, Run, Adopt, TakeTask, HandleTask, Added, Match, TakeEvent, SubmitVerify,
         Disconnect, Reconnect, FailToReconnect, outcome, GiveUp
<1>2. Covered(completed)' = Covered(completed)
  BY <1>1 DEF Covered
<1>3. CASE TakeTask
  <2>1. /\ UNCHANGED <<pathGID, toVerify>> /\ step = "selecting" /\ hand' = Head(taskCh)
    BY <1>3 DEF TakeTask, GoTo, outcome
  <2>2. hand = NoFile
    BY <1>0, <2>1 DEF HandOK
  <2> QED
    BY <1>0, <1>1, <1>2, <1>3, <2>1, <2>2, TaskTaken DEF InHand, HasGid, Verifying, Reported
<1>4. CASE Adopt \/ Added \/ Match
  <2>1. InChannel' = InChannel /\ UNCHANGED toVerify
    BY <1>4 DEF Adopt, Added, Match, InChannel, outcome
  <2>2. /\ HasGid(f) => HasGid(f)'
        /\ \/ step' = "selecting" /\ Adopt
           \/ step' = "matching" /\ hand' = hand /\ UNCHANGED qDownload
           \/ GidIn(pathGID', hand)
           \/ hand \notin qDownload' /\ hand \in dropped'
    BY <1>4, GidsStay
  <2>3. Adopt => hand = NoFile
    BY <1>0 DEF Adopt, HandOK
  <2> QED
    BY <1>0, <1>1, <1>2, <2>1, <2>2, <2>3 DEF InHand, HasGid, Verifying, Reported
<1>5. CASE TakeEvent
  <2>1. InChannel' = InChannel /\ hand = NoFile /\ UNCHANGED toVerify
    BY <1>0, <1>5 DEF TakeEvent, InChannel, HandOK, outcome
  <2>2. CASE UNCHANGED <<pathGID, loop>>
    BY <1>1, <1>2, <2>1, <2>2 DEF InHand, HasGid, loop, Verifying, Reported
  <2>3. ASSUME NEW key \in Key, pathGID' = [pathGID EXCEPT ![key] = NoGid],
               hand' = key[1] \/ key[1] \in dropped'
        PROVE  InHand(f)'
    <3>1. HasGid(f) => HasGid(f)' \/ f = key[1]
      BY <1>0, <2>3 DEF HasGid, GidIn
    <3> QED
      BY <1>0, <1>1, <1>2, <2>1, <2>3, <3>1 DEF InHand, Verifying, Reported
  <2>4. gidMap[Head(events).gid] \in Key \cup {NoKey}
    BY <1>5, EventGid
  <2> QED
    BY <1>5, <2>2, <2>3, <2>4 DEF TakeEvent, GoTo
<1>6. CASE SubmitVerify
  <2>1. /\ UNCHANGED <<taskCh, pathGID>> /\ hand \in Files
        /\ toVerify' = [toVerify EXCEPT ![<<hand, "downloading">>] = @ + 1]
    BY <1>0, <1>6 DEF SubmitVerify, maps, HandOK
  <2>2. <<hand, "downloading">> \in Files \X Names /\ \A k \in Files \X Names : toVerify[k] \in Nat
    BY <1>0, <2>1 DEF Names
  <2>3. \A k \in Files \X Names :
          toVerify'[k] = IF k = <<hand, "downloading">> THEN toVerify[k] + 1 ELSE toVerify[k]
    BY <1>0, <2>1
  <2>4. toVerify'[<<hand, "downloading">>] > 0
    BY <2>2, <2>3
  <2>5. \A g \in Files : Verifying(g) => Verifying(g)'
    BY <2>2, <2>3 DEF Verifying
  <2>6. f = hand => Verifying(f)'
    BY <2>4 DEF Verifying, Names
  <2>7. InChannel' = InChannel /\ (HasGid(f)' <=> HasGid(f)) /\ (Reported(f)' <=> Reported(f))
    BY <1>1, <2>1 DEF InChannel, HasGid, Reported
  <2> QED
    BY <1>1, <1>2, <2>5, <2>6, <2>7 DEF InHand
<1>7. CASE HandleTask
  <2>1. UNCHANGED <<taskCh, pathGID, toVerify, hand>>
    BY <1>7 DEF HandleTask, GoTo, outcome
  <2>2. InChannel' = InChannel
    BY <2>1 DEF InChannel
  <2> QED
    BY <1>1, <1>2, <2>1, <2>2 DEF InHand, HasGid, Verifying, Reported
<1>8. CASE Run \/ Disconnect \/ Reconnect \/ FailToReconnect
  <2>1. UNCHANGED <<taskCh, pathGID, toVerify>> /\ step \in {"off", "selecting", "cleaning", "dialling"}
    BY <1>8 DEF Run, Disconnect, Reconnect, FailToReconnect, outcome, maps
  <2>2. InChannel' = InChannel /\ hand # f
    BY <1>0, <2>1 DEF InChannel, HandOK
  <2> QED
    BY <1>1, <1>2, <2>1, <2>2 DEF InHand, HasGid, Verifying, Reported
<1> QED
  BY <1>3, <1>4, <1>5, <1>6, <1>7, <1>8 DEF Downloading

LEMMA CheckerKeeps ==
  ASSUME TypeInv, NEW g \in Files, NEW name \in Names,
         Verify(g, name) \/ VerifyFails(g, name) \/ Confirm(g, name),
         NEW f \in Files, InHand(f)
  PROVE  InHand(f)'
<1>0. toVerify \in [Files \X Names -> Nat]
  BY DEF TypeInv, TypeOK
<1>1. UNCHANGED <<taskCh, pathGID, hand>>
  BY DEF Verify, VerifyFails, Confirm, maps, loop
<1>2. InChannel' = InChannel /\ (HasGid(f)' <=> HasGid(f))
  BY <1>1 DEF InChannel, HasGid
<1>3. CASE Verify(g, name)
  <2>1. /\ UNCHANGED <<completed, confirmed, dropped>>
        /\ reported \subseteq reported' /\ <<g, ReportedName(name)>> \in reported'
        /\ ReportedName(name) \in Names
        /\ f # g => (Verifying(f)' <=> Verifying(f))
    BY <1>0, <1>3 DEF Verify, ReportedName, Names, Verifying
  <2>2. Covered(completed)' = Covered(completed)
    BY <2>1 DEF Covered
  <2>3. Reported(f) \/ f = g => Reported(f)'
    BY <2>1 DEF Reported
  <2> QED
    BY <1>1, <1>2, <2>1, <2>2, <2>3 DEF InHand
<1>4. CASE VerifyFails(g, name)
  <2>1. /\ UNCHANGED <<completed, confirmed, reported>> /\ dropped' = dropped \cup {g}
        /\ f # g => (Verifying(f)' <=> Verifying(f))
    BY <1>0, <1>4 DEF VerifyFails, Verifying
  <2>2. Covered(completed)' = Covered(completed) /\ (Reported(f)' <=> Reported(f))
    BY <2>1 DEF Covered, Reported
  <2> QED
    BY <1>1, <1>2, <2>1, <2>2 DEF InHand
<1>5. CASE Confirm(g, name)
  <2>1. /\ confirmed' = confirmed \cup {g} /\ Covered(completed) \subseteq Covered(completed')
    BY <1>5, ConfirmCovers
  <2>2. /\ UNCHANGED <<dropped, toVerify>> /\ reported' = reported \ {<<g, name>>}
    BY <1>5 DEF Confirm
  <2>3. (f # g => (Reported(f)' <=> Reported(f))) /\ (Verifying(f)' <=> Verifying(f))
    BY <2>2 DEF Reported, Verifying
  <2>4. Covered(completed)' = Covered(completed')
    BY DEF Covered
  <2> QED
    BY <1>1, <1>2, <2>1, <2>2, <2>3, <2>4 DEF InHand
<1> QED
  BY <1>3, <1>4, <1>5

LEMMA PlanOKStep ==
  ASSUME TypeInv, QueueOK, OwnedOK, PlanOK, [Next]_vars
  PROVE  PlanOK'
<1>1. ASSUME UNCHANGED <<claims, todo>>, \A f \in Files : InHand(f) => InHand(f)'
      PROVE  PlanOK'
  BY <1>1 DEF PlanOK
<1>2. CASE Downloading
  <2>1. UNCHANGED <<claims, todo>>
    BY <1>2 DEF Downloading, Run, Adopt, TakeTask, HandleTask, Added, Match, TakeEvent, SubmitVerify,
                Disconnect, Reconnect, FailToReconnect, planner
  <2> QED
    BY <1>1, <1>2, <2>1, DownloaderKeeps
<1>3. ASSUME NEW g \in Files, NEW name \in Names, Verify(g, name) \/ VerifyFails(g, name) \/ Confirm(g, name)
      PROVE  PlanOK'
  <2>1. UNCHANGED <<claims, todo>>
    BY <1>3 DEF Verify, VerifyFails, Confirm, planner
  <2> QED
    BY <1>1, <1>3, <2>1, CheckerKeeps
<1>4. CASE UNCHANGED <<claims, outcome, flags, maps, planner, loop, dropped, replaces>>
  <2>1. \A f \in Files : InHand(f) => InHand(f)'
    BY <1>4 DEF outcome, maps, loop, InHand, Covered, InChannel, HasGid, Verifying, Reported
  <2> QED
    BY <1>1, <1>4, <2>1 DEF planner
<1> QED
  BY <1>2, <1>3, <1>4, PlannerKeeps, WhoMoves

\* Once a plan is made, and until the next, every claimed file is confirmed, recorded
\* in a complete directory, given up after a failure, or somebody has it, when aria2
\* spells paths as the downloader does (planFile and everything after it).
THEOREM ClaimsInHand ==
  ASSUME Absolute = TRUE
  PROVE  Spec => []ClaimedInHand
<1>1. TypeInv /\ MapsOK /\ PlanOK => ClaimedInHand
  <2> SUFFICES ASSUME TypeInv, MapsOK, PlanOK, plan = "idle", NEW f \in Files, Allowed(claims, f)
               PROVE  \/ f \in confirmed \cup Covered(completed) \cup dropped
                      \/ f \in InChannel \/ hand = f \/ Registered(f) \/ Verifying(f) \/ Reported(f)
    BY DEF ClaimedInHand
  <2>1. InHand(f)
    BY DEF PlanOK, TypeInv, TypeOK
  <2>2. ASSUME HasGid(f) PROVE Registered(f)
    <3>1. PICK k \in Key : k[1] = f /\ pathGID[k] # NoGid
      BY <2>2 DEF HasGid, GidIn
    <3>2. pathGID[k] \in Gid /\ gidMap[pathGID[k]] = k
      BY <3>1 DEF MapsOK, TypeInv, TypeOK
    <3> QED
      BY <3>1, <3>2 DEF Registered, Key
  <2> QED
    BY <2>1, <2>2 DEF InHand
<1> DEFINE Inv == TypeInv /\ QueueOK /\ OwnedOK /\ PlanOK
<1>2. Init => Inv
  BY TypeStart, QueueStart, OwnedStart, PlanStart
<1>3. Inv /\ [Next]_vars => Inv'
  BY TypeStep, QueueOKStep, OwnedStep, PlanOKStep
<1>4. Spec => []Inv
  BY <1>2, <1>3, PTL DEF Spec
<1> QED
  BY <1>1, <1>4, MapsHold, PTL

\* No list a worker holds is read in different ways by the planner, the check of one
\* task and the server's statistics (walkDir, evaluateDir, recomputeClaimedStatsLocked).
THEOREM ListsAreRead == Spec => []ListsAgree
<1>1. TypeInv => ListsAgree
  BY NothingDisputed DEF ListsAgree
<1> QED
  BY <1>1, Typing, PTL

-----------------------------------------------------------------------------
(* Nobody waits for anybody who waits for him.                             *)

\* While the cached claims are planned there is something left to plan.
StartOK == starting = TRUE => plan # "idle"

LEMMA StartStart == Init => StartOK
BY DEF Init, StartOK

LEMMA StartStep ==
  ASSUME TypeInv, StartOK, [Next]_vars
  PROVE  StartOK'
<1>0. plan = "idle" <=> todo = {}
  BY DEF TypeInv, TypeOK
<1>1. CASE \E list \in Lists : Replace(list)
  BY <1>1 DEF Replace, StartOK
<1>2. CASE Planning
  <2>1. Visited \/ plan' \in {"looking", "submitting", "sending"}
    BY <1>2 DEF Planning, Check, Look, Submit, SendTask
  <2> QED
    BY <2>1 DEF Visited, StartOK
<1>3. CASE UNCHANGED <<claims, planner, replaces>>
  BY <1>3 DEF planner, StartOK
<1> QED
  BY <1>1, <1>2, <1>3, WhoPlans

\* On a connection that is open a call waits for something: its request is on the
\* way to aria2, or its answer is on the way back.
AnsweredOK ==
  calling # NoRequest /\ conn = "open" =>
    request # NoRequest \/ answer # NoAnswer \/ \E i \in DOMAIN wire : wire[i] \in Answer

LEMMA AnsweredStart == Init => AnsweredOK
BY DEF Init, ClientInit, AnsweredOK

\* What is on the wire stays there when something is added.
LEMMA ReplyKeeps ==
  ASSUME TypeInv, NEW m, Reply(m)
  PROVE  /\ \A i \in DOMAIN wire : i \in DOMAIN wire' /\ wire'[i] = wire[i]
         /\ conn = "open" => \E i \in DOMAIN wire' : wire'[i] = m
         /\ conn # "open" => wire' = wire
         /\ \A i \in DOMAIN wire' : wire'[i] = m \/ (i \in DOMAIN wire /\ wire'[i] = wire[i])
<1>0. wire \in Seq(Answer \cup Event)
  BY DEF TypeInv, TypeOK
<1>1. CASE conn = "open" /\ wire' = Append(wire, m)
  <2>1. /\ DOMAIN wire' = DOMAIN wire \cup {Len(wire) + 1}
        /\ wire'[Len(wire) + 1] = m /\ \A i \in DOMAIN wire : wire'[i] = wire[i]
    BY <1>0, <1>1, Appends
  <2> QED
    BY <1>1, <2>1
<1>2. CASE conn # "open" /\ wire' = wire
  BY <1>2
<1> QED
  BY <1>1, <1>2 DEF Reply

\* What aria2 answers.
LEMMA ServeReplies ==
  ASSUME TypeInv, Serve(Held)
  PROVE  /\ request # NoRequest
         /\ \E m \in Answer :
              /\ Reply(m)
              /\ m.kind = "gid" => m.gid \in jobs'
              /\ m.kind = "jobs" => m.jobs = jobs
         /\ jobs \subseteq jobs'
         /\ \A g \in jobs' : g \in jobs \/ "downloading" \in disk'[g[1]]
<1>0. request \in Request \cup {NoRequest} /\ jobs \subseteq Gid /\ disk \in [Files -> SUBSET OnDisk]
  BY DEF TypeInv, TypeOK
<1>1. CASE ServeAdd(Held)
  <2>1. request # NoRequest /\ request.file \in Files
    BY <1>0, <1>1, MessageKinds DEF ServeAdd, Request
  <2>2. CASE Reply(Duplicate) /\ UNCHANGED <<jobs, disk>>
    <3>1. Duplicate \in Answer /\ Duplicate.kind = "duplicate"
      BY DEF Answer, Duplicate
    <3> QED
      BY <2>1, <2>2, <3>1
  <2>3. ASSUME NEW n \in 1 .. Copies, jobs' = jobs \cup {<<request.file, n>>},
               disk' = [disk EXCEPT ![request.file] = @ \cup {"downloading", "control"}],
               Reply([kind |-> "gid", gid |-> <<request.file, n>>])
        PROVE  /\ \E m \in Answer :
                    /\ Reply(m)
                    /\ m.kind = "gid" => m.gid \in jobs'
                    /\ m.kind = "jobs" => m.jobs = jobs
               /\ \A g \in jobs' : g \in jobs \/ "downloading" \in disk'[g[1]]
    <3> DEFINE m == [kind |-> "gid", gid |-> <<request.file, n>>]
    <3>1. m \in Answer /\ m.kind = "gid" /\ m.gid \in jobs'
      BY <2>1, <2>3 DEF Answer, Gid
    <3>2. "downloading" \in disk'[request.file]
      BY <1>0, <2>1, <2>3
    <3> QED
      BY <2>3, <3>1, <3>2
  <2> QED
    BY <1>1, <2>1, <2>2, <2>3 DEF ServeAdd
<1>2. CASE ServeTell
  <2>1. request # NoRequest
    BY <1>2, MessageKinds DEF ServeTell
  <2>2. [kind |-> "jobs", jobs |-> jobs] \in Answer
    BY <1>0 DEF Answer
  <2> QED
    BY <1>2, <2>1, <2>2 DEF ServeTell
<1> QED
  BY <1>1, <1>2 DEF Serve

LEMMA AnsweredStep ==
  ASSUME TypeInv, ReaderOK, CallOK, AnsweredOK, [Next]_vars
  PROVE  AnsweredOK'
<1>0. /\ wire \in Seq(Answer \cup Event) /\ Answer \cap Event = {}
  BY MessageKinds DEF TypeInv, TypeOK
<1>1. CASE ReadAnswer
  <2>1. answer' # NoAnswer
    BY <1>1, MessageKinds DEF ReadAnswer
  <2> QED
    BY <2>1 DEF AnsweredOK
<1>2. CASE ReadEvent
  <2>1. /\ wire # <<>> /\ wire' = Tail(wire) /\ Head(wire) \notin Answer
        /\ UNCHANGED <<conn, request, calling, answer>>
    BY <1>0, <1>2 DEF ReadEvent
  <2>2. /\ Head(wire) = wire[1]
        /\ \A i \in DOMAIN wire : i # 1 => i - 1 \in DOMAIN Tail(wire) /\ Tail(wire)[i - 1] = wire[i]
    BY <1>0, <2>1, Tails
  <2>3. (\E i \in DOMAIN wire : wire[i] \in Answer) => \E i \in DOMAIN wire' : wire'[i] \in Answer
    BY <2>1, <2>2
  <2> QED
    BY <2>1, <2>3 DEF AnsweredOK
<1>3. CASE PutEvent \/ ReadError
  BY <1>3 DEF PutEvent, ReadError, net, AnsweredOK
<1>4. CASE Serve(Held)
  <2>1. PICK m \in Answer : Reply(m)
    BY <1>4, ServeReplies
  <2>2. UNCHANGED conn
    BY <1>4 DEF Serve
  <2> QED
    BY <2>1, <2>2, ReplyKeeps DEF AnsweredOK
<1>5. ASSUME NEW g \in Gid, NEW success \in BOOLEAN, EndJob(g, success) PROVE AnsweredOK'
  <2>1. UNCHANGED <<conn, request, calling, answer>>
    BY <1>5 DEF EndJob, client
  <2>2. \A i \in DOMAIN wire : i \in DOMAIN wire' /\ wire'[i] = wire[i]
    BY <1>5, ReplyKeeps DEF EndJob
  <2> QED
    BY <2>1, <2>2 DEF AnsweredOK
<1>6. CASE Break \/ Exit \/ Start \/ UNCHANGED <<up, jobs, net, client, lost>>
  BY <1>6 DEF Break, Exit, Start, net, client, AnsweredOK
<1>7. CASE Downloading
  <2>1. CASE \E r \in Request : Call(r) \/ DialOk(r)
    <3>1. NoRequest \notin Request
      BY MessageKinds DEF Request
    <3> QED
      BY <2>1, <3>1 DEF Call, DialOk, AnsweredOK
  <2>2. CASE Return \/ Cleanup
    BY <2>2 DEF Return, Cleanup, AnsweredOK
  <2>3. CASE DialFail \/ UNCHANGED aria2Client
    BY <2>3 DEF DialFail, net, aria2Client, client, AnsweredOK
  <2>4. CASE UNCHANGED <<aria2, net, reader, done, calling, answer, failures, lost>>
    BY <2>4 DEF net, AnsweredOK
  <2> QED
    BY <1>7, <2>1, <2>2, <2>3, <2>4, DownloaderTalks
<1> QED
  BY <1>1, <1>2, <1>3, <1>4, <1>5, <1>6, <1>7, WhoTalks DEF Read

\* A download the client still hears of: it runs, or its end is announced.
Underway(g) ==
  \/ g \in jobs
  \/ \E i \in DOMAIN wire : wire[i] \in Event /\ wire[i].gid = g
  \/ reader \in Event /\ reader.gid = g
  \/ \E i \in DOMAIN events : events[i].gid = g

LEMMA NoEvents == Off \notin Event /\ Idle \notin Event
BY DEF Off, Idle, Event

LEMMA LostStays ==
  ASSUME [Next]_vars, lost = TRUE
  PROVE  lost' = TRUE
<1>1. CASE Downloading
  BY <1>1 DEF Downloading, Run, Adopt, TakeTask, HandleTask, Added, Match, TakeEvent, SubmitVerify,
       Disconnect, Reconnect, FailToReconnect, Call, Return, Cleanup, DialOk, DialFail, aria2Client
<1>2. CASE ~Downloading
  BY <1>2, WhoTalks DEF Read, ReadAnswer, ReadEvent, PutEvent, ReadError, Serve, EndJob, Break, Exit, Start
<1> QED
  BY <1>1, <1>2

\* What the downloader leaves alone.
LEMMA DownloaderLeaves ==
  ASSUME Downloading
  PROVE  \/ Reconnect
         \/ TakeEvent
         \/ UNCHANGED <<jobs, wire, reader, events>>
<1> USE DEF aria2, net, client, aria2Client
<1>1. Run \/ HandleTask => UNCHANGED <<jobs, wire, reader, events>>
  BY DEF Run, HandleTask, Call
<1>2. Adopt \/ Added \/ Match => UNCHANGED <<jobs, wire, reader, events>>
  BY DEF Adopt, Added, Match, Call, Return
<1>3. TakeTask \/ SubmitVerify \/ Disconnect \/ FailToReconnect => UNCHANGED <<jobs, wire, reader, events>>
  BY DEF TakeTask, SubmitVerify, Disconnect, FailToReconnect, Cleanup, DialFail
<1> QED
  BY <1>1, <1>2, <1>3 DEF Downloading

\* Until the downloader takes the event of its end, or a notification is lost, the
\* client hears of a download.
LEMMA UnderwayStays ==
  ASSUME TypeInv, ReaderOK, [Next]_vars, lost' # TRUE, NEW g \in Gid, Underway(g)
  PROVE  Underway(g)' \/ (TakeEvent /\ g = Head(events).gid)
<1>0. /\ wire \in Seq(Answer \cup Event) /\ Answer \cap Event = {} /\ events \in Seq(Event)
      /\ reader \in Event \cup {Idle, Off} /\ Off \notin Event /\ Idle \notin Event
  BY MessageKinds, NoEvents DEF TypeInv, TypeOK
<1>1. CASE ReadAnswer \/ ReadEvent
  <2>1. wire # <<>> /\ wire' = Tail(wire) /\ reader = Idle /\ UNCHANGED <<jobs, events>>
    BY <1>1 DEF ReadAnswer, ReadEvent, aria2
  <2>2. /\ Head(wire) = wire[1]
        /\ \A i \in DOMAIN wire : i # 1 => i - 1 \in DOMAIN wire' /\ wire'[i - 1] = wire[i]
    BY <1>0, <2>1, Tails
  <2>3. ASSUME NEW i \in DOMAIN wire, wire[i] \in Event, wire[i].gid = g PROVE Underway(g)'
    <3>1. CASE i = 1
      BY <1>0, <1>1, <2>2, <2>3, <3>1 DEF ReadAnswer, ReadEvent, Underway
    <3>2. CASE i # 1
      BY <2>2, <2>3, <3>2 DEF Underway
    <3> QED
      BY <3>1, <3>2
  <2> QED
    BY <1>0, <2>1, <2>3 DEF Underway
<1>2. CASE PutEvent
  <2>1. reader \in Event /\ events' = Append(events, reader) /\ UNCHANGED <<jobs, wire>>
    BY <1>2 DEF PutEvent, aria2, net
  <2>2. /\ DOMAIN events' = DOMAIN events \cup {Len(events) + 1}
        /\ events'[Len(events) + 1] = reader /\ \A i \in DOMAIN events : events'[i] = events[i]
    BY <1>0, <2>1, Appends
  <2> QED
    BY <2>1, <2>2 DEF Underway
<1>3. CASE ReadError
  <2>1. reader = Idle /\ \A i \in DOMAIN wire : wire[i] \notin Event
    BY <1>3 DEF ReadError
  <2> QED
    BY <1>0, <1>3, <2>1 DEF ReadError, Underway, aria2
<1>4. CASE Serve(Held)
  <2>1. jobs \subseteq jobs' /\ \A i \in DOMAIN wire : i \in DOMAIN wire' /\ wire'[i] = wire[i]
    BY <1>4, ServeReplies, ReplyKeeps
  <2>2. UNCHANGED <<reader, events>>
    BY <1>4 DEF Serve, client
  <2> QED
    BY <2>1, <2>2 DEF Underway
<1>5. ASSUME NEW h \in Gid, NEW success \in BOOLEAN, EndJob(h, success) PROVE Underway(g)'
  <2> DEFINE m == [kind |-> "event", gid |-> h, success |-> success]
  <2>1. m \in Event /\ m.gid = h
    BY DEF Event
  <2>2. Reply(m) /\ conn = "open" /\ jobs' = jobs \ {h} /\ UNCHANGED <<reader, events>>
    BY <1>5 DEF EndJob, client
  <2>3. /\ \A i \in DOMAIN wire : i \in DOMAIN wire' /\ wire'[i] = wire[i]
        /\ \E i \in DOMAIN wire' : wire'[i] = m
    BY <2>2, ReplyKeeps
  <2> HIDE DEF m
  <2> QED
    BY <2>1, <2>2, <2>3 DEF Underway
<1>6. CASE Break \/ Exit \/ Start \/ UNCHANGED <<up, jobs, net, client, lost>>
  <2>1. jobs \subseteq jobs' /\ UNCHANGED <<wire, reader, events>>
    BY <1>6 DEF Break, Exit, Start, aria2, net, client
  <2> QED
    BY <2>1 DEF Underway
<1>7. CASE Reconnect
  <2>1. reader = Off /\ wire = <<>>
    BY <1>7 DEF Reconnect, ReaderOK
  <2>2. UNCHANGED <<jobs, events>>
    BY <1>7 DEF Reconnect, DialOk, aria2
  <2> QED
    BY <1>0, <2>1, <2>2 DEF Underway
<1>8. CASE TakeEvent
  <2>1. events # <<>> /\ events' = Tail(events) /\ UNCHANGED <<jobs, wire, reader>>
    BY <1>8 DEF TakeEvent, aria2, net
  <2>2. /\ Head(events) = events[1]
        /\ \A i \in DOMAIN events : i # 1 => i - 1 \in DOMAIN events' /\ events'[i - 1] = events[i]
    BY <1>0, <2>1, Tails
  <2>3. ASSUME NEW i \in DOMAIN events, events[i].gid = g
        PROVE  Underway(g)' \/ (TakeEvent /\ g = Head(events).gid)
    BY <1>8, <2>2, <2>3 DEF Underway
  <2> QED
    BY <2>1, <2>3 DEF Underway
<1>9. CASE UNCHANGED <<jobs, wire, reader, events>>
  BY <1>9 DEF Underway
<1> QED
  BY <1>1, <1>2, <1>3, <1>4, <1>5, <1>6, <1>7, <1>8, <1>9, WhoTalks, DownloaderLeaves DEF Read

\* A download the client did not hear of before has just been started.
LEMMA UnderwayBegins ==
  ASSUME TypeInv, [Next]_vars, NEW g \in Gid, Underway(g)'
  PROVE  Underway(g) \/ "downloading" \in disk'[g[1]]
<1>0. /\ wire \in Seq(Answer \cup Event) /\ Answer \cap Event = {} /\ events \in Seq(Event)
      /\ reader \in Event \cup {Idle, Off} /\ Off \notin Event /\ Idle \notin Event
  BY MessageKinds, NoEvents DEF TypeInv, TypeOK
<1>1. CASE ReadAnswer \/ ReadEvent
  <2>1. wire # <<>> /\ wire' = Tail(wire) /\ UNCHANGED <<jobs, events>> /\ reader' \in {reader, Head(wire)}
    BY <1>1 DEF ReadAnswer, ReadEvent, aria2
  <2>2. /\ 1 \in DOMAIN wire /\ Head(wire) = wire[1]
        /\ \A i \in DOMAIN wire' : i + 1 \in DOMAIN wire /\ wire'[i] = wire[i + 1]
    BY <1>0, <2>1, Tails
  <2> QED
    BY <2>1, <2>2 DEF Underway
<1>2. CASE PutEvent
  <2>1. reader \in Event /\ events' = Append(events, reader) /\ UNCHANGED <<jobs, wire>> /\ reader' = Idle
    BY <1>2 DEF PutEvent, aria2, net
  <2>2. /\ DOMAIN events' = DOMAIN events \cup {Len(events) + 1}
        /\ events'[Len(events) + 1] = reader /\ \A i \in DOMAIN events : events'[i] = events[i]
    BY <1>0, <2>1, Appends
  <2> QED
    BY <1>0, <2>1, <2>2 DEF Underway
<1>3. CASE ReadError \/ Reconnect
  <2>1. (\A i \in DOMAIN wire' : FALSE) /\ reader' \notin Event /\ UNCHANGED <<jobs, events>>
    BY <1>0, <1>3 DEF ReadError, Reconnect, DialOk, aria2
  <2> QED
    BY <2>1 DEF Underway
<1>4. CASE Serve(Held)
  <2>1. PICK m \in Answer : Reply(m)
    BY <1>4, ServeReplies
  <2>2. \A i \in DOMAIN wire' : wire'[i] = m \/ (i \in DOMAIN wire /\ wire'[i] = wire[i])
    BY <2>1, ReplyKeeps
  <2>3. \A h \in jobs' : h \in jobs \/ "downloading" \in disk'[h[1]]
    BY <1>4, ServeReplies
  <2>4. UNCHANGED <<reader, events>>
    BY <1>4 DEF Serve, client
  <2> QED
    BY <1>0, <2>1, <2>2, <2>3, <2>4 DEF Underway
<1>5. ASSUME NEW h \in Gid, NEW success \in BOOLEAN, EndJob(h, success) PROVE Underway(g)
  <2> DEFINE m == [kind |-> "event", gid |-> h, success |-> success]
  <2>1. m.gid = h
    OBVIOUS
  <2>2. Reply(m) /\ h \in jobs /\ jobs' = jobs \ {h} /\ UNCHANGED <<reader, events>>
    BY <1>5 DEF EndJob, client
  <2>3. \A i \in DOMAIN wire' : wire'[i] = m \/ (i \in DOMAIN wire /\ wire'[i] = wire[i])
    BY <2>2, ReplyKeeps
  <2> HIDE DEF m
  <2> QED
    BY <2>1, <2>2, <2>3 DEF Underway
<1>6. CASE Break \/ Exit \/ Start \/ UNCHANGED <<up, jobs, net, client, lost>>
  <2>1. jobs' \subseteq jobs /\ UNCHANGED <<wire, reader, events>>
    BY <1>6 DEF Break, Exit, Start, aria2, net, client
  <2> QED
    BY <2>1 DEF Underway
<1>7. CASE TakeEvent
  <2>1. events # <<>> /\ events' = Tail(events) /\ UNCHANGED <<jobs, wire, reader>>
    BY <1>7 DEF TakeEvent, aria2, net
  <2>2. \A i \in DOMAIN events' : i + 1 \in DOMAIN events /\ events'[i] = events[i + 1]
    BY <1>0, <2>1, Tails
  <2> QED
    BY <2>1, <2>2 DEF Underway
<1>8. CASE UNCHANGED <<jobs, wire, reader, events>>
  BY <1>8 DEF Underway
<1> QED
  BY <1>1, <1>2, <1>3, <1>4, <1>5, <1>6, <1>7, <1>8, WhoTalks, DownloaderLeaves DEF Read

\* The downloads an answer tells of.
Mentions(m, g) == (m.kind = "gid" /\ m.gid = g) \/ (m.kind = "jobs" /\ g \in m.jobs)

\* What the downloader has in its maps, or is about to, is under way, unless a
\* notification was lost.
KnownOK ==
  \/ lost = TRUE
  \/ \A g \in Gid :
       /\ gidMap[g] # NoKey => Underway(g)
       /\ Mentions(answer, g) => Underway(g)
       /\ \A i \in DOMAIN wire : Mentions(wire[i], g) => Underway(g)

LEMMA NoMention ==
  ASSUME NEW g
  PROVE  /\ ~ Mentions(NoAnswer, g) /\ ~ Mentions(Failure, g)
         /\ \A m \in Event : ~ Mentions(m, g)
BY DEF Mentions, NoAnswer, Failure, Event

LEMMA KnownStart == Init => KnownOK
<1> SUFFICES ASSUME Init PROVE KnownOK
  OBVIOUS
<1>1. \A g \in Gid : gidMap[g] = NoKey
  BY DEF Init
<1>2. answer = NoAnswer /\ wire = <<>>
  BY DEF Init, ClientInit
<1> QED
  BY <1>1, <1>2, NoMention DEF KnownOK

\* What the downloader enters was in the answer.
LEMMA EnteredWasMentioned ==
  ASSUME TypeInv, Adopt \/ Added \/ Match, NEW g \in Gid, gidMap'[g] # gidMap[g]
  PROVE  Mentions(answer, g)
<1>0. /\ gidMap \in [Gid -> Key \cup {NoKey}] /\ pathGID \in [Key -> Gid \cup {NoGid}]
      /\ qDownload \subseteq Files /\ TypeOK
  BY DEF TypeInv, TypeOK
<1>1. ASSUME NEW S \in SUBSET Gid, NEW new, DOMAIN new = S, \A h \in S : new[h] \in Key, Register(new)
      PROVE  g \in S
  BY <1>0, <1>1, Registers
<1>2. CASE Adopt
  <2>1. PICK r \in Results : r.kind = "jobs" /\ Register([h \in r.jobs |-> AdoptedKey(h[1])])
    BY <1>2 DEF Adopt
  <2>2. r \in Answer \cup {Failure} /\ (r \in Answer => r = answer)
    BY <1>0, ResultIs
  <2>3. r = answer /\ r.jobs \subseteq Gid
    BY <2>1, <2>2, ResultKinds
  <2> DEFINE new == [h \in r.jobs |-> AdoptedKey(h[1])]
  <2>4. DOMAIN new = r.jobs /\ \A h \in r.jobs : new[h] \in Key
    BY <2>3, Markers
  <2>5. Register(new)
    BY <2>1
  <2> HIDE DEF new
  <2>6. g \in r.jobs
    BY <1>1, <2>3, <2>4, <2>5
  <2> QED
    BY <2>1, <2>3, <2>6 DEF Mentions
<1>3. CASE Added
  <2>0. hand \in Files
    BY <1>3 DEF Added, HandOK, TypeOK, TypeInv
  <2>1. PICK r \in Results : r.kind = "gid" /\ Register([h \in {r.gid} |-> <<hand, "planned">>])
    BY <1>3 DEF Added, GiveUp
  <2>2. r \in Answer \cup {Failure} /\ (r \in Answer => r = answer)
    BY <1>0, ResultIs
  <2>3. r = answer /\ r.gid \in Gid
    BY <2>1, <2>2, ResultKinds
  <2> DEFINE new == [h \in {r.gid} |-> <<hand, "planned">>]
  <2>4. DOMAIN new = {r.gid} /\ \A h \in {r.gid} : new[h] \in Key
    BY <2>0, Markers
  <2>5. Register(new) /\ {r.gid} \in SUBSET Gid
    BY <2>1, <2>3
  <2> HIDE DEF new
  <2>6. g \in {r.gid}
    BY <1>1, <2>4, <2>5
  <2> QED
    BY <2>1, <2>3, <2>6 DEF Mentions
<1>4. CASE Match
  <2>0. hand \in Files
    BY <1>4 DEF Match, HandOK, TypeOK, TypeInv
  <2>1. PICK r \in Results :
          r.kind = "jobs" /\ Register([h \in {h \in r.jobs : h[1] = hand} |-> <<hand, "planned">>])
    BY <1>4 DEF Match, GiveUp
  <2>2. r \in Answer \cup {Failure} /\ (r \in Answer => r = answer)
    BY <1>0, ResultIs
  <2>3. r = answer /\ r.jobs \subseteq Gid
    BY <2>1, <2>2, ResultKinds
  <2> DEFINE S == {h \in r.jobs : h[1] = hand}
             new == [h \in S |-> <<hand, "planned">>]
  <2>4. DOMAIN new = S /\ \A h \in S : new[h] \in Key
    BY <2>0, Markers
  <2>5. Register(new)
    BY <2>1
  <2>6. S \in SUBSET Gid /\ S \subseteq r.jobs
    BY <2>3
  <2> HIDE DEF new, S
  <2>7. g \in S
    BY <1>1, <2>4, <2>5, <2>6
  <2> QED
    BY <2>1, <2>3, <2>6, <2>7 DEF Mentions
<1> QED
  BY <1>2, <1>3, <1>4

LEMMA KnownStep ==
  ASSUME TypeInv, ReaderOK, CallOK, KnownOK, [Next]_vars
  PROVE  KnownOK'
<1> SUFFICES ASSUME lost' # TRUE, NEW g \in Gid
             PROVE  /\ gidMap'[g] # NoKey => Underway(g)'
                    /\ Mentions(answer', g) => Underway(g)'
                    /\ \A i \in DOMAIN wire' : Mentions(wire'[i], g) => Underway(g)'
  BY DEF KnownOK
<1>0. /\ wire \in Seq(Answer \cup Event) /\ events \in Seq(Event)
      /\ gidMap \in [Gid -> Key \cup {NoKey}]
  BY DEF TypeInv, TypeOK
<1>1. /\ gidMap[g] # NoKey => Underway(g)
      /\ Mentions(answer, g) => Underway(g)
      /\ \A i \in DOMAIN wire : Mentions(wire[i], g) => Underway(g)
  BY LostStays DEF KnownOK
<1>2. Underway(g) => Underway(g)' \/ (TakeEvent /\ g = Head(events).gid)
  BY UnderwayStays
<1>3. gidMap'[g] # NoKey => Underway(g)'
  <2>1. CASE TakeEvent
    <3>1. g = Head(events).gid => gidMap'[g] = NoKey
      BY <1>0, <2>1 DEF TakeEvent, Unmapped
    <3>2. g # Head(events).gid => gidMap'[g] = gidMap[g]
      <4>1. Head(events).gid \in Gid
        BY <2>1, EventGid
      <4> QED
        BY <1>0, <2>1, <4>1 DEF TakeEvent, Unmapped
    <3> QED
      BY <1>1, <1>2, <3>1, <3>2
  <2>2. CASE Adopt \/ Added \/ Match
    <3>1. ~TakeEvent
      BY <2>2 DEF Adopt, Added, Match, TakeEvent
    <3>2. gidMap'[g] # NoKey => gidMap[g] # NoKey \/ Mentions(answer, g)
      BY <2>2, EnteredWasMentioned
    <3> QED
      BY <1>1, <1>2, <3>1, <3>2
  <2>3. CASE UNCHANGED <<gidMap, pathGID>> /\ ~TakeEvent
    BY <1>1, <1>2, <2>3
  <2> QED
    BY <2>1, <2>2, <2>3, WhoMaps
<1>4. ASSUME answer' \in {answer, NoAnswer, Failure}, wire' = wire \/ wire' = <<>>, ~TakeEvent
      PROVE  /\ Mentions(answer', g) => Underway(g)'
             /\ \A i \in DOMAIN wire' : Mentions(wire'[i], g) => Underway(g)'
  <2>1. Underway(g) => Underway(g)'
    BY <1>2, <1>4
  <2>2. Mentions(answer', g) => Mentions(answer, g)
    BY <1>4, NoMention
  <2>3. \A i \in DOMAIN wire' : i \in DOMAIN wire /\ wire'[i] = wire[i]
    BY <1>4
  <2> QED
    BY <1>1, <2>1, <2>2, <2>3
<1>5. CASE TakeEvent
  <2>1. calling = NoRequest /\ UNCHANGED <<answer, wire>>
    BY <1>5 DEF TakeEvent, CallOK, net
  <2>2. answer = NoAnswer /\ \A i \in DOMAIN wire : wire[i] \in Event
    BY <1>0, <2>1, NoCallQuiet DEF CallOK
  <2> QED
    BY <1>3, <2>1, <2>2, NoMention
<1>6. CASE ReadAnswer \/ ReadEvent
  <2>1. wire # <<>> /\ wire' = Tail(wire) /\ answer' \in {answer, Head(wire)} /\ ~TakeEvent
    BY <1>6 DEF ReadAnswer, ReadEvent, TakeEvent, aria2
  <2>2. /\ 1 \in DOMAIN wire /\ Head(wire) = wire[1]
        /\ \A i \in DOMAIN wire' : i + 1 \in DOMAIN wire /\ wire'[i] = wire[i + 1]
    BY <1>0, <2>1, Tails
  <2> QED
    BY <1>1, <1>2, <1>3, <2>1, <2>2
<1>7. CASE PutEvent \/ ReadError \/ Break \/ Exit \/ Start \/ UNCHANGED <<up, jobs, net, client, lost>>
  <2>1. answer' \in {answer, Failure} /\ (wire' = wire \/ wire' = <<>>)
    BY <1>7 DEF PutEvent, ReadError, Break, Exit, Start, net, client
  <2> QED
    BY <1>3, <1>4, <1>5, <2>1
<1>9. CASE Serve(Held)
  <2>1. PICK m \in Answer : /\ Reply(m)
                            /\ m.kind = "gid" => m.gid \in jobs'
                            /\ m.kind = "jobs" => m.jobs = jobs
    BY <1>9, ServeReplies
  <2>2. \A i \in DOMAIN wire' : wire'[i] = m \/ (i \in DOMAIN wire /\ wire'[i] = wire[i])
    BY <2>1, ReplyKeeps
  <2>3. Mentions(m, g) => g \in jobs'
    BY <1>9, <2>1, ServeReplies DEF Mentions
  <2>4. UNCHANGED answer /\ ~TakeEvent
    BY <1>9 DEF Serve, client, TakeEvent, aria2, net, ServeAdd, ServeTell
  <2>5. g \in jobs' => Underway(g)'
    BY DEF Underway
  <2> QED
    BY <1>1, <1>2, <1>3, <2>2, <2>3, <2>4, <2>5
<1>10. ASSUME NEW h \in Gid, EndJob(h, TRUE) \/ EndJob(h, FALSE)
       PROVE  /\ Mentions(answer', g) => Underway(g)'
              /\ \A i \in DOMAIN wire' : Mentions(wire'[i], g) => Underway(g)'
  <2>0. PICK success \in BOOLEAN : EndJob(h, success)
    BY <1>10
  <2> DEFINE m == [kind |-> "event", gid |-> h, success |-> success]
  <2>1. m \in Event
    BY DEF Event
  <2>2. Reply(m) /\ UNCHANGED answer
    BY <2>0 DEF EndJob, client
  <2>3. \A i \in DOMAIN wire' : wire'[i] = m \/ (i \in DOMAIN wire /\ wire'[i] = wire[i])
    BY <2>2, ReplyKeeps
  <2>4. ~ Mentions(m, g)
    BY <2>1, NoMention
  <2>5. TakeEvent => Underway(g)'
    BY <2>0 DEF TakeEvent, EndJob, aria2, Underway
  <2> HIDE DEF m
  <2> QED
    BY <1>1, <1>2, <2>2, <2>3, <2>4, <2>5
<1>11. CASE Downloading /\ ~TakeEvent
  <2>1. answer' \in {answer, NoAnswer, Failure} /\ (wire' = wire \/ wire' = <<>>)
    BY <1>11, DownloaderTalks DEF Call, DialOk, Return, Cleanup, DialFail, aria2Client, net, client
  <2> QED
    BY <1>3, <1>4, <1>11, <2>1
<1>12. /\ Mentions(answer', g) => Underway(g)'
       /\ \A i \in DOMAIN wire' : Mentions(wire'[i], g) => Underway(g)'
  <2>1. CASE Downloading
    BY <1>5, <1>11, <2>1
  <2>2. CASE Read
    BY <1>6, <1>7, <2>2 DEF Read
  <2> QED
    BY <1>7, <1>9, <1>10, <2>1, <2>2, WhoTalks
<1> QED
  BY <1>3, <1>12

\* A file that was there under this name still is, or it was reported since.
Kept(f, name) == name \in disk[f] \/ f \in confirmed \/ Reported(f)

LEMMA KeptStays ==
  ASSUME TypeInv, [Next]_vars, NEW f \in Files, NEW name \in Names, Kept(f, name)
  PROVE  Kept(f, name)'
<1>0. disk \in [Files -> SUBSET OnDisk]
  BY DEF TypeInv, TypeOK
<1> USE DEF Kept, Reported
<1>1. ASSUME NEW g \in Files, NEW n \in Names, Verify(g, n) PROVE Kept(f, name)'
  <2>1. /\ UNCHANGED confirmed /\ reported \subseteq reported'
        /\ <<g, ReportedName(n)>> \in reported' /\ ReportedName(n) \in Names
    BY <1>1 DEF Verify, ReportedName, Names
  <2>2. g # f => disk'[f] = disk[f]
    BY <1>0, <1>1 DEF Verify
  <2>3. g = f => Reported(f)'
    BY <2>1
  <2> QED
    BY <2>1, <2>2, <2>3
<1>2. ASSUME NEW g \in Files, NEW n \in Names, Confirm(g, n) PROVE Kept(f, name)'
  <2>1. confirmed' = confirmed \cup {g} /\ reported' = reported \ {<<g, n>>}
    BY <1>2 DEF Confirm
  <2>2. g # f => disk'[f] = disk[f]
    BY <1>0, <1>2 DEF Confirm
  <2> QED
    BY <2>1, <2>2
<1>3. CASE Serve(Held)
  <2>1. disk[f] \subseteq disk'[f]
    BY <1>0, <1>3 DEF Serve, ServeAdd, ServeTell
  <2>2. UNCHANGED <<confirmed, reported>> \/ \E g \in Files, n \in Names : Verify(g, n) \/ Confirm(g, n)
    BY WhoVerifies, <1>3 DEF outcome, Look, SubmitVerify, VerifyFails
  <2> QED
    BY <1>1, <1>2, <2>1, <2>2
<1>4. CASE UNCHANGED disk \/ \E g \in Gid : EndJob(g, TRUE) \/ EndJob(g, FALSE)
  <2>1. \/ UNCHANGED <<confirmed, reported>>
        \/ \E g \in Files, n \in Names : Verify(g, n) \/ Confirm(g, n)
    BY WhoVerifies DEF outcome, Look, SubmitVerify, VerifyFails
  <2>2. name # "control"
    BY DEF Names
  <2>3. name \in disk[f] => name \in disk'[f]
    BY <1>0, <1>4, <2>2 DEF EndJob
  <2> QED
    BY <1>1, <1>2, <2>1, <2>3
<1> QED
  BY <1>1, <1>2, <1>3, <1>4, WhoTouchesFiles

\* The files of downloads, and those waiting for a verifier, are where they are
\* looked for.
FileOK ==
  /\ \A g \in Gid : Underway(g) => Kept(g[1], "downloading")
  /\ step = "ended" => Kept(hand, "downloading")
  /\ \A f \in Files, name \in Names : toVerify[<<f, name>>] > 0 => Kept(f, name)

LEMMA FilesStart == Init => FileOK
<1> SUFFICES ASSUME Init PROVE FileOK
  OBVIOUS
<1>1. ASSUME NEW g \in Gid, Underway(g) PROVE "downloading" \in disk[g[1]]
  <2>1. g \in jobs
    BY <1>1, NoEvents DEF Underway, Init, ClientInit
  <2>2. \A h \in jobs : "downloading" \in disk[h[1]]
    BY DEF Init
  <2> QED
    BY <2>1, <2>2
<1>2. step = "off" /\ \A f \in Files, name \in Names : toVerify[<<f, name>>] = 0
  BY DEF Init
<1> QED
  BY <1>1, <1>2 DEF FileOK, Kept

LEMMA FilesStep ==
  ASSUME TypeInv, MapsOK, FileOK, [Next]_vars
  PROVE  FileOK'
<1>0. /\ disk \in [Files -> SUBSET OnDisk] /\ toVerify \in [Files \X Names -> Nat]
      /\ hand \in Files \cup {NoFile} /\ HandOK /\ events \in Seq(Event)
      /\ "downloading" \in Names /\ \A g \in Gid : g[1] \in Files
      /\ plan # "idle" => Visiting \in Files
  BY VisitingIs, Markers DEF TypeInv, TypeOK, Names
<1>1. ASSUME NEW g \in Gid, Underway(g)' PROVE Kept(g[1], "downloading")'
  <2>1. CASE Underway(g)
    BY <1>0, <2>1, KeptStays DEF FileOK
  <2>2. CASE "downloading" \in disk'[g[1]]
    BY <2>2 DEF Kept
  <2> QED
    BY <1>1, <2>1, <2>2, UnderwayBegins
<1>2. ASSUME step' = "ended" PROVE Kept(hand, "downloading")'
  <2>1. CASE UNCHANGED loop
    <3>1. step = "ended" /\ hand' = hand /\ hand \in Files
      BY <1>0, <1>2, <2>1 DEF loop, HandOK
    <3>2. Kept(hand, "downloading")
      BY <3>1 DEF FileOK
    <3>3. \A f \in Files : Kept(f, "downloading") => Kept(f, "downloading")'
      BY <1>0, KeptStays
    <3> QED
      BY <3>1, <3>2, <3>3 DEF Kept, Reported
  <2>2. CASE Downloading /\ ~ UNCHANGED loop
    <3>1. /\ TakeEvent /\ gidMap[Head(events).gid] # NoKey
          /\ hand' = gidMap[Head(events).gid][1]
      BY <1>2, <2>2 DEF Downloading, Run, Adopt, TakeTask, HandleTask, Added, Match, TakeEvent, SubmitVerify,
                        Disconnect, Reconnect, FailToReconnect, GoTo, GiveUp
    <3>2. PICK g \in Gid : g = Head(events).gid /\ hand' = g[1]
      BY <3>1, EventGid DEF MapsOK
    <3>3. events # <<>> /\ 1 \in DOMAIN events /\ events[1].gid = g
      <4>1. events # <<>>
        BY <3>1 DEF TakeEvent
      <4> QED
        BY <1>0, <3>2, <4>1, Tails
    <3>4. Underway(g)
      BY <3>3 DEF Underway
    <3>5. Kept(g[1], "downloading")'
      BY <1>0, <3>2, <3>4, KeptStays DEF FileOK
    <3> QED
      BY <3>2, <3>5 DEF Kept, Reported
  <2> QED
    BY <2>1, <2>2, WhoLoops
<1>3. ASSUME NEW f \in Files, NEW name \in Names, toVerify'[<<f, name>>] > 0 PROVE Kept(f, name)'
  <2>1. CASE toVerify[<<f, name>>] > 0
    BY <2>1, KeptStays DEF FileOK
  <2>2. CASE ~ (toVerify[<<f, name>>] > 0)
    <3>0. <<f, name>> \in Files \X Names
      OBVIOUS
    <3>1. CASE Look
      <4>1. f = Visiting /\ name = (IF "downloaded" \in disk[f] THEN "downloaded" ELSE "final")
            /\ ~ (disk[f] \cap {"downloading", "control"} # {} \/ disk[f] = {})
        BY <1>0, <1>3, <2>2, <3>0, <3>1 DEF Look
      <4>2. name \in disk[f]
        BY <1>0, <4>1 DEF OnDisk, Names
      <4> QED
        BY <4>2, KeptStays DEF Kept
    <3>2. CASE SubmitVerify
      <4>1. step = "ended" /\ f = hand /\ name = "downloading"
        BY <1>0, <1>3, <2>2, <3>0, <3>2 DEF SubmitVerify
      <4> QED
        BY <4>1, KeptStays DEF FileOK
    <3>3. ASSUME NEW g \in Files, NEW n \in Names, Verify(g, n) \/ VerifyFails(g, n) \/ Confirm(g, n)
          PROVE  FALSE
      <4>1. toVerify' = toVerify \/ toVerify' = [toVerify EXCEPT ![<<g, n>>] = @ - 1]
        BY <3>3 DEF Verify, VerifyFails, Confirm
      <4>2. ASSUME NEW k \in Files \X Names, NEW j \in Files \X Names,
                   toVerify' = [toVerify EXCEPT ![k] = @ - 1]
            PROVE  toVerify[j] \in Nat /\ toVerify'[j] \in {toVerify[j], toVerify[j] - 1}
        BY <1>0, <4>2
      <4>3. toVerify[<<f, name>>] \in Nat
            /\ toVerify'[<<f, name>>] \in {toVerify[<<f, name>>], toVerify[<<f, name>>] - 1}
        BY <1>0, <3>0, <4>1, <4>2
      <4> QED
        BY <1>3, <2>2, <4>3
    <3>4. CASE UNCHANGED <<qVerify, outcome>>
      BY <1>3, <2>2, <3>4 DEF outcome
    <3> QED
      BY <3>1, <3>2, <3>3, <3>4, WhoVerifies
  <2> QED
    BY <2>1, <2>2
<1>4. \A g \in Gid : Underway(g)' => Kept(g[1], "downloading")'
  BY <1>1
<1>5. \A f \in Files, name \in Names : toVerify'[<<f, name>>] > 0 => Kept(f, name)'
  BY <1>3
<1> QED
  BY <1>2, <1>4, <1>5 DEF FileOK

\* Nothing is at its limit: what InitWorker plans fits into the channel, for which
\* there is no receiver yet; Client.Events takes the event readLoop holds; and aria2,
\* of whose gids the model has Copies, finds one.
Room ==
  /\ starting /\ plan = "sending" => Len(taskCh) < TaskCap
  /\ reader \in Event => Len(events) < EvCap
  /\ request.kind = "add" => GidFree(request.file)

\* When everybody waits, nothing is under way: the downloader stands in its select,
\* with nothing to receive, and aria2 has nothing to do.
LEMMA AllQuiet ==
  ASSUME TypeInv, ReaderOK, CallOK, StartOK, AnsweredOK, Room, ~SomebodyReady, up, ~(failures > 0)
  PROVE  /\ plan = "idle" /\ ~starting
         /\ taskCh = <<>> /\ hand = NoFile
         /\ jobs = {} /\ wire = <<>> /\ reader = Idle /\ events = <<>>
<1>0. /\ starting \in BOOLEAN /\ done \in BOOLEAN /\ up \in BOOLEAN
      /\ plan \in {"idle", "checking", "looking", "submitting", "sending"}
      /\ step \in Steps
      /\ conn \in {"open", "broken"} /\ request \in Request \cup {NoRequest}
      /\ reader \in Event \cup {Idle, Off}
  BY DEF TypeInv, TypeOK
<1>1. request = NoRequest
  <2>1. CASE request.kind = "tell"
    BY <1>0, <2>1 DEF SomebodyReady, Aria2Ready
  <2>2. CASE request.kind = "add"
    BY <1>0, <2>2 DEF SomebodyReady, Aria2Ready, Room
  <2> QED
    BY <1>0, <2>1, <2>2, MessageKinds DEF Request
<1>2. step \notin {"cleaning", "dialling", "taken", "ended"}
  BY DEF SomebodyReady, DownloaderReady, ReaderOK
<1>3. step = "selecting" => taskCh = <<>> /\ events = <<>> /\ done # TRUE
  BY DEF SomebodyReady, DownloaderReady
<1>4. step \in {"adopting", "adding", "matching"} => answer = NoAnswer /\ done # TRUE
  BY DEF SomebodyReady, DownloaderReady
<1>5. reader \in Event => FALSE
  BY DEF SomebodyReady, ReaderReady, Room
<1>6. ASSUME reader = Idle PROVE wire = <<>> /\ conn = "open"
  BY <1>0, <1>6 DEF SomebodyReady, ReaderReady
<1>7. step \notin {"adopting", "adding", "matching"}
  <2> SUFFICES ASSUME step \in {"adopting", "adding", "matching"} PROVE FALSE
    OBVIOUS
  <2>1. reader = Idle
    BY <1>0, <1>4, <1>5 DEF ReaderOK
  <2>2. hand # NoFile => hand \in Files
    BY DEF TypeInv, TypeOK
  <2>3. calling # NoRequest
    BY <2>2, MessageKinds DEF CallOK, TypeInv, HandOK
  <2>4. \A i \in DOMAIN wire : FALSE
    BY <1>6, <2>1
  <2> QED
    BY <1>1, <1>4, <1>6, <2>1, <2>3, <2>4 DEF AnsweredOK
<1>8. plan = "idle" \/ (plan = "sending" /\ ~(Len(taskCh) < TaskCap))
  BY <1>0 DEF SomebodyReady, PlannerReady
<1>9. ~starting
  BY <1>8 DEF Room, StartOK
<1>10. step = "selecting"
  BY <1>0, <1>2, <1>7, <1>9 DEF SomebodyReady, DownloaderReady, Steps
<1>11. plan = "idle"
  <2>1. taskCh = <<>> => Len(taskCh) = 0
    OBVIOUS
  <2>2. TaskCap \in Nat \ {0}
    BY PipelineAssumption
  <2> QED
    BY <1>3, <1>8, <1>10, <2>1, <2>2
<1>12. reader = Idle
  BY <1>0, <1>3, <1>5, <1>10 DEF ReaderOK
<1>13. jobs = {}
  BY DEF SomebodyReady, Aria2Ready
<1>14. hand = NoFile
  BY <1>10 DEF TypeInv, HandOK
<1> QED
  BY <1>3, <1>6, <1>9, <1>10, <1>11, <1>12, <1>13, <1>14

\* And then no claimed file is in anybody's hands.
LEMMA NothingLeft ==
  ASSUME Absolute = TRUE,
         TypeInv, ReaderOK, CallOK, MapsOK, StartOK, AnsweredOK, KnownOK, FileOK, ClaimedInHand, Room
  PROVE  NoStandstill
<1> SUFFICES ASSUME ~SomebodyReady, lost # TRUE, up, ~(failures > 0),
                    NEW f \in Files, Allowed(claims, f),
                    f \notin confirmed \cup Covered(completed) \cup dropped
             PROVE  FALSE
  <2>1. lost \in BOOLEAN /\ up \in BOOLEAN
    BY DEF TypeInv, TypeOK
  <2> QED
    BY <2>1 DEF NoStandstill
<1>1. /\ plan = "idle" /\ ~starting
      /\ taskCh = <<>> /\ hand = NoFile
      /\ jobs = {} /\ wire = <<>> /\ reader = Idle /\ events = <<>>
  BY AllQuiet
<1>2. f \in InChannel \/ hand = f \/ Registered(f) \/ Verifying(f) \/ Reported(f)
  BY <1>1 DEF ClaimedInHand
<1>3. f \notin InChannel /\ hand # f
  BY <1>1, Markers DEF InChannel
<1>4. ~Reported(f)
  <2>1. reported = {}
    BY <1>1 DEF SomebodyReady, ReporterReady
  <2> QED
    BY <2>1 DEF Reported
<1>5. ~Verifying(f)
  <2> SUFFICES ASSUME NEW name \in Names, toVerify[<<f, name>>] > 0 PROVE FALSE
    BY DEF Verifying
  <2>1. name \in disk[f]
    BY <1>4 DEF FileOK, Kept
  <2> QED
    BY <1>1, <2>1 DEF SomebodyReady, VerifierReady
<1>6. ~Registered(f)
  <2>1. \A g \in Gid : ~Underway(g)
    BY <1>1, NoEvents DEF Underway
  <2>2. \A g \in Gid : gidMap[g] = NoKey
    BY <2>1 DEF KnownOK
  <2> QED
    BY <2>2, Markers DEF Registered, NoKey
<1> QED
  BY <1>2, <1>3, <1>4, <1>5, <1>6

\* The planner, the downloader, the readLoop, the verifiers and the reporter wait for
\* one another in a circle only at a channel that is full: the start-up plan that does
\* not fit into taskCh, or the event that does not fit into Client.Events.  Otherwise,
\* when all wait, no claimed file is left to be done (Submit, downloader.run,
\* callRPCRaw, handleNotification, worker of verify.go and readLoop of reporter.go).
THEOREM NobodyStandsStill ==
  ASSUME Absolute = TRUE
  PROVE  Spec /\ []Room => []NoStandstill
<1> DEFINE Inv == TypeInv /\ ReaderOK /\ CallOK /\ MapsOK /\ StartOK /\ AnsweredOK /\ KnownOK /\ FileOK
<1>1. Init => Inv
  BY TypeStart, ReaderStart, CallStart, MapsStart, StartStart, AnsweredStart, KnownStart, FilesStart
<1>2. Inv /\ [Next]_vars => Inv'
  BY TypeStep, ReaderStep, CallStep, MapsStep, StartStep, AnsweredStep, KnownStep, FilesStep
<1>3. Inv /\ ClaimedInHand /\ Room => NoStandstill
  BY NothingLeft
<1>4. Spec => []Inv
  BY <1>1, <1>2, PTL DEF Spec
<1>5. Spec => []ClaimedInHand
  BY ClaimsInHand
<1> QED
  BY <1>3, <1>4, <1>5, PTL

=============================================================================
