------------------------- MODULE ReportDeliveryProofs -------------------------
(***************************************************************************)
(* TLAPS proofs about ReportDelivery: its types and that the worker gives  *)
(* up only reports the server has stored, for every tree, every number of  *)
(* connections and failures.                                               *)
(***************************************************************************)
EXTENDS ReportDelivery, TLAPS

\* What is on the connection the worker reads: a ping that carries the latest
\* number carries the whole unanswered batch, a handler has stored what it no
\* longer holds of it, and an answer to it means all of it is stored.
LatestCarriesBatch ==
  conn # NoConn =>
    /\ \A i \in DOMAIN toServer[conn] :
         toServer[conn][i].ver = lastSentVer => lastSent \subseteq toServer[conn][i].batch
    /\ serving[conn] = "handling" /\ job[conn].ver = lastSentVer =>
         lastSent \subseteq stored \cup job[conn].batch
    /\ \A i \in DOMAIN toWorker[conn] :
         toWorker[conn][i] = lastSentVer => lastSent \subseteq stored

DeliveryInv == TypeOK /\ LatestCarriesBatch /\ AckedStored

-----------------------------------------------------------------------------
LEMMA TypesInit == Init => TypeOK
  BY DeliveryAssumption, TreeAssumption
     DEF Init, TypeOK, Typed, HubExact, Served, Replan, Number, Ping, NoPing, NoVersion

\* Every step of the worker, the server and the network keeps the types.
LEMMA TypesKept == TypeOK /\ [Next]_vars => Typed'
<1> SUFFICES ASSUME TypeOK, [Next]_vars PROVE Typed'
  OBVIOUS
<1> USE DeliveryAssumption, TreeAssumption
<1>1. ASSUME NEW f \in Files, PushVerified(f) PROVE Typed'
  BY <1>1 DEF PushVerified, TypeOK, Typed, link, server, wire
<1>2. ASSUME NEW c \in Conn, Dial(c) PROVE Typed'
  <2>1. /\ toServer' \in [Conn -> Seq(Ping)] /\ toWorker' \in [Conn -> Seq(Number)]
        /\ \A d \in Conn : Len(toServer'[d]) <= WireCap /\ Len(toWorker'[d]) <= WireCap
    BY <1>2 DEF Dial, TypeOK, Typed
  <2> QED
    BY <1>2, <2>1 DEF Dial, TypeOK, Typed, worker
<1>3. ASSUME NEW c \in Conn, Tick(c) \/ TickClosed(c) PROVE Typed'
  BY <1>3 DEF Tick, TickClosed, TypeOK, Typed, worker, server, wire
<1>4. ASSUME NEW c \in Conn, Collect(c) PROVE Typed'
  <2>1. lastSentVer' \in Version
    BY <1>4 DEF Collect
  <2> QED
    BY <1>4, <2>1 DEF Collect, Batch, TypeOK, Typed, server, wire, Number
<1>5. ASSUME NEW c \in Conn, ReadVersion(c) \/ SendFails(c) PROVE Typed'
  <2>1. /\ reporting' \in [Conn -> {"none", "waiting", "ticked", "collected", "numbered"}]
        /\ readVer' \in [Conn -> Number]
    <3>1. CASE ReadVersion(c)
      BY <3>1 DEF ReadVersion, TypeOK, Typed
    <3>2. CASE SendFails(c)
      <4>1. NoVersion \in Number
        BY DEF Number
      <4> QED
        BY <3>2, <4>1 DEF SendFails, TypeOK, Typed
    <3> QED
      BY <1>5, <3>1, <3>2
  <2> QED
    BY <1>5, <2>1 DEF ReadVersion, SendFails, TypeOK, Typed, worker, server, wire
<1>6. ASSUME NEW c \in Conn, Send(c) PROVE Typed'
  <2>1. NextPing(c) \in Ping
    BY DEF NextPing, Ping, TypeOK, Typed
  <2>2. /\ toServer' \in [Conn -> Seq(Ping)]
        /\ \A d \in Conn : Len(toServer'[d]) <= WireCap
    <3>1. CASE UNCHANGED toServer
      BY <3>1 DEF TypeOK, Typed
    <3>2. CASE /\ HasRoom(toServer[c])
               /\ toServer' = [toServer EXCEPT ![c] = Append(@, NextPing(c))]
      BY <2>1, <3>2 DEF TypeOK, Typed, HasRoom
    <3> QED
      BY <1>6, <3>1, <3>2 DEF Send
  <2> QED
    BY <1>6, <2>2 DEF Send, TypeOK, Typed, worker, server, Number
<1>7. ASSUME NEW c \in Conn, Register(c) PROVE Typed'
  BY <1>7 DEF Register, TypeOK, Typed, worker, link
<1>8. ASSUME NEW c \in Conn, Receive(c) PROVE Typed'
  <2>1. Head(toServer[c]) \in Ping /\ Tail(toServer[c]) \in Seq(Ping)
        /\ Len(Tail(toServer[c])) <= WireCap
    BY <1>8 DEF Receive, TypeOK, Typed
  <2> QED
    BY <1>8, <2>1 DEF Receive, TypeOK, Typed, worker, link
<1>9. ASSUME NEW c \in Conn, NEW f \in Files, Store(c, f) PROVE Typed'
  <2>1. job' \in [Conn -> Ping]
    <3>1. job[c] \in Ping
      BY DEF TypeOK, Typed
    <3>2. [job[c] EXCEPT !.batch = @ \ {f}] \in Ping
      BY <3>1 DEF Ping
    <3>3. job' = [job EXCEPT ![c] = [job[c] EXCEPT !.batch = @ \ {f}]]
      BY <1>9 DEF Store
    <3> QED
      BY <3>2, <3>3 DEF TypeOK, Typed
  <2> QED
    BY <1>9, <2>1 DEF Store, TypeOK, Typed, worker, link, wire
<1>10. ASSUME NEW c \in Conn, NEW f \in Files, StoreFails(c, f) PROVE Typed'
  <2>1. job' \in [Conn -> Ping]
    BY <1>10 DEF StoreFails, TypeOK, Typed, Ping, NoPing, Number
  <2>2. faults' \in 0 .. MaxFaults
    BY <1>10 DEF StoreFails, Fault, TypeOK, Typed
  <2> QED
    BY <1>10, <2>1, <2>2 DEF StoreFails, TypeOK, Typed, worker, link, wire
<1>11. ASSUME NEW c \in Conn, Answer(c) PROVE Typed'
  <2>1. job' \in [Conn -> Ping]
    BY <1>11 DEF Answer, TypeOK, Typed, Ping, NoPing, Number
  <2>2. /\ toWorker' \in [Conn -> Seq(Number)]
        /\ \A d \in Conn : Len(toWorker'[d]) <= WireCap
    <3>1. CASE UNCHANGED toWorker
      BY <3>1 DEF TypeOK, Typed
    <3>2. CASE /\ HasRoom(toWorker[c])
               /\ toWorker' = [toWorker EXCEPT ![c] = Append(@, job[c].ver)]
      BY <3>2 DEF TypeOK, Typed, HasRoom, Ping
    <3> QED
      BY <1>11, <3>1, <3>2 DEF Answer
  <2> QED
    BY <1>11, <2>1, <2>2 DEF Answer, TypeOK, Typed, worker, link
<1>12. ASSUME NEW c \in Conn, HangUp(c) PROVE Typed'
  BY <1>12 DEF HangUp, Unregistered, TypeOK, Typed, worker, link
<1>13. ASSUME NEW c \in Conn, Break(c) PROVE Typed'
  BY <1>13 DEF Break, Fault, TypeOK, Typed, worker, link, server
<1>14. CASE ReadPong
  <2>1. /\ Tail(toWorker[conn]) \in Seq(Number)
        /\ Len(Tail(toWorker[conn])) <= WireCap
    BY <1>14 DEF ReadPong, TypeOK, Typed
  <2> QED
    BY <1>14, <2>1 DEF ReadPong, TypeOK, Typed, link, server
<1>15. CASE LoseConn
  BY <1>15 DEF LoseConn, TypeOK, Typed, worker, server
<1>16. ASSUME NEW f \in Files, Confirm(f) PROVE Typed'
  <2>1. completed' \subseteq Dirs /\ saved' \subseteq Dirs
    BY <1>16 DEF Confirm, Pruned, CompleteChain, Lineage, TypeOK, Typed
  <2>2. faults' \in 0 .. MaxFaults
    BY <1>16 DEF Confirm, Fault, TypeOK, Typed
  <2> QED
    BY <1>16, <2>1, <2>2 DEF Confirm, TypeOK, Typed, link, server, wire
<1>17. CASE WorkerRestart
  BY <1>17 DEF WorkerRestart, Fault, Replan, TypeOK, Typed, server, Number
<1>18. CASE ServerRestart
  BY <1>18 DEF ServerRestart, Fault, TypeOK, Typed, worker, link, Ping, NoPing, Number
<1>19. CASE UNCHANGED vars
  BY <1>19 DEF vars, TypeOK, Typed, worker, link, server, wire
<1> QED
  BY <1>1, <1>2, <1>3, <1>4, <1>5, <1>6, <1>7, <1>8, <1>9, <1>10, <1>11, <1>12,
     <1>13, <1>14, <1>15, <1>16, <1>17, <1>18, <1>19
     DEF Next, Reporting, Reading, Handling

\* Registering and hanging up keep Hub.conns exact; a connection is served only
\* after it is registered, and it is not opened again while it is served.
LEMMA HubKept == TypeOK /\ [Next]_vars => HubExact'
<1> SUFFICES ASSUME TypeOK, [Next]_vars PROVE HubExact'
  OBVIOUS
<1> USE DeliveryAssumption DEF HubExact, Served
<1>0. /\ HubExact /\ serving \in [Conn -> {"none", "upgraded", "reading", "handling"}]
      /\ broken \subseteq Conn /\ registered \in Conn \cup {NoConn}
  BY DEF TypeOK, Typed
<1>1. ASSUME NEW c \in Conn, Dial(c) PROVE HubExact'
  BY <1>0, <1>1 DEF Dial
<1>2. ASSUME NEW c \in Conn, Register(c) PROVE HubExact'
  BY <1>0, <1>2 DEF Register
<1>3. ASSUME NEW c \in Conn, HangUp(c) PROVE HubExact'
  BY <1>0, <1>3 DEF HangUp, Unregistered
<1>4. ASSUME NEW c \in Conn, Receive(c) PROVE HubExact'
  BY <1>0, <1>4 DEF Receive
<1>5. ASSUME NEW c \in Conn, Answer(c) PROVE HubExact'
  BY <1>0, <1>5 DEF Answer
<1>6. ASSUME NEW c \in Conn, NEW f \in Files, Store(c, f) \/ StoreFails(c, f) PROVE HubExact'
  BY <1>0, <1>6 DEF Store, StoreFails, wire
<1>7. CASE ServerRestart
  BY <1>0, <1>7 DEF ServerRestart
<1>8. CASE WorkerRestart
  BY <1>0, <1>8 DEF WorkerRestart, server
<1>9. ASSUME NEW c \in Conn, Reporting(c) \/ Break(c) PROVE HubExact'
  <2>1. serving' = serving /\ registered' = registered /\ broken \subseteq broken'
    BY <1>9 DEF Reporting, Tick, TickClosed, Collect, ReadVersion, Send, SendFails, Break, server, wire
  <2> QED
    BY <1>0, <2>1
<1>10. CASE Reading \/ (\E f \in Files : PushVerified(f)) \/ UNCHANGED vars
  <2>1. serving' = serving /\ registered' = registered /\ broken' = broken
    BY <1>10 DEF Reading, ReadPong, LoseConn, Confirm, PushVerified, vars, server, wire
  <2> QED
    BY <1>0, <2>1
<1> QED
  BY <1>1, <1>2, <1>3, <1>4, <1>5, <1>6, <1>7, <1>8, <1>9, <1>10 DEF Next, Handling

\* The worker's and the server's state and the wire are as declared in every reachable
\* state, and Hub.conns holds the one connection that is served and not closed, however
\* many connections replace each other (Hub.HandleWS).
THEOREM DeliveryTypeCorrect == Spec => []TypeOK
<1>1. TypeOK /\ [Next]_vars => TypeOK'
  BY TypesKept, HubKept DEF TypeOK
<1> QED
  BY <1>1, TypesInit, PTL DEF Spec

-----------------------------------------------------------------------------
\* A completed directory the worker adds covers only files it already covered or
\* has confirmed.
LEMMA CoveredByChain ==
  ASSUME NEW f \in Files, NEW files, NEW dirs \in SUBSET Dirs
  PROVE  Covered(Pruned(dirs, CompleteChain(f, files, dirs))) \subseteq Covered(dirs) \cup files
<1> SUFFICES ASSUME NEW g \in Files,
                    NEW d \in Pruned(dirs, CompleteChain(f, files, dirs)),
                    d \in Lineage[DirIdx[g]]
             PROVE  g \in Covered(dirs) \cup files
  BY DEF Covered
<1>1. CASE d \in dirs
  BY <1>1 DEF Covered
<1>2. CASE d \in CompleteChain(f, files, dirs)
  <2>1. d \in Lineage[DirIdx[f]] /\ DirIdx[f] \in Dirs
    BY <1>2, TreeAssumption DEF CompleteChain
  <2>2. d \in Dirs /\ d \in Lineage[d]
    BY <2>1 DEF Lineage
  <2>3. DirComplete(d, files, dirs)
    BY <1>2, <2>2 DEF CompleteChain
  <2>4. g \in Span(d)
    BY <2>2, TreeAssumption
  <2> QED
    BY <2>3, <2>4 DEF DirComplete, Covered
<1> QED
  BY <1>1, <1>2 DEF Pruned

LEMMA InvInit == Init => DeliveryInv
<1> SUFFICES ASSUME Init PROVE DeliveryInv
  OBVIOUS
<1>1. LatestCarriesBatch
  BY DEF Init, LatestCarriesBatch
<1>2. AckedStored
  BY DEF Init, AckedStored, Covered
<1> QED
  BY <1>1, <1>2, TypesInit DEF DeliveryInv

\* Every step keeps it.  A new number is on no message, so it makes the claim
\* about the connection vacuous; a ping is sent with everything unanswered.
LEMMA InvKept == DeliveryInv /\ [Next]_vars => DeliveryInv'
<1> SUFFICES ASSUME DeliveryInv, [Next]_vars PROVE LatestCarriesBatch' /\ AckedStored'
  BY TypesKept, HubKept DEF DeliveryInv, TypeOK
<1> USE DeliveryAssumption DEF DeliveryInv
<1>1. ASSUME UNCHANGED <<acking, confirmed, completed, saved>>, stored \subseteq stored'
      PROVE  AckedStored'
  BY <1>1 DEF AckedStored, Covered
<1>2. ASSUME NEW f \in Files, PushVerified(f) PROVE LatestCarriesBatch' /\ AckedStored'
  BY <1>1, <1>2 DEF PushVerified, LatestCarriesBatch, link, server, wire
<1>3. ASSUME NEW c \in Conn, Dial(c) PROVE LatestCarriesBatch' /\ AckedStored'
  BY <1>1, <1>3 DEF Dial, LatestCarriesBatch, TypeOK, Typed, worker
<1>4. ASSUME NEW c \in Conn, Tick(c) \/ TickClosed(c) \/ ReadVersion(c) \/ SendFails(c)
      PROVE LatestCarriesBatch' /\ AckedStored'
  BY <1>1, <1>4 DEF Tick, TickClosed, ReadVersion, SendFails, LatestCarriesBatch, worker, server, wire
<1>5. ASSUME NEW c \in Conn, Collect(c) PROVE LatestCarriesBatch' /\ AckedStored'
  <2>1. lastSentVer' \in Version \ InUse
    BY <1>5 DEF Collect
  <2>2. LatestCarriesBatch'
    BY <1>5, <2>1 DEF Collect, InUse, LatestCarriesBatch, server, wire
  <2> QED
    BY <1>1, <1>5, <2>2 DEF Collect, server
<1>6. ASSUME NEW c \in Conn, Send(c) PROVE LatestCarriesBatch' /\ AckedStored'
  <2>1. CASE UNCHANGED toServer
    BY <1>1, <1>6, <2>1 DEF Send, LatestCarriesBatch, worker, server
  <2>2. CASE toServer' = [toServer EXCEPT ![c] = Append(@, NextPing(c))]
    <3>1. AckedStored'
      BY <1>1, <1>6 DEF Send, worker, server
    <3>2. ASSUME conn = c, NEW i \in DOMAIN toServer'[conn]
          PROVE \/ i \in DOMAIN toServer[conn] /\ toServer'[conn][i] = toServer[conn][i]
                \/ toServer'[conn][i].batch = lastSent
      BY <2>2, <3>2 DEF NextPing, TypeOK, Typed
    <3>3. conn # c => toServer'[conn] = toServer[conn]
      BY <2>2 DEF TypeOK, Typed
    <3> QED
      BY <1>6, <3>1, <3>2, <3>3 DEF Send, LatestCarriesBatch, worker, server
  <2> QED
    BY <1>6, <2>1, <2>2 DEF Send
<1>7. ASSUME NEW c \in Conn, Register(c) PROVE LatestCarriesBatch' /\ AckedStored'
  BY <1>1, <1>7 DEF Register, LatestCarriesBatch, TypeOK, Typed, worker, link
<1>8. ASSUME NEW c \in Conn, Receive(c) PROVE LatestCarriesBatch' /\ AckedStored'
  <2>1. AckedStored'
    BY <1>1, <1>8 DEF Receive, worker
  <2>2. CASE conn = c
    <3>1. /\ Head(toServer[c]) = toServer[c][1] /\ 1 \in DOMAIN toServer[c]
          /\ \A i \in DOMAIN toServer'[c] :
               i + 1 \in DOMAIN toServer[c] /\ toServer'[c][i] = toServer[c][i + 1]
      BY <1>8 DEF Receive, TypeOK, Typed
    <3>2. job'[c] = Head(toServer[c])
      BY <1>8 DEF Receive, TypeOK, Typed
    <3> QED
      BY <1>8, <2>1, <2>2, <3>1, <3>2 DEF Receive, LatestCarriesBatch, worker, link
  <2>3. CASE conn # c
    BY <1>8, <2>1, <2>3 DEF Receive, LatestCarriesBatch, TypeOK, Typed, worker, link
  <2> QED
    BY <2>2, <2>3
<1>9. ASSUME NEW c \in Conn, NEW f \in Files, Store(c, f) PROVE LatestCarriesBatch' /\ AckedStored'
  <2>1. job'[c] = [job[c] EXCEPT !.batch = @ \ {f}] /\ \A e \in Conn \ {c} : job'[e] = job[e]
    BY <1>9 DEF Store, TypeOK, Typed
  <2>2. job[c] \in Ping
    BY DEF TypeOK, Typed
  <2>3. job'[c].ver = job[c].ver /\ job'[c].batch = job[c].batch \ {f}
    BY <2>1, <2>2 DEF Ping
  <2> QED
    BY <1>1, <1>9, <2>1, <2>3 DEF Store, LatestCarriesBatch, TypeOK, Typed, worker, link, wire
<1>10. ASSUME NEW c \in Conn, NEW f \in Files, StoreFails(c, f)
       PROVE LatestCarriesBatch' /\ AckedStored'
  BY <1>1, <1>10 DEF StoreFails, LatestCarriesBatch, TypeOK, Typed, worker, link, wire
<1>11. ASSUME NEW c \in Conn, Answer(c) PROVE LatestCarriesBatch' /\ AckedStored'
  <2>1. AckedStored'
    BY <1>1, <1>11 DEF Answer, worker
  <2>2. serving' = [serving EXCEPT ![c] = "reading"] /\ \A e \in Conn \ {c} : job'[e] = job[e]
    BY <1>11 DEF Answer, TypeOK, Typed
  <2>3. CASE UNCHANGED toWorker
    BY <1>11, <2>1, <2>2, <2>3 DEF Answer, LatestCarriesBatch, TypeOK, Typed, worker, link
  <2>4. CASE toWorker' = [toWorker EXCEPT ![c] = Append(@, job[c].ver)]
    <3>1. ASSUME conn = c, NEW i \in DOMAIN toWorker'[conn]
          PROVE \/ i \in DOMAIN toWorker[conn] /\ toWorker'[conn][i] = toWorker[conn][i]
                \/ toWorker'[conn][i] = job[c].ver
      BY <2>4, <3>1 DEF TypeOK, Typed
    <3>2. conn # c => toWorker'[conn] = toWorker[conn]
      BY <2>4 DEF TypeOK, Typed
    <3>3. conn = c /\ job[c].ver = lastSentVer => lastSent \subseteq stored
      BY <1>11 DEF Answer, AllStored, LatestCarriesBatch
    <3> QED
      BY <1>11, <2>1, <2>2, <3>1, <3>2, <3>3 DEF Answer, LatestCarriesBatch, TypeOK, Typed, worker, link
  <2> QED
    BY <1>11, <2>3, <2>4 DEF Answer
<1>12. ASSUME NEW c \in Conn, HangUp(c) PROVE LatestCarriesBatch' /\ AckedStored'
  BY <1>1, <1>12 DEF HangUp, LatestCarriesBatch, TypeOK, Typed, worker, link
<1>13. ASSUME NEW c \in Conn, Break(c) PROVE LatestCarriesBatch' /\ AckedStored'
  BY <1>1, <1>13 DEF Break, LatestCarriesBatch, worker, link, server
<1>14. CASE ReadPong
  <2>1. conn \in Conn
    BY <1>14 DEF ReadPong, TypeOK, Typed
  <2>2. /\ Head(toWorker[conn]) = toWorker[conn][1] /\ 1 \in DOMAIN toWorker[conn]
        /\ \A i \in DOMAIN toWorker'[conn] :
             i + 1 \in DOMAIN toWorker[conn] /\ toWorker'[conn][i] = toWorker[conn][i + 1]
    BY <1>14, <2>1 DEF ReadPong, TypeOK, Typed
  <2>3. IsLatest(Head(toWorker[conn])) => lastSent \subseteq stored
    BY <1>14, <2>2 DEF ReadPong, IsLatest, LatestCarriesBatch
  <2>4. AckedStored'
    BY <1>14, <2>3 DEF ReadPong, AckedStored, Covered, server
  <2>5. lastSent' \subseteq lastSent
    BY <1>14 DEF ReadPong
  <2> QED
    BY <1>14, <2>1, <2>2, <2>4, <2>5 DEF ReadPong, LatestCarriesBatch, link, server
<1>15. CASE LoseConn
  BY <1>1, <1>15 DEF LoseConn, LatestCarriesBatch, worker, server
<1>16. ASSUME NEW f \in Files, Confirm(f) PROVE LatestCarriesBatch' /\ AckedStored'
  <2> DEFINE dirs == Pruned(completed, CompleteChain(f, confirmed \cup {f}, completed))
  <2>1. Covered(dirs) \subseteq Covered(completed) \cup confirmed \cup {f}
    <3>1. completed \in SUBSET Dirs
      BY DEF TypeOK, Typed
    <3> QED
      BY <3>1, CoveredByChain
  <2>2. Covered(dirs) \subseteq stored /\ confirmed \cup acking \subseteq stored
    BY <1>16, <2>1 DEF Confirm, AckedStored
  <2>3. completed' = dirs /\ saved' \in {saved, dirs} /\ stored' = stored
        /\ confirmed' = confirmed \cup {f} /\ acking' \subseteq acking /\ f \in acking
    BY <1>16 DEF Confirm, server
  <2> HIDE DEF dirs
  <2>4. AckedStored'
    BY <2>2, <2>3 DEF AckedStored, Covered
  <2> QED
    BY <1>16, <2>4 DEF Confirm, LatestCarriesBatch, link, server, wire
<1>17. CASE WorkerRestart
  BY <1>17 DEF WorkerRestart, LatestCarriesBatch, AckedStored, Covered, server
<1>18. CASE ServerRestart
  BY <1>1, <1>18 DEF ServerRestart, LatestCarriesBatch, TypeOK, Typed, worker, link
<1>19. CASE UNCHANGED vars
  BY <1>1, <1>19 DEF vars, LatestCarriesBatch, worker, link, server, wire
<1> QED
  BY <1>2, <1>3, <1>4, <1>5, <1>6, <1>7, <1>8, <1>9, <1>10, <1>11, <1>12, <1>13,
     <1>14, <1>15, <1>16, <1>17, <1>18, <1>19
     DEF Next, Reporting, Reading, Handling

\* What the worker takes as acknowledged, and every file of a directory it calls
\* complete in memory or on disk, is stored by the server.
THEOREM AcknowledgedIsStored == Spec => []AckedStored
<1>1. DeliveryInv => AckedStored
  BY DEF DeliveryInv
<1> QED
  BY InvInit, InvKept, <1>1, PTL DEF Spec

=============================================================================
