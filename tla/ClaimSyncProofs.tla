--------------------------- MODULE ClaimSyncProofs ---------------------------
(***************************************************************************)
(* TLAPS proofs about ClaimSync, for any number of directories, requests,  *)
(* connections and failures: types and unused ids, what a deletion may     *)
(* take away, what a restarted worker goes on with, and, when requests     *)
(* come one after the other, that table, tree and worker agree, and that   *)
(* they do what ClaimReplica does.                                         *)
(***************************************************************************)
EXTENDS ClaimSync, FiniteSetTheorems, SequenceTheorems, TLAPS

\* The handlers that have read a claim and not yet written.
Writing == {r \in Request : pc[r] = "write"}

\* What a handler has in its variables when it needs them; what it has read is older
\* than the next claim.
HandlerOK ==
  \A r \in Request :
    /\ pc[r] # "idle" => local[r].dir \in Dir
    /\ pc[r] = "write" /\ local[r].seen = NoRow => local[r].want \in Kind
    /\ pc[r] \in {"read", "send"} => local[r].wc \in Conn
    /\ local[r].seen.id < nextId

\* A request uses up one id at most, and not before it writes.
IdsLeft == IsFiniteSet(Writing) /\ nextId + Cardinality(Writing) <= requests + 1

TypeInv == TypeOK /\ HandlerOK /\ IdsLeft

-----------------------------------------------------------------------------
LEMMA NoLocalType == NoLocal \in Local
<1>1. Empty \in State /\ NoRow \in Row
  BY DEF Empty, State, Row, NoRow
<1> QED
  BY <1>1 DEF NoLocal, Local

LEMMA TypeStart == Init => TypeInv
<1> SUFFICES ASSUME Init PROVE TypeInv
  OBVIOUS
<1>1. Empty \in State /\ NoRow \in Row
  BY DEF Empty, State, Row, NoRow
<1>2. TypeOK
  <2>1. /\ rows \in [Dir -> Row] /\ local \in [Request -> Local] /\ initial \in [Conn -> State]
        /\ treeClaims \in State /\ claims \in State /\ saved \in State
    BY <1>1, NoLocalType DEF Init
  <2>2. /\ nextId \in 1 .. MaxRequests + 1 /\ requests \in 0 .. MaxRequests
        /\ overwritten \subseteq 1 .. MaxRequests
        /\ errors \in 0 .. MaxErrors /\ drops \in 0 .. MaxDrops
    BY ClaimAssumption DEF Init
  <2>3. \A d, e \in Dir :
          rows[d] # NoRow => rows[d].id < nextId /\ (rows[e].id = rows[d].id => d = e)
    BY DEF Init
  <2>4. /\ pc \in [Request -> {"idle", "write", "scan", "recompute", "find", "read", "send"}]
        /\ saving \in {"no", "writing", "renaming", "lost"}
        /\ hub \in [Conn -> {"none", "registered", "sending", "open"}]
        /\ registered \in Conn \cup {NoConn} /\ online \in Conn \cup {NoConn}
        /\ behind \subseteq Conn
    BY DEF Init
  <2>5. treeBehind \in BOOLEAN
    BY DEF Init
  <2>6. toWorker \in [Conn -> Seq(State)]
    BY DEF Init
  <2> QED
    BY <2>1, <2>2, <2>3, <2>4, <2>5, <2>6 DEF TypeOK
<1>3. HandlerOK
  BY DEF Init, HandlerOK, NoLocal, NoRow
<1>4. Writing = {}
  BY DEF Init, Writing
<1>5. IdsLeft
  BY <1>4, FS_EmptySet DEF Init, IdsLeft
<1> QED
  BY <1>2, <1>3, <1>5 DEF TypeInv

\* A step of one handler that does not make it a writer leaves no more writers; one
\* that lets a writer go leaves one less.
LEMMA WriterLeaves ==
  ASSUME TypeInv, NEW r \in Request, NEW s, s # "write", pc' = [pc EXCEPT ![r] = s]
  PROVE  /\ IsFiniteSet(Writing') /\ Cardinality(Writing') \in Nat
         /\ Cardinality(Writing') <= Cardinality(Writing)
         /\ pc[r] = "write" => Cardinality(Writing') = Cardinality(Writing) - 1
<1>1. IsFiniteSet(Writing) /\ Cardinality(Writing) \in Nat
  BY FS_CardinalityType DEF TypeInv, IdsLeft
<1>2. Writing' = Writing \ {r}
  BY DEF Writing, TypeInv, TypeOK
<1>3. r \in Writing <=> pc[r] = "write"
  BY DEF Writing
<1> HIDE DEF Writing
<1>4. IsFiniteSet(Writing \ {r})
      /\ Cardinality(Writing \ {r}) = IF r \in Writing THEN Cardinality(Writing) - 1 ELSE Cardinality(Writing)
  BY <1>1, FS_RemoveElement
<1>5. Cardinality(Writing \ {r}) \in Nat
  BY <1>4, FS_CardinalityType
<1> QED
  BY <1>1, <1>2, <1>3, <1>4, <1>5

\* A new request is one writer more.
LEMMA WriterComes ==
  ASSUME TypeInv, NEW r \in Request, pc[r] = "idle", pc' = [pc EXCEPT ![r] = "write"]
  PROVE  IsFiniteSet(Writing') /\ Cardinality(Writing') = Cardinality(Writing) + 1
<1>1. IsFiniteSet(Writing) /\ r \notin Writing
  BY DEF TypeInv, IdsLeft, Writing
<1>2. Writing' = Writing \cup {r}
  BY DEF Writing, TypeInv, TypeOK
<1> QED
  BY <1>1, <1>2, FS_AddElement

LEMMA IdsLeftType ==
  ASSUME TypeInv
  PROVE  /\ Cardinality(Writing) \in Nat /\ nextId \in Nat /\ requests \in Nat
         /\ MaxRequests \in Nat /\ nextId <= requests + 1
<1>1. Cardinality(Writing) \in Nat
  BY FS_CardinalityType DEF TypeInv, IdsLeft
<1> QED
  BY <1>1, ClaimAssumption DEF TypeInv, IdsLeft, TypeOK

-----------------------------------------------------------------------------
(* What a step may change.                                                 *)

LEMMA WhoWritesTheTable ==
  ASSUME [Next]_vars
  PROVE  \/ \E r \in Request : SetEffective(r) \/ DeleteRow(r)
         \/ \E r \in Request, d \in Dir : Delete(r, d) \/ \E kind \in Kind : Create(r, d, kind)
         \/ UNCHANGED <<rows, nextId, overwritten, requests>>
BY DEF Next, vars, Serve, KeepClaim, NotFound, ScanAllReclaims, RecomputeClaimed, GetConn,
       GetReclaims, SendReclaims, CutShort, Connect, HandleWS, ReadInitial, SendInitial, HangUp,
       InitialFails, Replace, SaveCompleted, Save, RemoveFile, RenameFile, SaveFails, Drop, Crash, reclaims

LEMMA WhoRunsHandlers ==
  ASSUME [Next]_vars
  PROVE  \/ \E r \in Request, d \in Dir : Delete(r, d) \/ \E kind \in Kind : Create(r, d, kind)
         \/ \E r \in Request : Serve(r) \/ CutShort(r)
         \/ UNCHANGED <<rows, nextId, overwritten, requests, web, treeClaims, treeBehind>>
BY DEF Next, vars, Connect, HandleWS, ReadInitial, SendInitial, HangUp,
       InitialFails, Replace, SaveCompleted, Save, RemoveFile, RenameFile, SaveFails, Drop, Crash, reclaims

LEMMA WhoUsesTheLink ==
  ASSUME [Next]_vars
  PROVE  \/ \E r \in Request : SendReclaims(r) \/ CutShort(r)
         \/ \E c \in Conn : Connect(c) \/ HandleWS(c) \/ InitialFails(c)
         \/ Replace \/ Drop \/ Crash
         \/ UNCHANGED <<socket, behind>>
BY DEF Next, vars, Create, Delete, Serve, SetEffective, KeepClaim, DeleteRow, NotFound,
       ScanAllReclaims, RecomputeClaimed, GetConn, GetReclaims,
       SaveCompleted, Save, RemoveFile, RenameFile, SaveFails, reclaims

LEMMA WhoSaves ==
  ASSUME [Next]_vars
  PROVE  \/ Replace \/ SaveCompleted \/ Save \/ SaveFails \/ Crash
         \/ UNCHANGED worker
BY DEF Next, vars, Create, Delete, Serve, SetEffective, KeepClaim, DeleteRow, NotFound,
       ScanAllReclaims, RecomputeClaimed, GetConn, GetReclaims, SendReclaims, CutShort,
       Connect, HandleWS, ReadInitial, SendInitial, HangUp, InitialFails, Drop, reclaims

LEMMA WhoCounts ==
  ASSUME [Next]_vars
  PROVE  \/ \E r \in Request : ScanAllReclaims(r) \/ RecomputeClaimed(r) \/ CutShort(r)
         \/ \E c \in Conn : InitialFails(c)
         \/ SaveFails \/ Drop \/ Crash
         \/ UNCHANGED <<treeClaims, errors, drops, treeBehind>>
BY DEF Next, vars, Create, Delete, Serve, SetEffective, KeepClaim, DeleteRow, NotFound,
       GetConn, GetReclaims, SendReclaims, Connect, HandleWS, ReadInitial, SendInitial, HangUp,
       Replace, SaveCompleted, Save, RemoveFile, RenameFile, reclaims

-----------------------------------------------------------------------------
(* Types.                                                                  *)

LEMMA ListedType ==
  ASSUME rows \in [Dir -> Row]
  PROVE  Listed \in State
BY DEF Listed, State, Row, NoRow

\* The table: an id is given to one claim, and there are as many ids as requests.
LEMMA TableStep ==
  ASSUME TypeInv, [Next]_vars
  PROVE  /\ rows' \in [Dir -> Row]
         /\ nextId' \in 1 .. MaxRequests + 1 /\ nextId <= nextId'
         /\ requests' \in 0 .. MaxRequests
         /\ \A d, e \in Dir :
              rows'[d] # NoRow => rows'[d].id < nextId' /\ (rows'[e].id = rows'[d].id => d = e)
         /\ IdsLeft'
<1> USE DEF TypeInv
<1>0. /\ Cardinality(Writing) \in Nat /\ nextId \in Nat /\ requests \in Nat
      /\ MaxRequests \in Nat /\ nextId <= requests + 1
  BY IdsLeftType
<1>1. ASSUME NEW r \in Request, SetEffective(r)
      PROVE  /\ rows' \in [Dir -> Row]
             /\ nextId' \in 1 .. MaxRequests + 1 /\ nextId <= nextId'
             /\ requests' \in 0 .. MaxRequests
             /\ \A d, e \in Dir :
                  rows'[d] # NoRow => rows'[d].id < nextId' /\ (rows'[e].id = rows'[d].id => d = e)
             /\ IdsLeft'
  <2> DEFINE d == local[r].dir
             row == [id |-> IF rows[d] = NoRow THEN nextId ELSE rows[d].id, kind |-> local[r].want]
  <2>1. /\ pc[r] = "write" /\ local[r].seen = NoRow /\ requests' = requests
        /\ rows' = [rows EXCEPT ![d] = row]
        /\ nextId' = IF rows[d] = NoRow THEN nextId + 1 ELSE nextId
        /\ pc' = [pc EXCEPT ![r] = "scan"]
    BY <1>1 DEF SetEffective, InsertedId, GoTo, AfterWrite, reclaims
  <2>2. d \in Dir /\ local[r].want \in Kind /\ rows[d] \in Row
    BY <2>1 DEF HandlerOK, TypeOK
  <2>3. /\ IsFiniteSet(Writing') /\ Cardinality(Writing') \in Nat
        /\ Cardinality(Writing') = Cardinality(Writing) - 1
    BY <2>1, WriterLeaves
  <2>4. nextId + Cardinality(Writing) <= requests + 1
    BY DEF IdsLeft
  <2>5. nextId + 1 <= MaxRequests + 1 /\ nextId \in 1 .. MaxRequests
    BY <1>0, <2>3, <2>4 DEF TypeOK
  <2>6. row \in Row /\ row # NoRow
    <3>1. CASE rows[d] = NoRow
      BY <2>2, <2>5, <3>1 DEF Row, NoRow, Kind
    <3>2. CASE rows[d] # NoRow
      BY <2>2, <3>2 DEF Row, NoRow, Kind
    <3> QED
      BY <3>1, <3>2
  <2>7. IdsLeft'
    BY <1>0, <2>1, <2>3, <2>4 DEF IdsLeft
  <2>8. nextId' \in 1 .. MaxRequests + 1 /\ nextId <= nextId'
    BY <1>0, <2>1, <2>5 DEF TypeOK
  <2>9. /\ row.id = IF rows[d] = NoRow THEN nextId ELSE rows[d].id
        /\ rows'[d] = row /\ \A e \in Dir \ {d} : rows'[e] = rows[e]
    BY <2>1, <2>2 DEF TypeOK
  <2> HIDE DEF row, d
  <2>10. ASSUME NEW a \in Dir, NEW b \in Dir, rows'[a] # NoRow
         PROVE  rows'[a].id < nextId' /\ (rows'[b].id = rows'[a].id => a = b)
    <3>1. \A e \in Dir : rows[e] # NoRow => rows[e].id < nextId /\ rows[e].id \in Nat
      BY DEF TypeOK, Row
    <3>2. \A e \in Dir : rows[e] = NoRow => rows[e].id = 0
      BY DEF NoRow
    <3>3. nextId # 0 /\ \A e \in Dir : rows[e] # NoRow => rows[e].id # 0
      BY <2>5 DEF TypeOK, Row
    <3>4. \A e, f \in Dir : rows[e] # NoRow /\ rows[f].id = rows[e].id => e = f
      BY DEF TypeOK
    <3>5. CASE rows[d] = NoRow
      <4>1. row.id = nextId /\ nextId' = nextId + 1
        BY <2>1, <2>9, <3>5
      <4>2. CASE a = d /\ b = d
        BY <2>9, <4>1, <4>2, <1>0
      <4>3. CASE a = d /\ b # d
        BY <2>9, <3>1, <3>2, <3>3, <4>1, <4>3, <1>0
      <4>4. CASE a # d /\ b = d
        BY <2>10, <2>9, <3>1, <4>1, <4>4, <1>0
      <4>5. CASE a # d /\ b # d
        BY <2>10, <2>9, <3>1, <3>4, <4>1, <4>5, <1>0
      <4> QED
        BY <4>2, <4>3, <4>4, <4>5
    <3>6. CASE rows[d] # NoRow
      <4>1. row.id = rows[d].id /\ nextId' = nextId
        BY <2>1, <2>9, <3>6
      <4>2. \A e \in Dir : rows'[e].id = rows[e].id
        BY <2>9, <4>1
      <4>3. rows[a] # NoRow
        BY <2>9, <2>10, <3>6
      <4> QED
        BY <3>1, <3>4, <4>1, <4>2, <4>3
    <3> QED
      BY <3>5, <3>6
  <2>11. rows' \in [Dir -> Row] /\ requests' \in 0 .. MaxRequests
    BY <2>1, <2>6 DEF TypeOK
  <2> QED
    BY <2>7, <2>8, <2>10, <2>11
<1>2. ASSUME NEW r \in Request, DeleteRow(r)
      PROVE  /\ rows' \in [Dir -> Row]
             /\ nextId' \in 1 .. MaxRequests + 1 /\ nextId <= nextId'
             /\ requests' \in 0 .. MaxRequests
             /\ \A d, e \in Dir :
                  rows'[d] # NoRow => rows'[d].id < nextId' /\ (rows'[e].id = rows'[d].id => d = e)
             /\ IdsLeft'
  <2>1. /\ pc[r] = "write" /\ UNCHANGED <<nextId, requests>>
        /\ rows' = [rows EXCEPT ![local[r].dir] = NoRow]
        /\ pc' = [pc EXCEPT ![r] = "scan"]
    BY <1>2 DEF DeleteRow, Deleting, GoTo, AfterWrite, reclaims
  <2>2. NoRow \in Row /\ NoRow.id = 0
    BY DEF Row, NoRow
  <2>3. rows' \in [Dir -> Row] /\ \A d \in Dir : rows'[d] = rows[d] \/ rows'[d] = NoRow
    BY <2>1, <2>2 DEF TypeOK
  <2>4. \A d \in Dir : rows[d] # NoRow => rows[d].id # 0
    BY DEF TypeOK, Row
  <2>5. /\ IsFiniteSet(Writing') /\ Cardinality(Writing') \in Nat
        /\ Cardinality(Writing') <= Cardinality(Writing)
    BY <2>1, WriterLeaves
  <2>6. IdsLeft'
    BY <1>0, <2>1, <2>5 DEF IdsLeft
  <2>7. \A d, e \in Dir :
          rows'[d] # NoRow => rows'[d].id < nextId' /\ (rows'[e].id = rows'[d].id => d = e)
    BY <2>1, <2>2, <2>3, <2>4 DEF TypeOK
  <2> QED
    BY <1>0, <2>1, <2>3, <2>6, <2>7 DEF TypeOK
<1>3. ASSUME NEW r \in Request, NEW d \in Dir, Delete(r, d) \/ \E kind \in Kind : Create(r, d, kind)
      PROVE  /\ UNCHANGED <<rows, nextId>> /\ requests' \in 0 .. MaxRequests /\ IdsLeft'
  <2>1. /\ pc[r] = "idle" /\ UNCHANGED <<rows, nextId>>
        /\ requests < MaxRequests /\ requests' = requests + 1
        /\ pc' = [pc EXCEPT ![r] = "write"]
    BY <1>3 DEF Delete, Create, Begin, GoTo, reclaims
  <2>2. IsFiniteSet(Writing') /\ Cardinality(Writing') = Cardinality(Writing) + 1
    BY <2>1, WriterComes
  <2> QED
    BY <1>0, <2>1, <2>2 DEF IdsLeft
<1>4. CASE UNCHANGED <<rows, nextId, overwritten, requests>> /\ \E r \in Request : Serve(r) \/ CutShort(r)
  <2>1. PICK r \in Request : Serve(r) \/ CutShort(r)
    BY <1>4
  <2>2. PICK s \in {"scan", "recompute", "find", "read", "send", "idle"} : pc' = [pc EXCEPT ![r] = s]
    BY <2>1 DEF Serve, SetEffective, KeepClaim, DeleteRow, NotFound, ScanAllReclaims,
       RecomputeClaimed, GetConn, GetReclaims, SendReclaims, CutShort, GoTo, Return, AfterWrite, reclaims
  <2>3. /\ IsFiniteSet(Writing') /\ Cardinality(Writing') \in Nat
        /\ Cardinality(Writing') <= Cardinality(Writing)
    BY <2>2, WriterLeaves
  <2>4. IdsLeft'
    BY <1>0, <1>4, <2>3 DEF IdsLeft
  <2> QED
    BY <1>0, <1>4, <2>4 DEF TypeOK
<1>5. CASE UNCHANGED <<rows, nextId, overwritten, requests, web>>
  <2>1. IdsLeft'
    BY <1>5 DEF IdsLeft, Writing, web
  <2> QED
    BY <1>0, <1>5, <2>1 DEF TypeOK
<1> QED
  <2>1. CASE \E r \in Request : SetEffective(r) \/ DeleteRow(r)
    BY <1>1, <1>2, <2>1
  <2>2. CASE \E r \in Request, d \in Dir : Delete(r, d) \/ \E kind \in Kind : Create(r, d, kind)
    BY <1>0, <1>3, <2>2 DEF TypeOK
  <2>3. CASE UNCHANGED <<rows, nextId, overwritten, requests>>
    BY <1>4, <1>5, <2>2, <2>3, WhoRunsHandlers
  <2> QED
    BY <2>1, <2>2, <2>3, WhoWritesTheTable

\* Where a handler may be.
Place == {"idle", "write", "scan", "recompute", "find", "read", "send"}

\* A handler that moves on to place s with the variables x.
LEMMA HandlerMoves ==
  ASSUME TypeInv, nextId' \in Nat, nextId <= nextId',
         NEW r \in Request, NEW s \in Place, NEW x \in Local,
         pc' = [pc EXCEPT ![r] = s], local' = [local EXCEPT ![r] = x],
         s # "idle" => x.dir \in Dir,
         s = "write" /\ x.seen = NoRow => x.want \in Kind,
         s \in {"read", "send"} => x.wc \in Conn,
         x.seen.id < nextId'
  PROVE  pc' \in [Request -> Place] /\ local' \in [Request -> Local] /\ HandlerOK'
<1>1. pc \in [Request -> Place] /\ local \in [Request -> Local] /\ nextId \in Nat
  BY ClaimAssumption DEF TypeInv, TypeOK, Place
<1>2. \A q \in Request \ {r} : pc'[q] = pc[q] /\ local'[q] = local[q]
  BY <1>1
<1>3. pc'[r] = s /\ local'[r] = x
  BY <1>1
<1>4. \A q \in Request : local[q].seen.id \in Nat
  BY <1>1, ClaimAssumption DEF Local, Row, NoRow
<1>5. \A q \in Request \ {r} : local'[q].seen.id < nextId'
  BY <1>1, <1>2, <1>4 DEF TypeInv, HandlerOK
<1>6. HandlerOK'
  BY <1>2, <1>3, <1>5 DEF TypeInv, HandlerOK
<1> QED
  BY <1>1, <1>6

LEMMA HandlersStep ==
  ASSUME TypeInv, [Next]_vars
  PROVE  pc' \in [Request -> Place] /\ local' \in [Request -> Local] /\ HandlerOK'
<1> USE DEF TypeInv
<1>0. /\ pc \in [Request -> Place] /\ local \in [Request -> Local]
      /\ nextId' \in Nat /\ nextId \in Nat /\ nextId <= nextId' /\ nextId \in 1 .. MaxRequests + 1
  BY TableStep, ClaimAssumption DEF TypeOK, Place
<1>1. \A d \in Dir : rows[d] \in Row /\ rows[d].id < nextId
  <2>1. NoRow.id < nextId
    BY <1>0 DEF NoRow
  <2> QED
    BY <2>1 DEF TypeOK
<1>2. ASSUME NEW r \in Request, NEW d \in Dir, Delete(r, d)
      PROVE  pc' \in [Request -> Place] /\ local' \in [Request -> Local] /\ HandlerOK'
  <2> DEFINE x == [local[r] EXCEPT !.dir = d, !.seen = rows[d]]
  <2>1. /\ pc' = [pc EXCEPT ![r] = "write"] /\ local' = [local EXCEPT ![r] = x]
        /\ rows[d] # NoRow /\ UNCHANGED nextId
    BY <1>0, <1>2 DEF Delete, GoTo, reclaims
  <2>2. x \in Local /\ x.dir = d /\ x.seen = rows[d]
    BY <1>0, <1>1 DEF Local
  <2> HIDE DEF x
  <2> QED
    BY <1>0, <1>1, <2>1, <2>2, HandlerMoves DEF Place
<1>3. ASSUME NEW r \in Request, NEW d \in Dir, NEW kind \in Kind, Create(r, d, kind)
      PROVE  pc' \in [Request -> Place] /\ local' \in [Request -> Local] /\ HandlerOK'
  <2> DEFINE x == [local[r] EXCEPT !.dir = d, !.want = kind, !.seen = rows[d]]
  <2>1. /\ pc' = [pc EXCEPT ![r] = "write"] /\ local' = [local EXCEPT ![r] = x]
        /\ UNCHANGED nextId
    BY <1>0, <1>3 DEF Create, GoTo, reclaims
  <2>2. x \in Local /\ x.dir = d /\ x.seen = rows[d] /\ x.want = kind
    BY <1>0, <1>1 DEF Local
  <2> HIDE DEF x
  <2> QED
    BY <1>0, <1>1, <2>1, <2>2, HandlerMoves DEF Place
<1>4. ASSUME NEW r \in Request, SetEffective(r) \/ KeepClaim(r) \/ DeleteRow(r) \/ RecomputeClaimed(r)
      PROVE  pc' \in [Request -> Place] /\ local' \in [Request -> Local] /\ HandlerOK'
  <2>1. local' = [local EXCEPT ![r] = local[r]]
    BY <1>0, <1>4 DEF SetEffective, KeepClaim, DeleteRow, RecomputeClaimed, reclaims
  <2>2. pc[r] # "idle" /\ \E s \in {"scan", "find"} : pc' = [pc EXCEPT ![r] = s]
    BY <1>4 DEF SetEffective, KeepClaim, DeleteRow, Deleting, RecomputeClaimed, GoTo, AfterWrite, reclaims
  <2>3. local[r] \in Local /\ local[r].dir \in Dir /\ local[r].seen.id < nextId
    BY <1>0, <2>2 DEF HandlerOK
  <2>4. local[r].seen.id < nextId'
    <3>1. local[r].seen.id \in Nat
      BY <2>3, ClaimAssumption DEF Local, Row, NoRow
    <3> QED
      BY <1>0, <2>3, <3>1
  <2>5. PICK s \in {"scan", "find"} : pc' = [pc EXCEPT ![r] = s]
    BY <2>2
  <2> QED
    BY <1>0, <2>1, <2>3, <2>4, <2>5, HandlerMoves DEF Place
<1>5. ASSUME NEW r \in Request, Return(r), UNCHANGED nextId
      PROVE  pc' \in [Request -> Place] /\ local' \in [Request -> Local] /\ HandlerOK'
  <2>1. pc' = [pc EXCEPT ![r] = "idle"] /\ local' = [local EXCEPT ![r] = NoLocal]
    BY <1>5 DEF Return, GoTo
  <2>2. NoLocal \in Local /\ NoLocal.seen.id < nextId'
    BY <1>0, <1>5, NoLocalType DEF NoLocal, NoRow
  <2> QED
    BY <1>0, <2>1, <2>2, HandlerMoves DEF Place
<1>6. ASSUME NEW r \in Request, ScanAllReclaims(r) \/ GetConn(r) \/ GetReclaims(r), ~ Return(r)
      PROVE  pc' \in [Request -> Place] /\ local' \in [Request -> Local] /\ HandlerOK'
  <2>1. Listed \in State
    BY ListedType DEF TypeOK
  <2>2. /\ pc[r] # "idle" /\ UNCHANGED nextId
        /\ \/ /\ pc' = [pc EXCEPT ![r] = "recompute"]
              /\ local' = [local EXCEPT ![r].list = Listed]
           \/ /\ pc' = [pc EXCEPT ![r] = "read"] /\ registered # NoConn
              /\ local' = [local EXCEPT ![r].wc = registered]
           \/ /\ pc' = [pc EXCEPT ![r] = "send"] /\ pc[r] = "read"
              /\ local' = [local EXCEPT ![r].list = Listed]
    BY <1>6 DEF ScanAllReclaims, GetConn, GetReclaims, GoTo, reclaims
  <2>3. /\ local[r] \in Local /\ local[r].dir \in Dir /\ local[r].seen.id < nextId
        /\ pc[r] = "read" => local[r].wc \in Conn
        /\ registered \in Conn \cup {NoConn}
    BY <1>0, <2>2 DEF HandlerOK, TypeOK
  <2>4. ASSUME NEW s \in Place, NEW x \in Local, x.dir = local[r].dir, x.seen = local[r].seen,
               s \in {"read", "send"} => x.wc \in Conn, s # "write",
               pc' = [pc EXCEPT ![r] = s], local' = [local EXCEPT ![r] = x]
        PROVE  pc' \in [Request -> Place] /\ local' \in [Request -> Local] /\ HandlerOK'
    BY <1>0, <2>2, <2>3, <2>4, HandlerMoves
  <2>5. CASE pc' = [pc EXCEPT ![r] = "read"] /\ registered # NoConn
             /\ local' = [local EXCEPT ![r].wc = registered]
    <3> DEFINE x == [local[r] EXCEPT !.wc = registered]
    <3>1. x \in Local /\ x.dir = local[r].dir /\ x.seen = local[r].seen /\ x.wc \in Conn
      BY <2>3, <2>5 DEF Local
    <3>2. local' = [local EXCEPT ![r] = x]
      BY <1>0, <2>5
    <3> HIDE DEF x
    <3> QED
      BY <2>4, <2>5, <3>1, <3>2 DEF Place
  <2>6. ASSUME NEW s \in {"recompute", "send"}, s = "send" => pc[r] = "read",
               pc' = [pc EXCEPT ![r] = s], local' = [local EXCEPT ![r].list = Listed]
        PROVE  pc' \in [Request -> Place] /\ local' \in [Request -> Local] /\ HandlerOK'
    <3> DEFINE x == [local[r] EXCEPT !.list = Listed]
    <3>1. x \in Local /\ x.dir = local[r].dir /\ x.seen = local[r].seen /\ x.wc = local[r].wc
      BY <2>1, <2>3 DEF Local
    <3>2. local' = [local EXCEPT ![r] = x]
      BY <1>0, <2>6
    <3> HIDE DEF x
    <3> QED
      BY <2>3, <2>4, <2>6, <3>1, <3>2 DEF Place
  <2> QED
    BY <2>2, <2>5, <2>6
<1>7. ASSUME UNCHANGED <<rows, nextId, overwritten, requests, web>>
      PROVE  pc' \in [Request -> Place] /\ local' \in [Request -> Local] /\ HandlerOK'
  BY <1>0, <1>7 DEF web, HandlerOK
<1>8. ASSUME NEW r \in Request, Serve(r) \/ CutShort(r)
      PROVE  pc' \in [Request -> Place] /\ local' \in [Request -> Local] /\ HandlerOK'
  <2>1. \/ SetEffective(r) \/ KeepClaim(r) \/ DeleteRow(r) \/ RecomputeClaimed(r)
        \/ Return(r) /\ UNCHANGED nextId
        \/ (ScanAllReclaims(r) \/ GetConn(r) \/ GetReclaims(r)) /\ ~ Return(r)
    BY <1>8 DEF Serve, NotFound, SendReclaims, CutShort, ScanAllReclaims, GetConn, GetReclaims, reclaims
  <2> QED
    BY <2>1, <1>4, <1>5, <1>6
<1> QED
  BY <1>2, <1>3, <1>7, <1>8, WhoRunsHandlers

\* Connections, pushes and what was cut short on them.
LEMMA LinkStep ==
  ASSUME TypeInv, [Next]_vars
  PROVE  /\ hub' \in [Conn -> {"none", "registered", "sending", "open"}]
         /\ initial' \in [Conn -> State]
         /\ registered' \in Conn \cup {NoConn} /\ online' \in Conn \cup {NoConn}
         /\ toWorker' \in [Conn -> Seq(State)]
         /\ behind' \subseteq Conn
<1> DEFINE Hub == {"none", "registered", "sending", "open"}
           Typed == /\ hub' \in [Conn -> Hub] /\ initial' \in [Conn -> State]
                    /\ registered' \in Conn \cup {NoConn} /\ online' \in Conn \cup {NoConn}
                    /\ toWorker' \in [Conn -> Seq(State)] /\ behind' \subseteq Conn
<1>0. /\ hub \in [Conn -> Hub] /\ initial \in [Conn -> State]
      /\ registered \in Conn \cup {NoConn} /\ online \in Conn \cup {NoConn}
      /\ toWorker \in [Conn -> Seq(State)] /\ behind \subseteq Conn
      /\ local \in [Request -> Local] /\ rows \in [Dir -> Row]
  BY DEF TypeInv, TypeOK
<1>1. ASSUME NEW c \in Conn, NEW list \in State, Pushed(c, list)
      PROVE  toWorker' \in [Conn -> Seq(State)]
  <2>1. Append(toWorker[c], list) \in Seq(State)
    BY <1>0
  <2> QED
    BY <1>0, <1>1, <2>1 DEF Pushed
<1>2. ASSUME NEW r \in Request, SendReclaims(r) PROVE Typed
  <2>1. local[r].wc \in Conn /\ local[r].list \in State
    BY <1>0, <1>2 DEF SendReclaims, TypeInv, HandlerOK, Local, reclaims
  <2>2. Pushed(local[r].wc, local[r].list)
    BY <1>2 DEF SendReclaims, reclaims
  <2>3. toWorker' \in [Conn -> Seq(State)]
    BY <1>1, <2>1, <2>2
  <2> QED
    BY <1>0, <1>2, <2>3 DEF SendReclaims, reclaims
<1>3. ASSUME NEW r \in Request, CutShort(r) PROVE Typed
  <2>1. Target(r) \subseteq Conn
    BY <1>0, <1>3 DEF Target, CutShort, TypeInv, HandlerOK, reclaims
  <2> QED
    BY <1>0, <1>3, <2>1 DEF CutShort, socket, reclaims
<1>4. ASSUME NEW c \in Conn, Connect(c) \/ ReadInitial(c) \/ HangUp(c) \/ InitialFails(c)
      PROVE  Typed
  <2>1. Listed \in State
    BY <1>0, ListedType
  <2>2. CASE Connect(c)
    BY <1>0, <2>2 DEF Connect, reclaims
  <2>3. CASE ReadInitial(c)
    BY <1>0, <2>1, <2>3 DEF ReadInitial, reclaims
  <2>4. CASE HangUp(c)
    BY <1>0, <2>4 DEF HangUp, reclaims
  <2>5. CASE InitialFails(c)
    BY <1>0, <2>5 DEF InitialFails, reclaims
  <2> QED
    BY <1>4, <2>2, <2>3, <2>4, <2>5
<1>5. ASSUME NEW c \in Conn, SendInitial(c) PROVE Typed
  <2>1. Empty \in State /\ initial[c] \in State
    BY <1>0 DEF Empty, State
  <2>2. Pushed(c, initial[c])
    BY <1>5 DEF SendInitial, reclaims
  <2>3. toWorker' \in [Conn -> Seq(State)]
    BY <1>1, <2>1, <2>2
  <2> QED
    BY <1>0, <1>5, <2>1, <2>3 DEF SendInitial, reclaims
<1>6. CASE Replace
  <2>1. online \in Conn /\ Tail(toWorker[online]) \in Seq(State)
    BY <1>0, <1>6 DEF Replace, reclaims
  <2> QED
    BY <1>0, <1>6, <2>1 DEF Replace, reclaims
<1>7. CASE Drop
  BY <1>0, <1>7 DEF Drop, reclaims
<1>8. CASE Crash
  BY <1>0, <1>8 DEF Crash, reclaims
<1>9. CASE UNCHANGED <<socket, behind>>
  BY <1>0, <1>9 DEF socket
<1> QED
  BY <1>2, <1>3, <1>4, <1>5, <1>6, <1>7, <1>8, <1>9, WhoUsesTheLink DEF HandleWS

\* The worker's list and its file.
LEMMA WorkerStep ==
  ASSUME TypeInv, [Next]_vars
  PROVE  /\ claims' \in State /\ saved' \in State \cup {NoFile}
         /\ saving' \in {"no", "writing", "renaming", "lost"}
<1>0. /\ claims \in State /\ saved \in State \cup {NoFile}
      /\ saving \in {"no", "writing", "renaming", "lost"}
      /\ toWorker \in [Conn -> Seq(State)] /\ online \in Conn \cup {NoConn}
  BY DEF TypeInv, TypeOK
<1>1. CASE Replace
  <2>1. online \in Conn /\ toWorker[online] \in Seq(State) /\ toWorker[online] # <<>>
    BY <1>0, <1>1 DEF Replace, reclaims
  <2>2. Head(toWorker[online]) \in State
    BY <2>1
  <2> QED
    BY <1>0, <1>1, <2>2 DEF Replace, reclaims
<1>2. CASE SaveCompleted \/ Save \/ SaveFails
  BY <1>0, <1>2 DEF SaveCompleted, Save, RemoveFile, RenameFile, SaveFails, reclaims
<1>3. CASE Crash
  BY <1>0, <1>3 DEF Crash, Empty, State, reclaims
<1>4. CASE UNCHANGED worker
  BY <1>0, <1>4 DEF worker
<1> QED
  BY <1>1, <1>2, <1>3, <1>4, WhoSaves

\* The tree's list, and what has gone wrong so far.
LEMMA CountStep ==
  ASSUME TypeInv, [Next]_vars
  PROVE  /\ treeClaims' \in State
         /\ errors' \in 0 .. MaxErrors /\ drops' \in 0 .. MaxDrops
         /\ treeBehind' \in BOOLEAN
<1>0. /\ treeClaims \in State /\ errors \in 0 .. MaxErrors /\ drops \in 0 .. MaxDrops
      /\ local \in [Request -> Local]
  BY DEF TypeInv, TypeOK
<1>1. errors' \in 0 .. MaxErrors /\ drops' \in 0 .. MaxDrops
  <2>1. /\ errors' = errors \/ (errors < MaxErrors /\ errors' = errors + 1)
        /\ drops' = drops \/ (drops < MaxDrops /\ drops' = drops + 1)
    BY WhoCounts
       DEF ScanAllReclaims, RecomputeClaimed, CutShort, InitialFails, SaveFails, Drop, Crash, reclaims
  <2> QED
    BY <1>0, <2>1, ClaimAssumption
<1>2. treeClaims' \in State
  BY <1>0, WhoCounts
     DEF ScanAllReclaims, RecomputeClaimed, CutShort, InitialFails, SaveFails, Drop, Crash, Local, reclaims
<1>3. treeBehind' \in BOOLEAN
  <2>1. treeBehind \in BOOLEAN
    BY DEF TypeInv, TypeOK
  <2> QED
    BY <2>1, WhoCounts
       DEF ScanAllReclaims, RecomputeClaimed, CutShort, InitialFails, SaveFails, Drop, Crash, reclaims
<1> QED
  BY <1>1, <1>2, <1>3

\* What is overwritten has an id.
LEMMA OverwrittenStep ==
  ASSUME TypeInv, [Next]_vars
  PROVE  overwritten' \subseteq 1 .. MaxRequests
<1>0. rows \in [Dir -> Row] /\ overwritten \subseteq 1 .. MaxRequests
  BY DEF TypeInv, TypeOK
<1>1. ASSUME NEW r \in Request, SetEffective(r) PROVE overwritten' \subseteq 1 .. MaxRequests
  <2>1. /\ local[r].dir \in Dir
        /\ overwritten' = overwritten \cup ({rows[local[r].dir].id} \ {NoRow.id})
    BY <1>1 DEF SetEffective, TypeInv, HandlerOK
  <2>2. rows[local[r].dir] \in Row
    BY <1>0, <2>1
  <2>3. rows[local[r].dir].id \in 1 .. MaxRequests \/ rows[local[r].dir].id = NoRow.id
    BY <2>2 DEF Row
  <2> QED
    BY <1>0, <2>1, <2>3
<1> QED
  BY <1>0, <1>1, WhoWritesTheTable DEF DeleteRow, Delete, Create, reclaims

LEMMA TypeStep ==
  ASSUME TypeInv, [Next]_vars
  PROVE  TypeInv'
<1>1. treeBehind' \in BOOLEAN
  BY CountStep
<1>2. /\ pc' \in [Request -> Place] /\ local' \in [Request -> Local] /\ HandlerOK'
  BY HandlersStep
<1>3. TypeOK'
  BY <1>1, <1>2, TableStep, OverwrittenStep, LinkStep, WorkerStep, CountStep DEF TypeOK, Place
<1> QED
  BY <1>2, <1>3, TableStep DEF TypeInv

THEOREM Typing == Spec => []TypeInv
<1>1. TypeInv /\ UNCHANGED vars => TypeInv'
  BY TypeStep
<1> QED
  BY TypeStart, TypeStep, PTL DEF Spec

\* Types, and ids: no two rows share one and the next is larger than all of them, for
\* any number of directories, requests and connections (the claims handlers of
\* internal/server/handler.go and db.go).
THEOREM TypeCorrect == Spec => []TypeOK
<1>1. TypeInv => TypeOK
  BY DEF TypeInv
<1> QED
  BY <1>1, Typing, PTL

-----------------------------------------------------------------------------
(* What holds however requests, connections and failures overlap.          *)

\* What a handler is about to act on is still so, or gone, or was written over.
ReadStands ==
  \A r \in Request :
    pc[r] = "write" /\ rows[local[r].dir].id = local[r].seen.id =>
      local[r].seen = rows[local[r].dir] \/ local[r].seen.id \in overwritten

LEMMA ReadStandsKept ==
  ASSUME TypeInv, ReadStands, [Next]_vars
  PROVE  ReadStands'
<1> SUFFICES ASSUME NEW q \in Request, pc'[q] = "write",
                    rows'[local'[q].dir].id = local'[q].seen.id
             PROVE  local'[q].seen = rows'[local'[q].dir] \/ local'[q].seen.id \in overwritten'
  BY DEF ReadStands
<1>0. /\ rows \in [Dir -> Row] /\ pc \in [Request -> Place] /\ local \in [Request -> Local]
      /\ nextId \in 1 .. MaxRequests + 1
  BY DEF TypeInv, TypeOK, Place
<1>1. ASSUME pc[q] = "write"
      PROVE  /\ local[q].dir \in Dir /\ local[q].seen \in Row
             /\ local[q].seen.id < nextId
  BY <1>0, <1>1 DEF TypeInv, HandlerOK, Local
<1>2. ASSUME pc[q] = "write", local'[q] = local[q], UNCHANGED <<rows, overwritten>>
      PROVE  local'[q].seen = rows'[local'[q].dir] \/ local'[q].seen.id \in overwritten'
  BY <1>2 DEF ReadStands
\* A handler that has just read the table has read what is there.
<1>3. ASSUME NEW r \in Request, NEW d \in Dir, Delete(r, d) \/ \E kind \in Kind : Create(r, d, kind)
      PROVE  local'[q].seen = rows'[local'[q].dir] \/ local'[q].seen.id \in overwritten'
  <2>0. UNCHANGED <<rows, overwritten>>
    BY <1>3 DEF Delete, Create, reclaims
  <2>1. CASE q = r
    <3>1. PICK kind \in Kind \cup {"delete"} :
            local' \in {[local EXCEPT ![r].dir = d, ![r].want = kind, ![r].seen = rows[d]],
                       [local EXCEPT ![r].dir = d, ![r].seen = rows[d]]}
      BY <1>3 DEF Delete, Create
    <3>2. local'[r].dir = d /\ local'[r].seen = rows[d]
      BY <1>0, <3>1 DEF Local
    <3> QED
      BY <2>0, <2>1, <3>2
  <2>2. CASE q # r
    BY <1>0, <1>2, <1>3, <2>0, <2>2 DEF Delete, Create, GoTo
  <2> QED
    BY <2>1, <2>2
\* A creation gives its row a new id, or writes over the one that is there.
<1>4. ASSUME NEW r \in Request, SetEffective(r)
      PROVE  local'[q].seen = rows'[local'[q].dir] \/ local'[q].seen.id \in overwritten'
  <2> DEFINE d == local[r].dir
  <2>1. /\ q # r /\ pc[q] = "write" /\ local' = local /\ d \in Dir
    BY <1>0, <1>4 DEF SetEffective, GoTo, AfterWrite, Place, TypeInv, HandlerOK
  <2>2. CASE d # local[q].dir
    <3>1. rows'[local[q].dir] = rows[local[q].dir] /\ overwritten \subseteq overwritten'
      BY <1>0, <1>1, <1>4, <2>1, <2>2 DEF SetEffective
    <3> QED
      BY <2>1, <3>1 DEF ReadStands
  <2>3. CASE d = local[q].dir /\ rows[d] = NoRow
    <3>1. rows'[d].id = nextId
      BY <1>0, <1>4, <2>1, <2>3 DEF SetEffective, InsertedId
    <3>2. local[q].seen.id \in Nat
      BY <1>1, <2>1 DEF Row, NoRow
    <3> QED
      BY <1>0, <1>1, <2>1, <2>3, <3>1, <3>2, ClaimAssumption
  <2>4. CASE d = local[q].dir /\ rows[d] # NoRow
    <3>1. rows'[d].id = rows[d].id /\ rows[d].id \in overwritten'
      <4>1. rows[d].id # NoRow.id
        BY <1>0, <2>1, <2>4 DEF Row, NoRow
      <4> QED
        BY <1>0, <1>4, <2>1, <2>4, <4>1 DEF SetEffective
    <3> QED
      BY <2>1, <2>4, <3>1
  <2> QED
    BY <2>2, <2>3, <2>4
\* Where a row has gone, whoever read one no longer finds its id.
<1>5. ASSUME NEW r \in Request, DeleteRow(r)
      PROVE  local'[q].seen = rows'[local'[q].dir] \/ local'[q].seen.id \in overwritten'
  <2>1. /\ q # r /\ pc[q] = "write" /\ local' = local /\ overwritten' = overwritten
        /\ rows' = [rows EXCEPT ![local[r].dir] = NoRow]
    BY <1>0, <1>5 DEF DeleteRow, GoTo, AfterWrite, Place
  <2>2. CASE local[q].dir = local[r].dir
    <3>1. local[q].seen.id = NoRow.id
      BY <1>0, <1>1, <2>1, <2>2
    <3>2. local[q].seen = NoRow
      BY <1>1, <2>1, <3>1 DEF Row, NoRow
    <3> QED
      BY <1>0, <1>1, <2>1, <2>2, <3>2
  <2>3. CASE local[q].dir # local[r].dir
    BY <1>0, <1>1, <2>1, <2>3 DEF ReadStands
  <2> QED
    BY <2>2, <2>3
\* The others leave the table alone, and those about to write.
<1>6. ASSUME NEW r \in Request, Serve(r) \/ CutShort(r), UNCHANGED <<rows, overwritten>>
      PROVE  local'[q].seen = rows'[local'[q].dir] \/ local'[q].seen.id \in overwritten'
  <2>1. PICK s \in {"scan", "recompute", "find", "read", "send", "idle"} :
           /\ pc' = [pc EXCEPT ![r] = s]
           /\ \A p \in Request : p # r => local'[p] = local[p]
    BY <1>0, <1>6 DEF Serve, SetEffective, KeepClaim, DeleteRow, NotFound, ScanAllReclaims,
       RecomputeClaimed, GetConn, GetReclaims, SendReclaims, CutShort, GoTo, Return, AfterWrite
  <2> QED
    BY <1>0, <1>2, <1>6, <2>1
<1>7. CASE UNCHANGED <<rows, overwritten, web>>
  BY <1>2, <1>7 DEF web
<1> QED
  <2>1. CASE \E r \in Request : Serve(r) \/ CutShort(r)
    <3>1. CASE UNCHANGED <<rows, nextId, overwritten, requests>>
      BY <1>6, <2>1, <3>1
    <3> QED
      BY <1>3, <1>4, <1>5, <3>1, WhoWritesTheTable
  <2>2. CASE UNCHANGED <<rows, nextId, overwritten, requests, web, treeClaims, treeBehind>>
    BY <1>7, <2>2
  <2> QED
    BY <1>3, <2>1, <2>2, WhoRunsHandlers

\* A row goes away only by the DELETE or the opposite claim that has read that very
\* claim, its id and its kind, unless a creation that had found nothing has since
\* written over it (handleCreateClaim, handleDeleteClaim, SetEffectiveReclaimByKey
\* and DeleteReclaimByKey).
THEOREM ClaimsRemovedAsRead == Spec => RemovedAsRead
<1> DEFINE Gone(d, r) == /\ pc[r] = "write" /\ pc'[r] # "write"
                         /\ local[r].seen.id = rows[d].id
                         /\ rows[d].id \notin overwritten => local[r].seen = rows[d]
           Takes == \A d \in Dir : rows[d] # NoRow /\ rows'[d] = NoRow =>
                      \E r \in Request : Gone(d, r)
<1>1. ASSUME TypeInv, ReadStands, [Next]_vars PROVE Takes
  <2> SUFFICES ASSUME NEW d \in Dir, rows[d] # NoRow, rows'[d] = NoRow
               PROVE  \E r \in Request : Gone(d, r)
    OBVIOUS
  <2>0. rows \in [Dir -> Row] /\ pc \in [Request -> Place]
    BY <1>1 DEF TypeInv, TypeOK, Place
  <2>1. ASSUME NEW r \in Request, SetEffective(r) PROVE FALSE
    <3>1. local[r].want \in Kind
      BY <1>1, <2>1 DEF SetEffective, TypeInv, HandlerOK
    <3>2. rows'[d] = rows[d] \/ rows'[d].kind = local[r].want
      BY <2>0, <2>1 DEF SetEffective
    <3>3. NoRow.kind \notin Kind
      BY DEF NoRow, Kind
    <3> QED
      BY <3>1, <3>2, <3>3
  <2>2. ASSUME NEW r \in Request, DeleteRow(r)
        PROVE  Gone(d, r)
    <3>1. d = local[r].dir
      BY <2>0, <2>2 DEF DeleteRow
    <3>2. pc[r] = "write" /\ pc'[r] # "write" /\ local[r].seen.id = rows[d].id
      BY <2>0, <2>2, <3>1 DEF DeleteRow, Deleting, StillThere, GoTo, AfterWrite, Place
    <3> QED
      BY <1>1, <3>1, <3>2 DEF ReadStands
  <2>3. \E r \in Request : DeleteRow(r)
    BY <1>1, <2>1, WhoWritesTheTable DEF Delete, Create, reclaims
  <2> QED
    BY <2>2, <2>3
<1>2. TypeInv /\ ReadStands /\ [Next]_vars => [Takes]_vars
  BY <1>1
<1>3. Init => ReadStands
  BY DEF Init, ReadStands
<1>4. TypeInv /\ ReadStands /\ [Next]_vars => ReadStands'
  BY ReadStandsKept
<1> HIDE DEF Takes
<1>5. Spec => [][Takes]_vars
  BY <1>2, <1>3, <1>4, Typing, PTL DEF Spec
<1> QED
  BY <1>5 DEF Takes, RemovedAsRead

\* An id that is gone does not come back, not even for a claim of the same directory:
\* a row has the id it had or a new one, and everything a handler has read is older
\* than that.  (A claim that is written over another does keep its row's id.)
THEOREM IdsNotReused ==
  Spec => [][\A d \in Dir : rows'[d] # NoRow /\ rows'[d].id # rows[d].id =>
               /\ rows'[d].id >= nextId
               /\ \A e \in Dir : rows[e].id < rows'[d].id
               /\ \A r \in Request : local[r].seen.id < rows'[d].id]_vars
<1> DEFINE Fresh == \A d \in Dir : rows'[d] # NoRow /\ rows'[d].id # rows[d].id =>
               /\ rows'[d].id >= nextId
               /\ \A e \in Dir : rows[e].id < rows'[d].id
               /\ \A r \in Request : local[r].seen.id < rows'[d].id
<1>1. ASSUME TypeInv, [Next]_vars PROVE Fresh
  <2> SUFFICES ASSUME NEW d \in Dir, rows'[d] # NoRow, rows'[d].id # rows[d].id
               PROVE  /\ rows'[d].id >= nextId
                      /\ \A e \in Dir : rows[e].id < rows'[d].id
                      /\ \A r \in Request : local[r].seen.id < rows'[d].id
    OBVIOUS
  <2>0. rows \in [Dir -> Row] /\ nextId \in 1 .. MaxRequests + 1
    BY <1>1 DEF TypeInv, TypeOK
  <2>1. PICK r \in Request : SetEffective(r) \/ DeleteRow(r)
    BY <1>1, WhoWritesTheTable DEF Delete, Create, reclaims
  <2>2. rows'[d].id = nextId
    <3>1. CASE SetEffective(r)
      BY <2>0, <3>1 DEF SetEffective, InsertedId, reclaims
    <3>2. CASE DeleteRow(r)
      BY <2>0, <3>2 DEF DeleteRow, reclaims
    <3> QED
      BY <2>1, <3>1, <3>2
  <2>3. nextId >= nextId
    BY <2>0, ClaimAssumption
  <2>4. \A e \in Dir : rows[e].id < nextId
    <3>1. NoRow.id < nextId
      BY <2>0, ClaimAssumption DEF NoRow
    <3> QED
      BY <1>1, <3>1 DEF TypeInv, TypeOK
  <2> QED
    BY <1>1, <2>2, <2>3, <2>4 DEF TypeInv, HandlerOK
<1>2. TypeInv /\ [Next]_vars => [Fresh]_vars
  BY <1>1
<1> HIDE DEF Fresh
<1>3. Spec => [][Fresh]_vars
  BY <1>2, Typing, PTL DEF Spec
<1> QED
  BY <1>3 DEF Fresh

\* What the worker goes on with after a restart is the list in force, as long as no
\* save has failed (claimState.apply, RuntimeStore.UpdateClaims and config.Save).
THEOREM RestartKept == Spec => []RestartKeepsClaims
<1>1. Init => RestartKeepsClaims
  BY DEF Init, RestartKeepsClaims
<1>2. ASSUME TypeInv, RestartKeepsClaims, [Next]_vars PROVE RestartKeepsClaims'
  <2> SUFFICES ASSUME saving' = "no", errors' = 0 PROVE saved' = claims'
    BY DEF RestartKeepsClaims
  <2>1. errors = 0
    <3>1. errors' = errors \/ errors' = errors + 1
      BY <1>2, WhoCounts
         DEF ScanAllReclaims, RecomputeClaimed, CutShort, InitialFails, SaveFails, Drop, Crash, reclaims
    <3>2. errors \in Nat
      BY <1>2, ClaimAssumption DEF TypeInv, TypeOK
    <3> QED
      BY <3>1, <3>2
  <2>2. saving = "no" => saved = claims
    BY <1>2, <2>1 DEF RestartKeepsClaims
  <2>3. CASE Replace
    BY <2>2, <2>3 DEF Replace, Persisted, reclaims
  <2>4. CASE SaveCompleted \/ Save
    BY <2>4 DEF SaveCompleted, Save, RemoveFile, RenameFile, reclaims
  <2>5. CASE SaveFails
    BY <2>1, <2>5 DEF SaveFails, reclaims
  <2>6. CASE Crash
    BY <2>6 DEF Crash, reclaims
  <2>7. CASE UNCHANGED worker
    BY <2>2, <2>7 DEF worker
  <2> QED
    BY <1>2, <2>3, <2>4, <2>5, <2>6, <2>7, WhoSaves
<1>3. RestartKeepsClaims /\ UNCHANGED vars => RestartKeepsClaims'
  BY DEF RestartKeepsClaims, vars, worker, reclaims
<1> QED
  BY <1>1, <1>2, <1>3, Typing, PTL DEF Spec

-----------------------------------------------------------------------------
(* What holds when requests, and connecting, come one after the other.     *)

\* One request at a time, none while a worker is being let in, and one worker
\* connection being let in at a time.
SerialOne ==
  /\ \A q, r \in Request : pc[q] # "idle" /\ pc[r] # "idle" => q = r
  /\ \A r \in Request : pc[r] # "idle" => Synced
  /\ \A c, e \in Conn : {hub[c], hub[e]} \subseteq {"registered", "sending"} => c = e

\* The hub has the connection the worker reads, and only that one carries pushes.
LinkOK ==
  /\ online # NoConn => registered = online /\ hub[online] # "none"
  /\ \A c \in Conn : c # online => toWorker[c] = <<>>

\* What was read from Hub.conns and the table and not yet used is still what is there.
ReadsOK ==
  /\ \A r \in Request : pc[r] \in {"read", "send"} /\ online # NoConn => local[r].wc = online
  /\ \A r \in Request : pc[r] \in {"recompute", "send"} => local[r].list = Listed
  /\ \A r \in Request : pc[r] = "recompute" => ~treeBehind
  /\ \A c \in Conn : hub[c] = "sending" => initial[c] = Listed

\* A tree that no handler is about to refresh, and no refresh was cut short for.
TreeOK ==
  (\A r \in Request : pc[r] \notin {"scan", "recompute"}) /\ ~treeBehind => treeClaims = Listed

\* The list the worker will have when it has read what is on the wire.
Newest == IF toWorker[online] = <<>> THEN claims ELSE toWorker[online][Len(toWorker[online])]

\* A worker that no handler is about to push to, and no push was cut short for.
WorkerOK ==
  /\ online # NoConn /\ hub[online] = "open" /\ online \notin behind
  /\ \A r \in Request : pc[r] \in {"idle", "write"}
  => Newest = Listed

SerialInv == SerialOne /\ LinkOK /\ ReadsOK /\ TreeOK /\ WorkerOK

LEMMA SerialStart == Init => SerialInv
BY DEF Init, SerialInv, SerialOne, LinkOK, ReadsOK, TreeOK, WorkerOK, Listed, Empty, NoRow

\* A request begins alone, with no worker being let in.
LEMMA Beginning ==
  ASSUME TypeInv, Overlap = FALSE, NEW r \in Request, NEW d \in Dir,
         Delete(r, d) \/ \E kind \in Kind : Create(r, d, kind)
  PROVE  /\ Served /\ Synced /\ pc' = [pc EXCEPT ![r] = "write"]
         /\ UNCHANGED <<rows, treeClaims, socket, claims, behind, treeBehind>>
BY DEF Delete, Create, Begin, GoTo, worker, reclaims

\* A handler's step moves that handler only, and leaves the connections as they are.
LEMMA Serving ==
  ASSUME TypeInv, NEW r \in Request, Serve(r) \/ CutShort(r)
  PROVE  /\ pc[r] # "idle" /\ \A q \in Request \ {r} : pc'[q] = pc[q] /\ local'[q] = local[q]
         /\ UNCHANGED <<hub, initial, registered, online, claims>>
BY DEF TypeInv, TypeOK, Serve, SetEffective, KeepClaim, DeleteRow, Deleting, NotFound,
       ScanAllReclaims, RecomputeClaimed, GetConn, GetReclaims, SendReclaims, CutShort, GoTo,
       Return, AfterWrite, socket, worker, reclaims

LEMMA OneAtATime ==
  ASSUME TypeInv, Overlap = FALSE, SerialOne, [Next]_vars
  PROVE  SerialOne'
<1>0. pc \in [Request -> Place] /\ hub \in [Conn -> {"none", "registered", "sending", "open"}]
  BY DEF TypeInv, TypeOK, Place
<1>1. ASSUME NEW r \in Request, NEW d \in Dir, Delete(r, d) \/ \E kind \in Kind : Create(r, d, kind)
      PROVE  SerialOne'
  <2>1. /\ Served /\ Synced /\ pc' = [pc EXCEPT ![r] = "write"]
        /\ UNCHANGED hub
    BY <1>1, Beginning DEF socket
  <2>2. \A q \in Request : pc'[q] # "idle" => q = r
    BY <1>0, <2>1 DEF Served
  <2>3. Synced'
    BY <2>1 DEF Synced
  <2> QED
    BY <2>1, <2>2, <2>3 DEF SerialOne
<1>2. ASSUME NEW r \in Request, Serve(r) \/ CutShort(r) PROVE SerialOne'
  <2>1. /\ pc[r] # "idle" /\ \A q \in Request \ {r} : pc'[q] = pc[q]
        /\ UNCHANGED hub
    BY <1>2, Serving
  <2>2. \A q \in Request : pc'[q] # "idle" => q = r
    BY <2>1 DEF SerialOne
  <2>3. Synced'
    BY <2>1 DEF Synced, SerialOne
  <2> QED
    BY <2>1, <2>2, <2>3 DEF SerialOne
<1>3. ASSUME UNCHANGED pc, NEW c \in Conn, Connect(c) PROVE SerialOne'
  <2>1. Served /\ Synced /\ hub' = [hub EXCEPT ![c] = "registered"]
    BY <1>3 DEF Connect, reclaims
  <2>2. \A e \in Conn \ {c} : hub'[e] \in {"none", "open"}
    BY <1>0, <2>1 DEF Synced
  <2>3. \A r \in Request : pc'[r] = "idle"
    BY <1>3, <2>1 DEF Served
  <2> QED
    BY <2>2, <2>3 DEF SerialOne
<1>4. ASSUME UNCHANGED pc, NEW c \in Conn, HandleWS(c) \/ InitialFails(c) PROVE SerialOne'
  <2>1. \A e \in Conn : hub'[e] = hub[e] \/ hub'[e] \in {"none", "open"} \/ (e = c /\ hub[c] = "registered")
    BY <1>0, <1>4 DEF HandleWS, ReadInitial, SendInitial, HangUp, InitialFails, reclaims
  <2>2. \A e \in Conn : hub'[e] \in {"registered", "sending"} => hub[e] \in {"registered", "sending"}
    BY <2>1
  <2>3. Synced => Synced'
    BY <2>1 DEF Synced
  <2> QED
    BY <1>4, <2>2, <2>3 DEF SerialOne
<1>5. ASSUME UNCHANGED <<pc, hub>> PROVE SerialOne'
  BY <1>5 DEF SerialOne, Synced
<1>6. CASE UNCHANGED <<rows, nextId, overwritten, requests, web, treeClaims, treeBehind>>
  <2>1. UNCHANGED pc
    BY <1>6 DEF web
  <2>2. \/ \E c \in Conn : Connect(c) \/ HandleWS(c) \/ InitialFails(c)
        \/ UNCHANGED hub
    BY WhoUsesTheLink DEF SendReclaims, CutShort, Replace, Drop, Crash, socket, reclaims
  <2> QED
    BY <2>1, <2>2, <1>3, <1>4, <1>5
<1> QED
  BY <1>1, <1>2, <1>6, WhoRunsHandlers

LEMMA LinkKept ==
  ASSUME TypeInv, LinkOK, [Next]_vars
  PROVE  LinkOK'
<1>0. /\ hub \in [Conn -> {"none", "registered", "sending", "open"}]
      /\ toWorker \in [Conn -> Seq(State)] /\ online \in Conn \cup {NoConn} /\ NoConn \notin Conn
  BY ClaimAssumption DEF TypeInv, TypeOK
<1>1. ASSUME NEW c \in Conn, NEW list, Pushed(c, list), UNCHANGED <<registered, online>>,
             hub' = hub \/ hub' = [hub EXCEPT ![c] = "open"]
      PROVE  LinkOK'
  BY <1>0, <1>1 DEF LinkOK, Pushed
<1>2. ASSUME NEW r \in Request, SendReclaims(r) PROVE LinkOK'
  <2>1. local[r].wc \in Conn
    BY <1>2 DEF SendReclaims, TypeInv, HandlerOK, reclaims
  <2> QED
    BY <1>1, <1>2, <2>1 DEF SendReclaims, reclaims
<1>3. ASSUME NEW r \in Request, CutShort(r) PROVE LinkOK'
  BY <1>3 DEF CutShort, socket, LinkOK, reclaims
<1>4. ASSUME NEW c \in Conn, Connect(c) PROVE LinkOK'
  BY <1>0, <1>4 DEF Connect, LinkOK, reclaims
<1>5. ASSUME NEW c \in Conn, ReadInitial(c) \/ HangUp(c) \/ InitialFails(c) PROVE LinkOK'
  <2>1. CASE ReadInitial(c)
    BY <1>0, <2>1 DEF ReadInitial, LinkOK, reclaims
  <2>2. CASE HangUp(c)
    BY <1>0, <2>2 DEF HangUp, LinkOK, reclaims
  <2>3. CASE InitialFails(c)
    BY <1>0, <2>3 DEF InitialFails, LinkOK, reclaims
  <2> QED
    BY <1>5, <2>1, <2>2, <2>3
<1>6. ASSUME NEW c \in Conn, SendInitial(c) PROVE LinkOK'
  BY <1>1, <1>6 DEF SendInitial, reclaims
<1>7. CASE Replace
  BY <1>0, <1>7 DEF Replace, LinkOK, reclaims
<1>8. CASE Drop
  BY <1>0, <1>8 DEF Drop, LinkOK, reclaims
<1>9. CASE Crash
  BY <1>0, <1>9 DEF Crash, LinkOK, reclaims
<1>10. CASE UNCHANGED <<socket, behind>>
  BY <1>10 DEF socket, LinkOK
<1> QED
  BY <1>2, <1>3, <1>4, <1>5, <1>6, <1>7, <1>8, <1>9, <1>10, WhoUsesTheLink DEF HandleWS

LEMMA ReadsKept ==
  ASSUME TypeInv, Overlap = FALSE, SerialOne, LinkOK, ReadsOK, [Next]_vars
  PROVE  ReadsOK'
<1>0. /\ pc \in [Request -> Place] /\ local \in [Request -> Local]
      /\ hub \in [Conn -> {"none", "registered", "sending", "open"}]
      /\ initial \in [Conn -> State]
  BY DEF TypeInv, TypeOK, Place
<1>1. ASSUME NEW r \in Request, NEW d \in Dir, Delete(r, d) \/ \E kind \in Kind : Create(r, d, kind)
      PROVE  ReadsOK'
  <2>1. Served /\ Synced /\ pc' = [pc EXCEPT ![r] = "write"] /\ UNCHANGED hub
    BY <1>1, Beginning DEF socket
  <2>2. \A q \in Request : pc'[q] \in {"idle", "write"}
    BY <1>0, <2>1 DEF Served
  <2> QED
    BY <2>1, <2>2 DEF ReadsOK, Synced
<1>2. ASSUME NEW r \in Request, Serve(r) \/ CutShort(r) PROVE ReadsOK'
  <2>1. /\ pc[r] # "idle" /\ \A q \in Request \ {r} : pc'[q] = pc[q]
        /\ UNCHANGED <<hub, initial, registered, online>>
    BY <1>2, Serving
  <2>2. \A q \in Request \ {r} : pc'[q] = "idle"
    BY <1>0, <2>1 DEF SerialOne
  <2>3. \A c \in Conn : hub'[c] # "sending"
    BY <2>1 DEF SerialOne, Synced
  <2>4. /\ pc'[r] \in {"read", "send"} /\ online' # NoConn => local'[r].wc = online'
        /\ pc'[r] \in {"recompute", "send"} => local'[r].list = Listed'
        /\ pc'[r] = "recompute" => ~treeBehind'
    <3>1. CASE \/ SetEffective(r) \/ KeepClaim(r) \/ DeleteRow(r) \/ NotFound(r)
               \/ RecomputeClaimed(r) \/ SendReclaims(r) \/ CutShort(r)
      <4>1. pc'[r] \in {"scan", "find", "idle"}
        BY <1>0, <3>1 DEF SetEffective, KeepClaim, DeleteRow, NotFound, RecomputeClaimed,
           SendReclaims, CutShort, GoTo, Return, AfterWrite, reclaims
      <4> QED
        BY <4>1
    <3>2. CASE ScanAllReclaims(r)
      BY <1>0, <3>2 DEF ScanAllReclaims, GoTo, Listed, reclaims
    <3>3. CASE GetConn(r)
      <4>1. CASE registered = NoConn
        BY <1>0, <3>3, <4>1 DEF GetConn, GoTo, Return, reclaims
      <4>2. CASE registered # NoConn
        <5>1. pc'[r] = "read" /\ local' = [local EXCEPT ![r].wc = registered]
          BY <1>0, <3>3, <4>2 DEF GetConn, GoTo, reclaims
        <5>2. local'[r].wc = registered
          BY <1>0, <5>1 DEF Local
        <5> QED
          BY <2>1, <5>1, <5>2 DEF LinkOK
      <4> QED
        BY <4>1, <4>2
    <3>4. CASE GetReclaims(r)
      <4>1. CASE Skipped(Listed, TRUE)
        BY <1>0, <3>4, <4>1 DEF GetReclaims, GoTo, Return, reclaims
      <4>2. CASE ~ Skipped(Listed, TRUE)
        <5>1. /\ pc[r] = "read" /\ pc'[r] = "send" /\ UNCHANGED rows
              /\ local' = [local EXCEPT ![r].list = Listed]
          BY <1>0, <3>4, <4>2 DEF GetReclaims, GoTo, reclaims
        <5>2. local'[r].list = Listed /\ local'[r].wc = local[r].wc
          BY <1>0, <5>1 DEF Local
        <5>3. Listed' = Listed
          BY <5>1 DEF Listed
        <5> QED
          BY <2>1, <5>1, <5>2, <5>3 DEF ReadsOK
      <4> QED
        BY <4>1, <4>2
    <3> QED
      BY <1>2, <3>1, <3>2, <3>3, <3>4 DEF Serve, reclaims
  <2> QED
    BY <2>2, <2>3, <2>4 DEF ReadsOK
<1>3. CASE UNCHANGED <<rows, nextId, overwritten, requests, web, treeClaims, treeBehind>>
  <2>0. UNCHANGED <<rows, pc, local, treeBehind>> /\ Listed' = Listed
    BY <1>3 DEF web, Listed
  <2>1. ASSUME \A c \in Conn : hub'[c] = "sending" => initial'[c] = Listed',
               Served \/ online' \in {online, NoConn}
        PROVE  ReadsOK'
    BY <2>0, <2>1 DEF ReadsOK, Served
  <2>2. ASSUME NEW c \in Conn, Connect(c) PROVE ReadsOK'
    BY <1>0, <2>0, <2>1, <2>2 DEF Connect, ReadsOK, reclaims
  <2>3. ASSUME NEW c \in Conn, HandleWS(c) \/ InitialFails(c) PROVE ReadsOK'
    <3>1. UNCHANGED online
      BY <2>3 DEF HandleWS, ReadInitial, SendInitial, HangUp, InitialFails, reclaims
    <3>2. CASE ReadInitial(c)
      BY <1>0, <2>0, <2>1, <3>1, <3>2 DEF ReadInitial, ReadsOK, reclaims
    <3>3. CASE SendInitial(c)
      BY <1>0, <2>0, <2>1, <3>1, <3>3 DEF SendInitial, ReadsOK, reclaims
    <3>4. CASE HangUp(c) \/ InitialFails(c)
      BY <1>0, <2>0, <2>1, <3>1, <3>4 DEF HangUp, InitialFails, ReadsOK, reclaims
    <3> QED
      BY <2>3, <3>2, <3>3, <3>4 DEF HandleWS
  <2>4. CASE UNCHANGED <<hub, initial>> /\ online' \in {online, NoConn}
    BY <2>0, <2>1, <2>4 DEF ReadsOK
  <2> QED
    BY <2>2, <2>3, <2>4, WhoUsesTheLink DEF SendReclaims, CutShort, Replace, Drop, Crash, socket, reclaims
<1> QED
  BY <1>1, <1>2, <1>3, WhoRunsHandlers

LEMMA TreeKept ==
  ASSUME TypeInv, Overlap = FALSE, SerialOne, ReadsOK, TreeOK, [Next]_vars
  PROVE  TreeOK'
<1>0. pc \in [Request -> Place]
  BY DEF TypeInv, TypeOK, Place
<1>1. ASSUME NEW r \in Request, NEW d \in Dir, Delete(r, d) \/ \E kind \in Kind : Create(r, d, kind)
      PROVE  TreeOK'
  <2>1. Served /\ UNCHANGED <<rows, treeClaims, treeBehind>>
    BY <1>1, Beginning
  <2>2. ~treeBehind => treeClaims = Listed
    BY <2>1 DEF Served, TreeOK
  <2> QED
    BY <2>1, <2>2 DEF TreeOK, Listed
<1>2. ASSUME NEW r \in Request, Serve(r) \/ CutShort(r) PROVE TreeOK'
  <2>1. /\ pc[r] # "idle" /\ \A q \in Request \ {r} : pc[q] = "idle"
    BY <1>2, Serving DEF SerialOne
  <2>2. pc[r] \notin {"scan", "recompute"} /\ ~treeBehind => treeClaims = Listed
    BY <2>1 DEF TreeOK
  <2>3. CASE SetEffective(r) \/ KeepClaim(r) \/ DeleteRow(r) \/ ScanAllReclaims(r)
    <3>1. pc'[r] \in {"scan", "recompute"}
      BY <1>0, <2>3 DEF SetEffective, KeepClaim, DeleteRow, ScanAllReclaims, GoTo, AfterWrite, reclaims
    <3> QED
      BY <3>1 DEF TreeOK
  <2>4. CASE RecomputeClaimed(r)
    BY <2>4 DEF RecomputeClaimed, TreeOK, ReadsOK, Listed, reclaims
  <2>5. CASE NotFound(r) \/ GetConn(r) \/ GetReclaims(r) \/ SendReclaims(r)
    <3>1. UNCHANGED <<rows, treeClaims, treeBehind>> /\ pc[r] \in {"write", "find", "read", "send"}
      BY <2>5 DEF NotFound, Deleting, GetConn, GetReclaims, SendReclaims, reclaims
    <3> QED
      BY <2>2, <3>1 DEF TreeOK, Listed
  <2>6. CASE CutShort(r)
    <3>1. /\ UNCHANGED <<rows, treeClaims>> /\ pc[r] \in {"write", "scan", "read"}
          /\ treeBehind' <=> (treeBehind \/ pc[r] = "scan")
      BY <2>6 DEF CutShort, reclaims
    <3> QED
      BY <2>2, <3>1 DEF TreeOK, Listed
  <2> QED
    BY <1>2, <2>3, <2>4, <2>5, <2>6 DEF Serve, reclaims
<1>3. CASE UNCHANGED <<rows, nextId, overwritten, requests, web, treeClaims, treeBehind>>
  BY <1>3 DEF TreeOK, Listed, web
<1> QED
  BY <1>1, <1>2, <1>3, WhoRunsHandlers

\* A push to the connection the worker reads is what the worker will have.
LEMMA NewestPush ==
  ASSUME TypeInv, online \in Conn, NEW list \in State, Pushed(online, list), UNCHANGED online
  PROVE  Newest' = list
<1>1. toWorker[online] \in Seq(State) /\ toWorker \in [Conn -> Seq(State)]
  BY DEF TypeInv, TypeOK
<1>2. toWorker'[online] = Append(toWorker[online], list)
  BY <1>1 DEF Pushed
<1>3. /\ Append(toWorker[online], list) # <<>>
      /\ Append(toWorker[online], list)[Len(Append(toWorker[online], list))] = list
  BY <1>1, AppendProperties
<1> QED
  BY <1>2, <1>3 DEF Newest

\* Reading a push does not change what the worker will have in the end.
LEMMA NewestReplace ==
  ASSUME TypeInv, Replace
  PROVE  Newest' = Newest
<1>1. /\ online \in Conn /\ toWorker \in [Conn -> Seq(State)] /\ toWorker[online] # <<>>
      /\ toWorker[online] \in Seq(State)
  BY DEF TypeInv, TypeOK, Replace, reclaims
<1>2. /\ toWorker'[online] = Tail(toWorker[online]) /\ UNCHANGED online
      /\ claims' = Head(toWorker[online])
  BY <1>1 DEF Replace, reclaims
<1> DEFINE s == toWorker[online]
<1>3. s # <<>> /\ s \in Seq(State)
  BY <1>1
<1>4. Newest = s[Len(s)]
  BY <1>3 DEF Newest
<1>5. Newest' = IF Tail(s) = <<>> THEN Head(s) ELSE Tail(s)[Len(Tail(s))]
  BY <1>2 DEF Newest
<1> HIDE DEF s
<1>6. Len(Tail(s)) = Len(s) - 1 /\ Len(s) \in Nat \ {0}
  BY <1>3
<1>7. CASE Tail(s) = <<>>
  <2>1. Len(s) = 1
    BY <1>6, <1>7
  <2>2. Head(s) = s[1]
    BY <1>3
  <2> QED
    BY <1>4, <1>5, <1>7, <2>1, <2>2
<1>8. CASE Tail(s) # <<>>
  <2>1. Len(s) # 1
    BY <1>3, <1>6, <1>8, HeadTailProperties, EmptySeq
  <2>2. Tail(s)[Len(s) - 1] = s[Len(s)]
    BY <1>3, <1>6, <2>1
  <2> QED
    BY <1>4, <1>5, <1>6, <1>8, <2>2
<1> QED
  BY <1>7, <1>8

LEMMA WorkerKept ==
  ASSUME TypeInv, Overlap = FALSE, SerialOne, LinkOK, ReadsOK, WorkerOK, [Next]_vars
  PROVE  WorkerOK'
<1>0. /\ pc \in [Request -> Place] /\ online \in Conn \cup {NoConn}
      /\ registered \in Conn \cup {NoConn} /\ NoConn \notin Conn /\ behind \subseteq Conn
      /\ hub \in [Conn -> {"none", "registered", "sending", "open"}]
      /\ initial \in [Conn -> State] /\ local \in [Request -> Local]
  BY ClaimAssumption DEF TypeInv, TypeOK, Place
<1>1. ASSUME UNCHANGED <<rows, toWorker, claims, online>>,
             online # NoConn /\ hub'[online] = "open" => hub[online] = "open",
             online # NoConn /\ online \notin behind' => online \notin behind,
             \A r \in Request : pc[r] \in {"idle", "write"}
      PROVE  WorkerOK'
  BY <1>1 DEF WorkerOK, Newest, Listed
<1>2. ASSUME NEW r \in Request, NEW d \in Dir, Delete(r, d) \/ \E kind \in Kind : Create(r, d, kind)
      PROVE  WorkerOK'
  <2>1. Served /\ UNCHANGED <<rows, socket, claims, behind>>
    BY <1>2, Beginning
  <2> QED
    BY <1>1, <2>1 DEF Served, socket
<1>3. ASSUME NEW r \in Request, Serve(r) \/ CutShort(r) PROVE WorkerOK'
  <2>1. /\ pc[r] # "idle" /\ \A q \in Request \ {r} : pc[q] = "idle"
        /\ UNCHANGED <<hub, initial, registered, online, claims>>
    BY <1>3, Serving DEF SerialOne
  <2>2. CASE SetEffective(r) \/ KeepClaim(r) \/ DeleteRow(r) \/ ScanAllReclaims(r) \/ RecomputeClaimed(r)
    <3>1. pc'[r] \in {"scan", "recompute", "find"}
      BY <1>0, <2>2 DEF SetEffective, KeepClaim, DeleteRow, ScanAllReclaims, RecomputeClaimed,
         GoTo, AfterWrite, reclaims
    <3> QED
      BY <3>1 DEF WorkerOK
  <2>3. CASE NotFound(r) \/ (CutShort(r) /\ pc[r] = "write")
    <3>1. pc[r] = "write" /\ UNCHANGED <<rows, toWorker, behind>>
      BY <2>3 DEF NotFound, Deleting, CutShort, socket, reclaims
    <3> QED
      BY <1>1, <2>1, <3>1
  <2>4. CASE GetConn(r)
    <3>1. CASE registered = NoConn
      BY <2>1, <3>1 DEF LinkOK, WorkerOK
    <3>2. CASE registered # NoConn
      <4>1. pc'[r] = "read"
        BY <1>0, <2>4, <3>2 DEF GetConn, GoTo, reclaims
      <4> QED
        BY <4>1 DEF WorkerOK
    <3> QED
      BY <3>1, <3>2
  <2>5. CASE GetReclaims(r)
    <3>1. pc'[r] = "send"
      BY <1>0, <2>5 DEF GetReclaims, Skipped, GoTo, reclaims
    <3> QED
      BY <3>1 DEF WorkerOK
  <2>6. CASE SendReclaims(r) /\ online # NoConn
    <3>1. /\ local[r].wc = online /\ local[r].list = Listed
          /\ Pushed(local[r].wc, local[r].list) /\ UNCHANGED rows
      BY <2>6 DEF SendReclaims, ReadsOK, reclaims
    <3>2. Listed \in State
      BY ListedType DEF TypeInv, TypeOK
    <3>3. Newest' = Listed
      BY <1>0, <2>1, <2>6, <3>1, <3>2, NewestPush
    <3> QED
      BY <3>1, <3>3 DEF WorkerOK, Listed
  <2>7. CASE CutShort(r) /\ pc[r] # "write" /\ online # NoConn
    <3>1. pc[r] \in {"scan", "read"} /\ behind' = behind \cup Target(r)
      BY <2>7 DEF CutShort, reclaims
    <3>2. online \in Target(r)
      BY <2>7, <3>1 DEF Target, LinkOK, ReadsOK
    <3> QED
      BY <2>1, <3>1, <3>2 DEF WorkerOK
  <2>8. CASE online = NoConn
    BY <2>1, <2>8 DEF WorkerOK
  <2> QED
    BY <1>3, <2>2, <2>3, <2>4, <2>5, <2>6, <2>7, <2>8 DEF Serve, reclaims
<1>4. ASSUME UNCHANGED <<rows, nextId, overwritten, requests, web, treeClaims, treeBehind>>
      PROVE  WorkerOK'
  <2>0. UNCHANGED <<rows, pc>> /\ Listed' = Listed
    BY <1>4 DEF web, Listed
  <2>1. ASSUME NEW c \in Conn, Connect(c) PROVE WorkerOK'
    BY <1>0, <2>1 DEF Connect, WorkerOK, reclaims
  <2>2. ASSUME NEW c \in Conn, ReadInitial(c) \/ InitialFails(c) \/ HangUp(c) PROVE WorkerOK'
    <3>1. UNCHANGED <<rows, toWorker, claims, online>>
      BY <2>2 DEF ReadInitial, InitialFails, HangUp, worker, reclaims
    <3>2. online # c => (online # NoConn => hub'[online] = hub[online])
      BY <1>0, <2>2 DEF ReadInitial, InitialFails, HangUp, reclaims
    <3>3. online \notin behind' => online \notin behind
      BY <2>2 DEF ReadInitial, InitialFails, HangUp, reclaims
    <3>4. online = c => hub'[c] # "open" \/ c \in behind'
      BY <1>0, <2>2 DEF ReadInitial, InitialFails, HangUp, reclaims
    <3> QED
      BY <2>0, <3>1, <3>2, <3>3, <3>4 DEF WorkerOK, Newest
  <2>3. ASSUME NEW c \in Conn, SendInitial(c) PROVE WorkerOK'
    <3>1. /\ Pushed(c, initial[c]) /\ initial[c] = Listed /\ UNCHANGED <<claims, online>>
          /\ behind' = behind \ {c} /\ hub' = [hub EXCEPT ![c] = "open"]
      BY <2>3 DEF SendInitial, ReadsOK, worker, reclaims
    <3>2. CASE online = c
      <4>1. Newest' = Listed
        BY <1>0, <3>1, <3>2, NewestPush
      <4> QED
        BY <2>0, <4>1 DEF WorkerOK
    <3>3. CASE online # c
      <4>1. toWorker' = toWorker /\ (online # NoConn => hub'[online] = hub[online])
        BY <1>0, <3>1, <3>3 DEF Pushed
      <4> QED
        BY <2>0, <3>1, <3>3, <4>1 DEF WorkerOK, Newest
    <3> QED
      BY <3>2, <3>3
  <2>4. CASE Replace
    <3>1. UNCHANGED <<online, hub, behind>>
      BY <2>4 DEF Replace, reclaims
    <3> QED
      BY <2>0, <2>4, <3>1, NewestReplace DEF WorkerOK
  <2>5. CASE Drop \/ Crash
    BY <2>5 DEF Drop, Crash, WorkerOK, reclaims
  <2>6. CASE UNCHANGED <<socket, behind, claims>>
    BY <2>0, <2>6 DEF socket, WorkerOK, Newest
  <2>7. \/ \E c \in Conn : Connect(c) \/ HandleWS(c) \/ InitialFails(c)
        \/ Replace \/ Drop \/ Crash
        \/ UNCHANGED <<socket, behind, claims>>
    <3>1. CASE \E r \in Request : SendReclaims(r) \/ CutShort(r)
      <4>1. PICK r \in Request : SendReclaims(r) \/ CutShort(r)
        BY <3>1
      <4>2. pc'[r] = "idle" /\ pc[r] # "idle"
        BY <1>0, <4>1 DEF SendReclaims, CutShort, Return, GoTo, reclaims
      <4> QED
        BY <2>0, <4>2
    <3>2. CASE UNCHANGED <<socket, behind>>
      BY <3>2, WhoSaves DEF SaveCompleted, Save, RemoveFile, RenameFile, SaveFails, worker, reclaims
    <3> QED
      BY <3>1, <3>2, WhoUsesTheLink
  <2> QED
    BY <2>1, <2>2, <2>3, <2>4, <2>5, <2>6, <2>7 DEF HandleWS
<1> QED
  BY <1>2, <1>3, <1>4, WhoRunsHandlers

\* The part of the theorems below that is the same.
LEMMA Serialised ==
  ASSUME Overlap = FALSE
  PROVE  Spec => []SerialInv
<1>1. TypeInv /\ SerialInv /\ [Next]_vars => SerialInv'
  BY OneAtATime, LinkKept, ReadsKept, TreeKept, WorkerKept DEF SerialInv
<1> QED
  BY <1>1, SerialStart, Typing, PTL DEF Spec

\* If requests do not overlap, the claimed totals of the tree are those of the table
\* whenever no request is being served, unless the last refresh was cut short
\* (RefreshClaimsFromDB after every change of the table).
THEOREM TreeFollows ==
  ASSUME Overlap = FALSE
  PROVE  Spec => []TreeAgrees
<1>1. SerialInv => TreeAgrees
  BY DEF SerialInv, TreeOK, TreeAgrees, Served
<1> QED
  BY <1>1, Serialised, PTL

\* If requests and connecting do not overlap, a connected worker that has read all
\* it was sent works on the claims of the table, through any number of lost
\* connections, crashes and failed saves, except where the last push of its
\* connection was itself cut short or was an empty first one that is not sent
\* (SyncReclaimsForWorker, sendInitialReclaims and claimState.apply).
THEOREM WorkerFollows ==
  ASSUME Overlap = FALSE
  PROVE  Spec => []WorkerAgrees
<1>1. SerialInv => WorkerAgrees
  BY DEF SerialInv, WorkerOK, Newest, WorkerAgrees, Quiet, Served
<1> QED
  BY <1>1, Serialised, PTL

-----------------------------------------------------------------------------
(* A change of claims is as if it were made in one step.                   *)

\* What is on its way to the worker, and who is owed the table, in the mapping.
OnTheWay == IF online = NoConn THEN <<>> ELSE toWorker[online]
Owed == {copy \in {"tree", "worker"} :
           (copy = "tree" /\ TreeOwed) \/ (copy = "worker" /\ WorkerOwed)}

LEMMA OwedSame ==
  ASSUME TreeOwed' <=> TreeOwed, WorkerOwed' <=> WorkerOwed
  PROVE  Owed' = Owed
BY DEF Owed

LEMMA OwedBoth ==
  ASSUME TreeOwed', WorkerOwed'
  PROVE  Owed' = {"tree", "worker"}
BY DEF Owed

LEMMA TreeIsTold ==
  ASSUME ~TreeOwed', WorkerOwed' <=> WorkerOwed
  PROVE  Owed' = Owed \ {"tree"}
BY DEF Owed

LEMMA WorkerIsTold ==
  ASSUME ~WorkerOwed', TreeOwed' <=> TreeOwed
  PROVE  Owed' = Owed \ {"worker"}
BY DEF Owed

LEMMA WorkerIsGone ==
  ASSUME WorkerOwed', TreeOwed' <=> TreeOwed
  PROVE  Owed' = Owed \cup {"worker"}
BY DEF Owed

\* The steps of the replica, in terms of this module.
LEMMA Stutters ==
  ASSUME UNCHANGED <<Listed, treeClaims, OnTheWay, claims, saved, online # NoConn, Owed>>
  PROVE  UNCHANGED Replica!vars
BY DEF Replica!vars, OnTheWay, Owed, reclaims

LEMMA Changes ==
  ASSUME NEW d \in Dir, NEW kind \in Kind \cup {"none"}, Listed' = [Listed EXCEPT ![d] = kind],
         Owed' = {"tree", "worker"},
         UNCHANGED <<treeClaims, OnTheWay, claims, saved, online # NoConn>>
  PROVE  Replica!Next
BY DEF Replica!Next, Replica!Change, OnTheWay, Owed, reclaims

LEMMA Announces ==
  ASSUME Owed' = {"tree", "worker"},
         UNCHANGED <<Listed, treeClaims, OnTheWay, claims, saved, online # NoConn>>
  PROVE  Replica!Next
BY DEF Replica!Next, Replica!Announce, OnTheWay, Owed, reclaims

LEMMA Refreshes ==
  ASSUME treeClaims' = Listed, Owed' = Owed \ {"tree"},
         UNCHANGED <<Listed, OnTheWay, claims, saved, online # NoConn>>
  PROVE  Replica!Next
BY DEF Replica!Next, Replica!Refresh, OnTheWay, Owed, reclaims

LEMMA Publishes ==
  ASSUME online # NoConn, OnTheWay' = Append(OnTheWay, Listed), Owed' = Owed \ {"worker"},
         UNCHANGED <<Listed, treeClaims, claims, saved, online # NoConn>>
  PROVE  Replica!Next
BY DEF Replica!Next, Replica!Publish, OnTheWay, Owed, reclaims

LEMMA Receives ==
  ASSUME OnTheWay # <<>>, claims' = Head(OnTheWay), OnTheWay' = Tail(OnTheWay),
         UNCHANGED <<Listed, treeClaims, saved, online # NoConn, Owed>>
  PROVE  Replica!Next
BY DEF Replica!Next, Replica!Receive, OnTheWay, Owed, reclaims

LEMMA Keeps ==
  ASSUME saved' \in {claims, NoFile},
         UNCHANGED <<Listed, treeClaims, OnTheWay, claims, online # NoConn, Owed>>
  PROVE  Replica!Next
BY DEF Replica!Next, Replica!Keep, OnTheWay, Owed, reclaims

LEMMA Links ==
  ASSUME online = NoConn, online' # NoConn,
         UNCHANGED <<Listed, treeClaims, OnTheWay, claims, saved, Owed>>
  PROVE  Replica!Next
BY DEF Replica!Next, Replica!Link, OnTheWay, Owed, reclaims

LEMMA Breaks ==
  ASSUME online' = NoConn, OnTheWay' = <<>>, Owed' = Owed \cup {"worker"},
         claims' \in {claims, IF saved = NoFile THEN Empty ELSE saved},
         UNCHANGED <<Listed, treeClaims, saved>>
  PROVE  Replica!Next
BY DEF Replica!Next, Replica!Break, Replica!NoClaims, Empty, OnTheWay, Owed, reclaims

LEMMA ReplicaStarts == Init => Replica!Init
<1> SUFFICES ASSUME Init PROVE Replica!Init
  OBVIOUS
<1>1. Listed = Empty
  BY DEF Init, Listed, NoRow, Empty
<1>2. Owed = {"worker"}
  BY DEF Init, Owed, TreeOwed, WorkerOwed
<1> QED
  BY <1>1, <1>2 DEF Init, Replica!Init, Replica!NoClaims, Empty, Owed

\* A request that begins changes nothing for the replica.
LEMMA RequestSteps ==
  ASSUME TypeInv, Overlap = FALSE, NEW r \in Request, NEW d \in Dir,
         Delete(r, d) \/ \E kind \in Kind : Create(r, d, kind)
  PROVE  UNCHANGED Replica!vars
<1>1. /\ Served /\ pc' = [pc EXCEPT ![r] = "write"]
      /\ UNCHANGED <<rows, treeClaims, socket, claims, behind, treeBehind>>
  BY Beginning
<1>2. UNCHANGED saved
  BY DEF Delete, Create, worker, reclaims
<1>3. \A q \in Request : pc[q] = "idle" /\ pc'[q] \in {"idle", "write"}
  BY <1>1 DEF Served, TypeInv, TypeOK
<1>4. UNCHANGED <<Listed, OnTheWay, online>>
  BY <1>1 DEF Listed, OnTheWay, socket
<1>5. (TreeOwed' <=> TreeOwed) /\ (WorkerOwed' <=> WorkerOwed)
  BY <1>1, <1>3 DEF TreeOwed, WorkerOwed, socket
<1> QED
  BY <1>1, <1>2, <1>4, <1>5, OwedSame, Stutters

\* Who is owed the table while a request is served: the others wait.
LEMMA OwedByOne ==
  ASSUME TypeInv, SerialInv, NEW r \in Request, Serve(r) \/ CutShort(r)
  PROVE  /\ TreeOwed <=> treeBehind \/ pc[r] \in {"scan", "recompute"}
         /\ TreeOwed' <=> treeBehind' \/ pc'[r] \in {"scan", "recompute"}
         /\ WorkerOwed <=> \/ online = NoConn \/ online \in behind
                           \/ pc[r] \in {"scan", "recompute", "find", "read", "send"}
         /\ WorkerOwed' <=> \/ online = NoConn \/ online \in behind'
                            \/ pc'[r] \in {"scan", "recompute", "find", "read", "send"}
         /\ online # NoConn => registered = online
         /\ UNCHANGED <<hub, registered, online, claims, saved>>
<1>1. /\ pc[r] # "idle" /\ \A q \in Request \ {r} : pc'[q] = pc[q]
      /\ UNCHANGED <<hub, initial, registered, online, claims>>
  BY Serving
<1>2. \A q \in Request \ {r} : pc[q] = "idle"
  BY <1>1 DEF SerialInv, SerialOne
<1>3. Synced /\ online \in Conn \cup {NoConn}
  BY <1>1 DEF SerialInv, SerialOne, TypeInv, TypeOK
<1>4. online # NoConn => registered = online /\ hub[online] = "open"
  BY <1>3 DEF SerialInv, LinkOK, Synced
<1>5. UNCHANGED saved
  BY DEF Serve, SetEffective, KeepClaim, DeleteRow, NotFound, ScanAllReclaims, RecomputeClaimed,
         GetConn, GetReclaims, SendReclaims, CutShort, worker, reclaims
<1>6. /\ TreeOwed <=> treeBehind \/ pc[r] \in {"scan", "recompute"}
      /\ TreeOwed' <=> treeBehind' \/ pc'[r] \in {"scan", "recompute"}
  BY <1>1, <1>2 DEF TreeOwed
<1>7. /\ WorkerOwed <=> \/ online = NoConn \/ online \in behind
                        \/ pc[r] \in {"scan", "recompute", "find", "read", "send"}
      /\ WorkerOwed' <=> \/ online = NoConn \/ online \in behind'
                         \/ pc'[r] \in {"scan", "recompute", "find", "read", "send"}
  BY <1>1, <1>2, <1>4 DEF WorkerOwed
<1> QED
  BY <1>1, <1>4, <1>5, <1>6, <1>7

LEMMA ServeSteps ==
  ASSUME TypeInv, SerialInv, NEW r \in Request, Serve(r) \/ CutShort(r)
  PROVE  Replica!Next \/ UNCHANGED Replica!vars
<1>0. /\ pc \in [Request -> Place] /\ local \in [Request -> Local] /\ rows \in [Dir -> Row]
      /\ online \in Conn \cup {NoConn}
  BY DEF TypeInv, TypeOK, Place
<1>1. /\ TreeOwed <=> treeBehind \/ pc[r] \in {"scan", "recompute"}
      /\ TreeOwed' <=> treeBehind' \/ pc'[r] \in {"scan", "recompute"}
      /\ WorkerOwed <=> \/ online = NoConn \/ online \in behind
                        \/ pc[r] \in {"scan", "recompute", "find", "read", "send"}
      /\ WorkerOwed' <=> \/ online = NoConn \/ online \in behind'
                         \/ pc'[r] \in {"scan", "recompute", "find", "read", "send"}
      /\ online # NoConn => registered = online
      /\ UNCHANGED <<hub, registered, online, claims, saved>>
  BY OwedByOne
<1>2. ASSUME UNCHANGED <<rows, treeClaims, toWorker>>,
             (TreeOwed' <=> TreeOwed) /\ (WorkerOwed' <=> WorkerOwed)
      PROVE  UNCHANGED Replica!vars
  <2>1. UNCHANGED <<Listed, OnTheWay>>
    BY <1>1, <1>2 DEF Listed, OnTheWay
  <2> QED
    BY <1>1, <1>2, <2>1, OwedSame, Stutters
<1>3. CASE SetEffective(r) \/ DeleteRow(r)
  <2>1. local[r].dir \in Dir /\ pc' = [pc EXCEPT ![r] = "scan"]
    BY <1>3 DEF SetEffective, DeleteRow, Deleting, GoTo, AfterWrite, TypeInv, HandlerOK, reclaims
  <2>2. \E kind \in Kind \cup {"none"} : Listed' = [Listed EXCEPT ![local[r].dir] = kind]
    <3>1. CASE SetEffective(r)
      <4>1. local[r].want \in Kind
        BY <3>1 DEF SetEffective, TypeInv, HandlerOK, reclaims
      <4>2. Listed' = [Listed EXCEPT ![local[r].dir] = local[r].want]
        BY <1>0, <2>1, <3>1 DEF SetEffective, Listed, reclaims
      <4> QED
        BY <4>1, <4>2
    <3>2. CASE DeleteRow(r)
      <4>1. Listed' = [Listed EXCEPT ![local[r].dir] = "none"]
        BY <1>0, <2>1, <3>2 DEF DeleteRow, Listed, NoRow, reclaims
      <4> QED
        BY <4>1
    <3> QED
      BY <1>3, <3>1, <3>2
  <2>3. UNCHANGED <<treeClaims, OnTheWay>>
    BY <1>3 DEF SetEffective, DeleteRow, socket, OnTheWay, reclaims
  <2>4. TreeOwed' /\ WorkerOwed'
    BY <1>0, <1>1, <2>1
  <2> QED
    BY <1>1, <2>1, <2>2, <2>3, <2>4, OwedBoth, Changes
<1>4. CASE KeepClaim(r)
  <2>1. pc' = [pc EXCEPT ![r] = "scan"] /\ UNCHANGED <<rows, treeClaims, toWorker>>
    BY <1>4 DEF KeepClaim, GoTo, AfterWrite, socket, reclaims
  <2>2. TreeOwed' /\ WorkerOwed'
    BY <1>0, <1>1, <2>1
  <2>3. UNCHANGED <<Listed, OnTheWay>>
    BY <1>1, <2>1 DEF Listed, OnTheWay
  <2> QED
    BY <1>1, <2>1, <2>2, <2>3, OwedBoth, Announces
<1>5. CASE NotFound(r)
  <2>1. pc[r] = "write" /\ pc' = [pc EXCEPT ![r] = "idle"]
    BY <1>5 DEF NotFound, Deleting, Return, GoTo, reclaims
  <2>2. UNCHANGED <<rows, treeClaims, toWorker, behind, treeBehind>>
    BY <1>5 DEF NotFound, socket, reclaims
  <2> QED
    BY <1>0, <1>1, <1>2, <2>1, <2>2
<1>6. CASE ScanAllReclaims(r)
  <2>1. pc[r] = "scan" /\ pc' = [pc EXCEPT ![r] = "recompute"]
    BY <1>6 DEF ScanAllReclaims, GoTo, reclaims
  <2>2. UNCHANGED <<rows, treeClaims, toWorker, behind>>
    BY <1>6 DEF ScanAllReclaims, socket, reclaims
  <2> QED
    BY <1>0, <1>1, <1>2, <2>1, <2>2
<1>7. CASE RecomputeClaimed(r)
  <2>1. pc[r] = "recompute" /\ pc' = [pc EXCEPT ![r] = "find"] /\ treeClaims' = Listed
    BY <1>7 DEF RecomputeClaimed, GoTo, SerialInv, ReadsOK, reclaims
  <2>2. ~treeBehind /\ UNCHANGED <<rows, toWorker, behind, treeBehind>>
    BY <1>7 DEF RecomputeClaimed, socket, SerialInv, ReadsOK, reclaims
  <2>3. ~TreeOwed' /\ (WorkerOwed' <=> WorkerOwed)
    BY <1>0, <1>1, <2>1, <2>2
  <2>4. UNCHANGED <<Listed, OnTheWay>>
    BY <1>1, <2>2 DEF Listed, OnTheWay
  <2> QED
    BY <1>1, <2>1, <2>3, <2>4, TreeIsTold, Refreshes
<1>8. CASE GetConn(r)
  <2>1. pc[r] = "find" /\ UNCHANGED <<rows, treeClaims, toWorker, behind, treeBehind>>
    BY <1>8 DEF GetConn, socket, reclaims
  <2>2. pc'[r] = IF registered = NoConn THEN "idle" ELSE "read"
    BY <1>0, <1>8 DEF GetConn, Return, GoTo, reclaims
  <2>3. registered = NoConn => online = NoConn
    BY <1>1
  <2> QED
    BY <1>1, <1>2, <2>1, <2>2, <2>3
<1>9. CASE GetReclaims(r)
  <2>1. pc[r] = "read" /\ UNCHANGED <<rows, treeClaims, toWorker, behind, treeBehind>>
    BY <1>9 DEF GetReclaims, socket, reclaims
  <2>2. pc'[r] = "send"
    BY <1>0, <1>9 DEF GetReclaims, Skipped, GoTo, reclaims
  <2> QED
    BY <1>1, <1>2, <2>1, <2>2
<1>10. CASE SendReclaims(r)
  <2>1. /\ pc[r] = "send" /\ pc' = [pc EXCEPT ![r] = "idle"]
        /\ UNCHANGED <<rows, treeClaims, treeBehind>>
        /\ Pushed(local[r].wc, local[r].list) /\ behind' = behind \ {local[r].wc}
    BY <1>10 DEF SendReclaims, Return, GoTo, reclaims
  <2>2. Listed' = Listed /\ (TreeOwed' <=> TreeOwed)
    BY <1>0, <1>1, <2>1 DEF Listed
  <2>3. CASE online = NoConn
    <3>1. OnTheWay' = OnTheWay /\ (WorkerOwed' <=> WorkerOwed)
      BY <1>1, <2>3 DEF OnTheWay
    <3> QED
      BY <1>1, <2>1, <2>2, <3>1, OwedSame, Stutters
  <2>4. CASE online # NoConn
    <3>1. local[r].wc = online /\ local[r].list = Listed
      BY <2>1, <2>4 DEF SerialInv, ReadsOK
    <3>2. OnTheWay' = Append(OnTheWay, Listed)
      BY <1>0, <1>1, <2>1, <2>4, <3>1 DEF OnTheWay, Pushed, TypeInv, TypeOK
    <3>3. ~WorkerOwed'
      BY <1>0, <1>1, <2>1, <2>4, <3>1
    <3> QED
      BY <1>1, <2>1, <2>2, <2>4, <3>2, <3>3, WorkerIsTold, Publishes
  <2> QED
    BY <2>3, <2>4
<1>11. CASE CutShort(r)
  <2>1. /\ pc[r] \in {"write", "scan", "read"} /\ pc' = [pc EXCEPT ![r] = "idle"]
        /\ UNCHANGED <<rows, treeClaims, toWorker>>
        /\ behind' = IF pc[r] = "write" THEN behind ELSE behind \cup Target(r)
        /\ treeBehind' <=> (treeBehind \/ pc[r] = "scan")
    BY <1>11 DEF CutShort, Return, GoTo, socket, reclaims
  <2>2. TreeOwed' <=> TreeOwed
    BY <1>0, <1>1, <2>1
  <2>3. pc[r] # "write" /\ online # NoConn => online \in Target(r)
    BY <1>1, <2>1 DEF Target, SerialInv, ReadsOK
  <2>4. WorkerOwed' <=> WorkerOwed
    BY <1>0, <1>1, <2>1, <2>3
  <2> QED
    BY <1>2, <2>1, <2>2, <2>4
<1> QED
  BY <1>3, <1>4, <1>5, <1>6, <1>7, <1>8, <1>9, <1>10, <1>11 DEF Serve, reclaims

\* Steps of the connections and of the worker, while no handler moves.
LEMMA LinkSteps ==
  ASSUME TypeInv, SerialInv, Overlap = FALSE, UNCHANGED <<rows, web, treeClaims, treeBehind>>,
         \/ \E c \in Conn : Connect(c) \/ HandleWS(c) \/ InitialFails(c)
         \/ Replace \/ Drop \/ Crash
  PROVE  Replica!Next \/ UNCHANGED Replica!vars
<1>0. /\ hub \in [Conn -> {"none", "registered", "sending", "open"}]
      /\ toWorker \in [Conn -> Seq(State)] /\ online \in Conn \cup {NoConn} /\ NoConn \notin Conn
      /\ behind \subseteq Conn
  BY ClaimAssumption DEF TypeInv, TypeOK
<1>1. /\ Listed' = Listed /\ UNCHANGED <<treeClaims, pc>> /\ (TreeOwed' <=> TreeOwed)
  BY DEF Listed, TreeOwed, web
<1>2. ASSUME UNCHANGED <<claims, saved, online, OnTheWay>>, WorkerOwed' <=> WorkerOwed
      PROVE  UNCHANGED Replica!vars
  BY <1>1, <1>2, OwedSame, Stutters
<1>3. ASSUME NEW c \in Conn, Connect(c) PROVE Replica!Next
  <2>1. online = NoConn /\ online' = c /\ UNCHANGED <<toWorker, claims, saved>>
    BY <1>3 DEF Connect, worker, reclaims
  <2>2. OnTheWay' = OnTheWay
    BY <1>0, <2>1 DEF OnTheWay, SerialInv, LinkOK
  <2>3. WorkerOwed /\ WorkerOwed'
    BY <1>0, <1>3, <2>1 DEF Connect, WorkerOwed, reclaims
  <2> QED
    BY <1>0, <1>1, <2>1, <2>2, <2>3, OwedSame, Links
<1>4. ASSUME NEW c \in Conn, ReadInitial(c) \/ InitialFails(c) PROVE UNCHANGED Replica!vars
  <2>1. /\ hub[c] = "registered" /\ UNCHANGED <<toWorker, claims, saved, online>>
        /\ \/ hub' = [hub EXCEPT ![c] = "open"] /\ behind' = behind \cup {c}
           \/ hub' = [hub EXCEPT ![c] = "sending"] /\ behind' = behind
    BY <1>4 DEF ReadInitial, InitialFails, worker, reclaims
  <2>2. WorkerOwed' <=> WorkerOwed
    BY <1>0, <1>1, <2>1 DEF WorkerOwed
  <2>3. OnTheWay' = OnTheWay
    BY <2>1 DEF OnTheWay
  <2> QED
    BY <1>2, <2>1, <2>2, <2>3
<1>5. ASSUME NEW c \in Conn, HangUp(c) PROVE UNCHANGED Replica!vars
  <2>1. /\ online # c /\ hub' = [hub EXCEPT ![c] = "none"]
        /\ UNCHANGED <<toWorker, claims, saved, online, behind>>
    BY <1>5 DEF HangUp, worker, reclaims
  <2>2. WorkerOwed' <=> WorkerOwed
    BY <1>0, <1>1, <2>1 DEF WorkerOwed
  <2>3. OnTheWay' = OnTheWay
    BY <2>1 DEF OnTheWay
  <2> QED
    BY <1>2, <2>1, <2>2, <2>3
<1>6. ASSUME NEW c \in Conn, SendInitial(c) PROVE Replica!Next \/ UNCHANGED Replica!vars
  <2>1. /\ hub[c] = "sending" /\ hub' = [hub EXCEPT ![c] = "open"]
        /\ Pushed(c, initial[c]) /\ behind' = behind \ {c} /\ UNCHANGED <<claims, saved, online>>
    BY <1>6 DEF SendInitial, worker, reclaims
  <2>2. initial[c] = Listed /\ \A r \in Request : pc[r] = "idle"
    BY <2>1 DEF SerialInv, ReadsOK, SerialOne, Synced
  <2>3. CASE online = c
    <3>1. OnTheWay' = Append(OnTheWay, Listed)
      BY <1>0, <2>1, <2>2, <2>3 DEF OnTheWay, Pushed
    <3>2. ~WorkerOwed'
      BY <1>0, <1>1, <2>1, <2>2, <2>3 DEF WorkerOwed
    <3> QED
      BY <1>0, <1>1, <2>1, <2>3, <3>1, <3>2, WorkerIsTold, Publishes
  <2>4. CASE online # c
    <3>1. OnTheWay' = OnTheWay
      BY <2>1, <2>4 DEF OnTheWay, Pushed
    <3>2. WorkerOwed' <=> WorkerOwed
      BY <1>0, <1>1, <2>1, <2>4 DEF WorkerOwed
    <3> QED
      BY <1>2, <2>1, <3>1, <3>2
  <2> QED
    BY <2>3, <2>4
<1>7. CASE Replace
  <2>1. /\ online # NoConn /\ toWorker[online] # <<>> /\ claims' = Head(toWorker[online])
        /\ toWorker' = [toWorker EXCEPT ![online] = Tail(@)]
        /\ UNCHANGED <<hub, online, saved, behind>>
    BY <1>7 DEF Replace, reclaims
  <2>2. OnTheWay # <<>> /\ claims' = Head(OnTheWay) /\ OnTheWay' = Tail(OnTheWay)
    BY <1>0, <2>1 DEF OnTheWay
  <2>3. WorkerOwed' <=> WorkerOwed
    BY <1>1, <2>1 DEF WorkerOwed
  <2> QED
    BY <1>1, <2>1, <2>2, <2>3, OwedSame, Receives
<1>8. CASE Drop \/ Crash
  <2>1. /\ online' = NoConn /\ UNCHANGED saved
        /\ claims' \in {claims, IF saved = NoFile THEN Empty ELSE saved}
    BY <1>8 DEF Drop, Crash, worker, reclaims
  <2>2. OnTheWay' = <<>> /\ WorkerOwed'
    BY <2>1 DEF OnTheWay, WorkerOwed
  <2> QED
    BY <1>1, <2>1, <2>2, WorkerIsGone, Breaks
<1> QED
  BY <1>3, <1>4, <1>5, <1>6, <1>7, <1>8 DEF HandleWS

\* Saving moves nothing but what is kept.
LEMMA SaveSteps ==
  ASSUME UNCHANGED <<rows, web, treeClaims, socket, claims, behind, treeBehind>>,
         SaveCompleted \/ Save \/ SaveFails
  PROVE  Replica!Next \/ UNCHANGED Replica!vars
<1>1. UNCHANGED <<Listed, OnTheWay, online>>
  BY DEF Listed, OnTheWay, socket
<1>2. Owed' = Owed
  BY DEF Owed, TreeOwed, WorkerOwed, socket, web
<1>3. saved' \in {claims, NoFile, saved}
  BY DEF SaveCompleted, Save, RemoveFile, RenameFile, SaveFails, reclaims
<1>4. CASE saved' \in {claims, NoFile}
  BY <1>1, <1>2, <1>4, Keeps
<1>5. CASE saved' = saved
  BY <1>1, <1>2, <1>5, Stutters
<1> QED
  BY <1>3, <1>4, <1>5

\* Every step of the server and the worker is a step of the replica or none.
LEMMA ReplicaSteps ==
  ASSUME TypeInv, SerialInv, Overlap = FALSE, [Next]_vars
  PROVE  [Replica!Next]_(Replica!vars)
<1>1. CASE \E r \in Request, d \in Dir : Delete(r, d) \/ \E kind \in Kind : Create(r, d, kind)
  BY <1>1, RequestSteps
<1>2. CASE \E r \in Request : Serve(r) \/ CutShort(r)
  BY <1>2, ServeSteps
<1>3. CASE \/ \E c \in Conn : Connect(c) \/ HandleWS(c) \/ InitialFails(c)
           \/ Replace \/ Drop \/ Crash
  <2>1. UNCHANGED <<rows, web, treeClaims, treeBehind>>
    BY <1>3 DEF Connect, HandleWS, ReadInitial, SendInitial, HangUp, InitialFails, Replace, Drop, Crash, reclaims
  <2> QED
    BY <1>3, <2>1, LinkSteps
<1>4. CASE SaveCompleted \/ Save \/ SaveFails
  <2>1. UNCHANGED <<rows, web, treeClaims, socket, claims, behind, treeBehind>>
    BY <1>4 DEF SaveCompleted, Save, RemoveFile, RenameFile, SaveFails, reclaims
  <2> QED
    BY <1>4, <2>1, SaveSteps
<1>5. CASE UNCHANGED vars
  <2>1. Owed' = Owed /\ UNCHANGED <<Listed, OnTheWay, online>>
    BY <1>5 DEF vars, web, socket, Owed, TreeOwed, WorkerOwed, Listed, OnTheWay, reclaims
  <2> QED
    BY <1>5, <2>1, Stutters DEF vars, worker, reclaims
<1> QED
  BY <1>1, <1>2, <1>3, <1>4, <1>5 DEF Next, reclaims

\* If requests and connecting do not overlap, handlers, database, connection and
\* worker change the claims as ClaimReplica says, through any number of lost
\* connections, crashes, failed saves and requests cut short: the worker's list and
\* the tree's totals only ever become what the table is, or was when it was pushed,
\* in the order of the changes, and after a crash what was kept
\* (handleCreateClaim, handleDeleteClaim, syncReclaimsToConn, claimState.apply).
THEOREM ChangesAsOne ==
  ASSUME Overlap = FALSE
  PROVE  Spec => ImplementsReplica
<1>1. TypeInv /\ SerialInv /\ [Next]_vars => [Replica!Next]_(Replica!vars)
  BY ReplicaSteps
<1> QED
  BY <1>1, ReplicaStarts, Typing, Serialised, PTL DEF Spec, ImplementsReplica, Replica!Spec

=============================================================================
