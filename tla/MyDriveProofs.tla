---------------------------- MODULE MyDriveProofs ----------------------------
(***************************************************************************)
(* Proofs about MyDrive, for every number of requests, rows, calls and     *)
(* attempts: its types, that the websocket class has one line to the       *)
(* server and does not give up early, that the page's requests are what    *)
(* RequestReply promises, and what a table that has settled shows.         *)
(***************************************************************************)
EXTENDS MyDrive, SequenceTheorems, FiniteSetTheorems, TLAPS

(***************************************************************************)
(* The sockets                                                             *)
(*                                                                         *)
(* The class's own steps keep OneConnection and KeepsTrying, whatever      *)
(* messages come: an attempt is under way only for the newest socket, and  *)
(* only while there are attempts left to make.                             *)
(***************************************************************************)
SocketTypes ==
  /\ sock \in [Socket -> SocketState]
  /\ websocket \in Socket
  /\ lockReconnect \in BOOLEAN
  /\ reconnectionAttempts \in 0 .. MaxAttempts
  /\ errorTimers \in Nat
  /\ reconnectTimers \in Nat

AttemptsLeft == errorTimers + reconnectTimers > 0 => reconnectionAttempts < MaxAttempts

SocketInv == SocketTypes /\ OneConnection /\ KeepsTrying /\ AttemptsLeft

LEMMA Sockets ==
  /\ MaxAttempts \in Nat
  /\ 1 \in Socket
  /\ \A n \in 0 .. MaxAttempts : n < MaxAttempts => n + 2 \in Socket
BY MaxAttemptsAssumption DEF Socket

LEMMA SocketInit == WsInit => SocketInv
<1> SUFFICES ASSUME WsInit PROVE SocketInv
  OBVIOUS
<1>0. sock \in [Socket -> SocketState]
  BY DEF WsInit, SocketState
<1>1. SocketTypes
  <2>1. 0 \in 0 .. MaxAttempts /\ 0 \in Nat /\ 1 \in Socket
    BY Sockets
  <2> QED BY <1>0, <2>1 DEF WsInit, SocketTypes
<1>2. sock[websocket] = "connecting" /\ \A s \in Socket : s # websocket => sock[s] = "none"
  BY Sockets DEF WsInit
<1>3. errorTimers = 0 /\ reconnectTimers = 0
  BY DEF WsInit
<1> QED BY <1>1, <1>2, <1>3 DEF SocketInv, OneConnection, KeepsTrying, AttemptsLeft, Ended

\* A step that leaves the sockets alone, but for a message that locks reconnect.
LEMMA SocketRests ==
  ASSUME SocketInv,
         UNCHANGED <<sock, websocket, reconnectionAttempts, errorTimers, reconnectTimers>>,
         lockReconnect' \in {lockReconnect, TRUE}
  PROVE  SocketInv'
BY DEF SocketInv, SocketTypes, OneConnection, KeepsTrying, AttemptsLeft

\* A socket that has not ended is the newest one, and no attempt is under way.
LEMMA TheNewest ==
  ASSUME SocketInv, NEW s \in Socket, sock[s] \notin Ended
  PROVE  s = websocket /\ errorTimers = 0 /\ reconnectTimers = 0
BY DEF SocketInv, SocketTypes, OneConnection, Ended

LEMMA SocketOpens ==
  ASSUME SocketInv, NEW s \in Socket, onopen(s)
  PROVE  SocketInv'
<1>1. s = websocket /\ errorTimers = 0 /\ reconnectTimers = 0
  BY TheNewest DEF onopen, Ended
<1>2. sock'[websocket] = "open" /\ \A q \in Socket : q # websocket => sock'[q] = sock[q]
  BY <1>1 DEF onopen, SocketInv, SocketTypes
<1>3. SocketTypes'
  BY DEF onopen, SocketInv, SocketTypes, SocketState
<1> QED BY <1>1, <1>2, <1>3 DEF onopen, SocketInv, OneConnection, KeepsTrying, AttemptsLeft

LEMMA SocketFails ==
  ASSUME SocketInv, NEW s \in Socket, onerror(s)
  PROVE  SocketInv'
<1>1. s = websocket /\ errorTimers = 0 /\ reconnectTimers = 0
  BY TheNewest DEF onerror, Ended
<1>2. sock'[websocket] = "failed" /\ \A q \in Socket : q # websocket => sock'[q] = sock[q]
  BY <1>1 DEF onerror, SocketInv, SocketTypes
<1>3. errorTimers' = (IF reconnectionAttempts < MaxAttempts THEN 1 ELSE 0) /\ reconnectTimers' = 0
  BY <1>1 DEF onerror, WillRetry
<1>4. SocketTypes'
  BY <1>3 DEF onerror, SocketInv, SocketTypes, SocketState
<1> QED BY <1>2, <1>3, <1>4 DEF onerror, SocketInv, OneConnection, KeepsTrying, AttemptsLeft

LEMMA SocketCloses ==
  ASSUME SocketInv, NEW s \in Socket, onclose(s)
  PROVE  SocketInv'
<1>1. s = websocket /\ errorTimers = 0 /\ reconnectTimers = 0
  BY TheNewest DEF onclose, Ended
<1>2. sock'[websocket] = "lost" /\ \A q \in Socket : q # websocket => sock'[q] = sock[q]
  BY <1>1 DEF onclose, SocketInv, SocketTypes
<1>3. SocketTypes'
  BY DEF onclose, AfterClose, SocketInv, SocketTypes, SocketState
<1> QED BY <1>1, <1>2, <1>3
    DEF onclose, AfterClose, SocketInv, OneConnection, KeepsTrying, AttemptsLeft

LEMMA SocketReconnects ==
  ASSUME SocketInv, reconnect
  PROVE  SocketInv'
<1>1. /\ errorTimers \in Nat /\ reconnectTimers \in Nat /\ errorTimers > 0
      /\ errorTimers' = errorTimers - 1
      /\ reconnectTimers' = reconnectTimers + (IF lockReconnect THEN 0 ELSE 1)
      /\ UNCHANGED <<sock, websocket, lockReconnect, reconnectionAttempts>>
  BY DEF reconnect, SocketInv, SocketTypes
<1>2. SocketTypes'
  BY <1>1 DEF SocketInv, SocketTypes
<1> QED BY <1>1, <1>2 DEF SocketInv, OneConnection, KeepsTrying, AttemptsLeft

LEMMA SocketRenewed ==
  ASSUME SocketInv, NewSocket
  PROVE  SocketInv'
<1>1. /\ errorTimers \in Nat /\ reconnectTimers \in Nat /\ reconnectTimers > 0
      /\ errorTimers' = errorTimers /\ reconnectTimers' = reconnectTimers - 1
      /\ reconnectionAttempts \in 0 .. MaxAttempts
      /\ reconnectionAttempts' = reconnectionAttempts + 1
      /\ websocket' = reconnectionAttempts + 2
      /\ lockReconnect' = FALSE
  BY DEF NewSocket, SocketInv, SocketTypes
<1>2. reconnectionAttempts < MaxAttempts
  BY <1>1 DEF SocketInv, AttemptsLeft
<1>3. sock[websocket] = "failed" /\ errorTimers = 0 /\ reconnectTimers = 1
  BY <1>1 DEF SocketInv, OneConnection
<1>4. websocket' \in Socket
  BY <1>1, <1>2, Sockets
<1>5. /\ sock' = [sock EXCEPT ![websocket'] = "connecting"]
      /\ sock \in [Socket -> SocketState]
  BY <1>1 DEF NewSocket, SocketInv, SocketTypes
<1>6. \A q \in Socket : sock[q] \in Ended
  BY <1>3 DEF SocketInv, OneConnection, Ended
<1>7. sock'[websocket'] = "connecting" /\ \A q \in Socket : q # websocket' => sock'[q] \in Ended
  BY <1>4, <1>5, <1>6
<1>8. SocketTypes'
  <2>1. sock' \in [Socket -> SocketState]
    BY <1>5 DEF SocketState
  <2>2. reconnectionAttempts' \in 0 .. MaxAttempts
    BY <1>1, <1>2, Sockets
  <2>3. errorTimers' = 0 /\ reconnectTimers' = 0
    BY <1>1, <1>3
  <2>4. lockReconnect' \in BOOLEAN
    BY <1>1
  <2> QED BY <1>4, <2>1, <2>2, <2>3, <2>4 DEF SocketTypes
<1> QED BY <1>1, <1>3, <1>7, <1>8 DEF SocketInv, OneConnection, KeepsTrying, AttemptsLeft

LEMMA SocketClosed ==
  ASSUME SocketInv, close
  PROVE  SocketInv'
<1>1. /\ sock \in [Socket -> SocketState] /\ websocket \in Socket
      /\ \A q \in Socket : q # websocket => sock'[q] = sock[q]
  BY DEF close, SocketInv, SocketTypes
<1>2. /\ sock[websocket] = "connecting" => sock'[websocket] = "aborting"
      /\ sock[websocket] = "open" => sock'[websocket] = "closing"
      /\ sock[websocket] \notin {"connecting", "open"} => sock'[websocket] = sock[websocket]
      /\ DOMAIN sock' = Socket /\ sock' = [q \in Socket |-> sock'[q]]
  BY <1>1 DEF close
<1>3. sock' \in [Socket -> SocketState]
  BY <1>1, <1>2 DEF SocketState
<1>4. UNCHANGED <<websocket, lockReconnect, reconnectionAttempts, errorTimers, reconnectTimers>>
  BY DEF close
<1>5. SocketTypes'
  BY <1>3, <1>4 DEF SocketInv, SocketTypes
<1> QED BY <1>1, <1>2, <1>4, <1>5 DEF SocketInv, OneConnection, KeepsTrying, AttemptsLeft

LEMMA SocketEvents ==
  ASSUME SocketInv, WsEvent
  PROVE  SocketInv'
BY SocketOpens, SocketFails, SocketCloses, SocketReconnects, SocketRenewed DEF WsEvent

\* No other step of the page touches the sockets.
LEMMA SocketStep == SocketInv /\ [Next]_vars => SocketInv'
<1> SUFFICES ASSUME SocketInv, [Next]_vars PROVE SocketInv'
  OBVIOUS
<1>1. ASSUME NEW r \in Request, NEW c \in Code, NEW d \in Row, RowAction(r, c, d)
      PROVE  UNCHANGED socketVars
  BY <1>1 DEF RowAction, send
<1>2. ASSUME Search \/ \E p \in Pages : TurnPage(p) PROVE UNCHANGED socketVars
  BY <1>2 DEF Search, TurnPage, wsVars
<1>3. CASE Unmount
  BY <1>3, SocketClosed DEF Unmount
<1>4. ASSUME NEW s \in Socket, NEW r \in Request, ServerHandles(s, r) PROVE UNCHANGED socketVars
  BY <1>4 DEF ServerHandles
<1>5. ASSUME NEW s \in Socket, Message(s) PROVE SocketInv'
  BY <1>5, SocketRests DEF Message, onmessage
<1>6. CASE SocketEvent
  BY <1>6, SocketEvents DEF SocketEvent
<1>7. ASSUME (\E c \in Call : Http(c)) \/ (\E d \in Row : OtherUser(d)) PROVE UNCHANGED socketVars
  BY <1>7 DEF Http, OtherUser, wsVars
<1>8. UNCHANGED vars => UNCHANGED socketVars
  BY DEF vars, wsVars
<1>9. UNCHANGED socketVars => SocketInv'
  BY SocketRests DEF socketVars
<1> QED BY <1>1, <1>2, <1>3, <1>4, <1>5, <1>6, <1>7, <1>8, <1>9 DEF Next

\* Whatever the page, the server and the network do: the class never has two lines to
\* the server, nor two attempts to make one (web-socket.ts).
THEOREM OneLine == Spec => []OneConnection
<1>1. Init => SocketInv
  BY SocketInit DEF Init
<1>2. SocketInv => OneConnection
  BY DEF SocketInv
<1> QED BY <1>1, <1>2, SocketStep, PTL DEF Spec

\* After an error, and as long as no message has come, another attempt is scheduled
\* until the attempts of the options are used up (onerror, reconnect).
THEOREM TriesAgain == Spec => []KeepsTrying
<1>1. Init => SocketInv
  BY SocketInit DEF Init
<1>2. SocketInv => KeepsTrying
  BY DEF SocketInv
<1> QED BY <1>1, <1>2, SocketStep, PTL DEF Spec

(***************************************************************************)
(* Types                                                                   *)
(***************************************************************************)
DataTypes ==
  /\ resolveMap \in [Code -> Seq(Request)]
  /\ outbox \in [Socket -> SUBSET Request]
  /\ inbox \in [Socket -> Seq(Reply)]

PageTypes ==
  /\ mounted \in BOOLEAN
  /\ submitting \in BOOLEAN
  /\ op \in [Request -> Op]
  /\ promise \in [Request -> PromiseState]
  /\ answer \in [Request -> Request \cup {NoRequest}]
  /\ deleted \subseteq Row

LEMMA FirstPage ==
  /\ 1 \in Pages
  /\ \A p \in Pages : p > 1 => p - 1 \in Pages
<1>1. Cardinality(Row) \in Nat
  BY TableAssumption, FS_CardinalityType
<1>2. ASSUME NEW n \in Nat PROVE LastPage(n) \in Nat /\ LastPage(n) >= 1
  <2>1. CASE n = 0
    BY <2>1 DEF LastPage
  <2>2. CASE n # 0
    <3>1. n - 1 \in Nat /\ PageSize \in Nat /\ PageSize > 0
      BY <2>2, TableAssumption
    <3>2. ((n - 1) \div PageSize) \in Nat
      BY <3>1
    <3> QED BY <2>2, <3>2 DEF LastPage
  <2> QED BY <2>1, <2>2
<1> QED BY <1>1, <1>2 DEF Pages

LEMMA Counts == ASSUME NEW S \in SUBSET Row PROVE Cardinality(S) \in 0 .. Cardinality(Row)
<1>1. IsFiniteSet(S) /\ Cardinality(S) <= Cardinality(Row)
  BY TableAssumption, FS_Subset
<1>2. Cardinality(S) \in Nat /\ Cardinality(Row) \in Nat
  BY <1>1, TableAssumption, FS_CardinalityType
<1> QED BY <1>1, <1>2

LEMMA TypesTogether == TypeOK <=> SocketTypes /\ DataTypes /\ TableTypeOK /\ PageTypes
BY DEF TypeOK, WsTypeOK, SocketTypes, DataTypes, PageTypes

LEMMA CallsTyped ==
  /\ NoCall \in CallRecord
  /\ \A p \in Pages : NewCall(p) \in CallRecord
<1>1. 0 \in 0 .. Cardinality(Row)
  BY Counts, TableAssumption, FS_CardinalityType
<1> QED BY <1>1, FirstPage DEF NoCall, NewCall, CallRecord, CallState

LEMMA OpsTyped == NoOp \in Op
BY FirstPage, CodesAssumption DEF NoOp, Op

LEMMA TypesHoldFirst == Init => TypeOK
<1> SUFFICES ASSUME Init PROVE TypeOK
  OBVIOUS
<1>1. SocketTypes
  BY SocketInit DEF Init, SocketInv
<1>2. DataTypes
  <2>1. <<>> \in Seq(Request) /\ <<>> \in Seq(Reply)
    BY EmptySeq
  <2> QED BY <2>1 DEF Init, WsInit, DataTypes
<1>3. TableTypeOK
  <2>1. call \in [Call -> CallRecord]
    BY CallsTyped, FirstPage DEF Init, TableInit
  <2>2. 0 \in 0 .. Cardinality(Row)
    BY TableAssumption, FS_CardinalityType
  <2> QED BY <2>1, <2>2, FirstPage DEF Init, TableInit, TableTypeOK
<1>4. PageTypes
  BY OpsTyped DEF Init, PageTypes, PromiseState
<1> QED BY <1>1, <1>2, <1>3, <1>4, TypesTogether

\* The hook's own steps.
LEMMA HandleTyped ==
  ASSUME TableTypeOK, NEW c \in Call, NEW p \in Pages, handleRequest(c, p)
  PROVE  call' \in [Call -> CallRecord] /\ loading' \in BOOLEAN /\ clean' \in BOOLEAN
BY CallsTyped DEF handleRequest, TableTypeOK

LEMMA FreeCallIs == Free # {} => FreeCall \in Call /\ call[FreeCall].state = "free"
BY DEF Free, FreeCall

LEMMA SetPaginationTyped ==
  ASSUME TableTypeOK, NEW p \in Pages, setPagination(p)
  PROVE  TableTypeOK'
BY HandleTyped, FreeCallIs DEF setPagination, Turn, TableTypeOK

LEMMA ReloadTyped ==
  ASSUME TableTypeOK, NEW p \in Pages, reload(p)
  PROVE  TableTypeOK'
<1>1. (stands' \in BOOLEAN) /\ (behind' \in BOOLEAN)
  BY DEF reload, TableTypeOK
<1> QED BY <1>1, HandleTyped, FreeCallIs DEF reload, TableTypeOK

LEMMA ServerListsTyped ==
  ASSUME TableTypeOK, NEW c \in Call, ServerLists(c)
  PROVE  TableTypeOK'
<1>1. PageOf(rows, call[c].page) \subseteq Row /\ Cardinality(rows) \in 0 .. Cardinality(Row)
  BY Counts DEF TableTypeOK, PageOf
<1>2. call[c].page \in Pages
  BY DEF TableTypeOK, CallRecord
<1>3. call' \in [Call -> CallRecord]
  BY <1>1, <1>2 DEF ServerLists, TableTypeOK, CallRecord, CallState
<1> QED BY <1>3 DEF ServerLists, TableTypeOK

LEMMA CallAnsweredTyped ==
  ASSUME TableTypeOK, NEW c \in Call, CallAnswered(c)
  PROVE  TableTypeOK'
<1>1. call[c].page \in Pages /\ call[c].list \subseteq Row /\ call[c].total \in 0 .. Cardinality(Row)
  BY DEF TableTypeOK, CallRecord
<1>2. CASE StepsBack(c)
  <2>1. call[c].page - 1 \in Pages
    BY <1>1, <1>2, FirstPage DEF StepsBack
  <2> QED BY <1>1, <1>2, <2>1, HandleTyped DEF CallAnswered, Turn, TableTypeOK
<1>3. CASE ~StepsBack(c)
  BY <1>1, <1>3, CallsTyped DEF CallAnswered, TableTypeOK
<1> QED BY <1>2, <1>3

LEMMA CallFailsTyped ==
  ASSUME TableTypeOK, NEW c \in Call, CallFails(c)
  PROVE  TableTypeOK'
BY CallsTyped DEF CallFails, TableTypeOK

LEMMA TableGoneTyped ==
  ASSUME TableTypeOK, TableGone
  PROVE  TableTypeOK'
<1>1. 0 \in 0 .. Cardinality(Row)
  BY TableAssumption, FS_CardinalityType
<1> QED BY <1>1, FirstPage, CallsTyped DEF TableGone, TableTypeOK

LEMMA RowsFewer ==
  ASSUME TableTypeOK, rows' \subseteq rows,
         UNCHANGED <<current, loading, dataSource, total, call, shownPage, clean,
                     stands, behind>>
  PROVE  TableTypeOK'
BY DEF TableTypeOK

LEMMA TableRests ==
  ASSUME TableTypeOK, UNCHANGED tableVars
  PROVE  TableTypeOK'
BY DEF TableTypeOK, tableVars

\* The class's own steps.
LEMMA BreakTyped ==
  ASSUME DataTypes, NEW s \in Socket, Break(s)
  PROVE  outbox' \in [Socket -> SUBSET Request] /\ inbox' \in [Socket -> Seq(Reply)]
<1>1. <<>> \in Seq(Reply)
  BY EmptySeq
<1> QED BY <1>1 DEF Break, DataTypes

LEMMA EventsTyped ==
  ASSUME DataTypes, WsEvent
  PROVE  DataTypes'
<1>1. ASSUME NEW s \in Socket, onopen(s) PROVE DataTypes'
  BY <1>1 DEF onopen, DataTypes
<1>2. ASSUME NEW s \in Socket, onerror(s) \/ onclose(s) PROVE DataTypes'
  BY <1>2, BreakTyped DEF onerror, onclose, DataTypes
<1>3. CASE reconnect \/ NewSocket
  BY <1>3 DEF reconnect, NewSocket, DataTypes
<1> QED BY <1>1, <1>2, <1>3 DEF WsEvent

LEMMA TransmitTyped ==
  ASSUME TypeOK, NEW r \in Request, Transmit(r)
  PROVE  outbox' \in [Socket -> SUBSET Request]
BY TypesTogether DEF Transmit, DataTypes, SocketTypes

\* What a stack of resolvers is, and what becomes of it.
LEMMA Stacks ==
  ASSUME NEW q \in Seq(Request), q # <<>>
  PROVE  q[Len(q)] \in Request /\ SubSeq(q, 1, Len(q) - 1) \in Seq(Request)
<1>1. Len(q) \in Nat \ {0}
  BY EmptySeq
<1>2. Len(q) - 1 \in Int /\ 1 \in Int /\ \A i \in 1 .. Len(q) - 1 : i \in 1 .. Len(q)
  BY <1>1
<1>3. \A i \in 1 .. Len(q) : q[i] \in Request
  BY ElementOfSeq
<1>4. SubSeq(q, 1, Len(q) - 1) \in Seq(Request)
  BY <1>2, <1>3, SubSeqProperties
<1> QED BY <1>1, <1>3, <1>4

LEMMA MessagesTyped ==
  ASSUME DataTypes, NEW s \in Socket, onmessage(s)
  PROVE  /\ DataTypes'
         /\ Head(inbox[s]) \in Reply
         /\ LET r == Resolved(Head(inbox[s]).code) IN r # NoRequest => r \in Request
<1> DEFINE m == Head(inbox[s])
           q == resolveMap[m.code]
<1>1. m \in Reply /\ Tail(inbox[s]) \in Seq(Reply)
  <2>1. inbox[s] \in Seq(Reply) /\ inbox[s] # <<>>
    BY DEF DataTypes, onmessage
  <2> QED BY <2>1, HeadTailProperties
<1>2. m.code \in Code /\ q \in Seq(Request)
  BY <1>1 DEF Reply, DataTypes
<1>3. Unresolved(m.code) \in Seq(Request)
  BY <1>2, Stacks, EmptySeq DEF Unresolved
<1>4. Resolved(m.code) # NoRequest => Resolved(m.code) \in Request
  BY <1>2, Stacks DEF Resolved
<1>5. DataTypes'
  BY <1>1, <1>2, <1>3 DEF onmessage, DataTypes
<1> QED BY <1>1, <1>4, <1>5

\* The page's steps.
LEMMA RowActionTyped ==
  ASSUME TypeOK, NEW r \in Request, NEW c \in Code, NEW d \in Row, RowAction(r, c, d)
  PROVE  DataTypes' /\ TableTypeOK' /\ PageTypes'
<1>0. DataTypes /\ TableTypeOK /\ PageTypes
  BY TypesTogether
<1>1. Append(resolveMap[c], r) \in Seq(Request)
  BY <1>0, AppendProperties DEF DataTypes
<1>2. DataTypes'
  BY <1>0, <1>1, TransmitTyped DEF RowAction, send, DataTypes
<1>3. TableTypeOK'
  BY <1>0 DEF RowAction, TableTypeOK, SendThrows
<1>4. PageTypes'
  <2>1. [code |-> c, row |-> d, page |-> current] \in Op
    BY <1>0 DEF TableTypeOK, Op
  <2>2. op' \in [Request -> Op]
    BY <1>0, <2>1 DEF RowAction, PageTypes
  <2>3. promise' \in [Request -> PromiseState]
    BY <1>0 DEF RowAction, PageTypes, PromiseState
  <2>4. submitting' \in BOOLEAN
    BY DEF RowAction, SendThrows
  <2> QED BY <1>0, <2>2, <2>3, <2>4 DEF RowAction, PageTypes
<1> QED BY <1>2, <1>3, <1>4

LEMMA ServerHandlesTyped ==
  ASSUME TypeOK, NEW s \in Socket, NEW r \in Request, ServerHandles(s, r)
  PROVE  DataTypes' /\ TableTypeOK' /\ PageTypes'
<1>0. DataTypes /\ TableTypeOK /\ PageTypes
  BY TypesTogether
<1>1. PICK ok \in BOOLEAN :
        /\ rows' = rows \/ rows' = rows \ {op[r].row}
        /\ inbox' = IF sock[s] = "open"
                    THEN [inbox EXCEPT ![s] =
                            Append(@, [code |-> op[r].code, to |-> r,
                                       ok |-> ok, result |-> 0])]
                    ELSE inbox
  BY DEF ServerHandles
<1> DEFINE m == [code |-> op[r].code, to |-> r, ok |-> ok, result |-> 0]
<1>2. m \in Reply
  BY <1>0 DEF PageTypes, Op, Reply
<1>3. Append(inbox[s], m) \in Seq(Reply)
  BY <1>0, <1>2, AppendProperties DEF DataTypes
<1>4. inbox' \in [Socket -> Seq(Reply)]
  BY <1>0, <1>1, <1>3 DEF DataTypes
<1>5. DataTypes'
  BY <1>0, <1>4 DEF ServerHandles, DataTypes
<1>6. TableTypeOK'
  BY <1>0, <1>1, RowsFewer DEF ServerHandles
<1>7. PageTypes'
  BY <1>0 DEF ServerHandles, pageVars, PageTypes
<1> QED BY <1>5, <1>6, <1>7

LEMMA SettleTyped ==
  ASSUME TypeOK, NEW r \in Request, NEW m \in Reply, Settle(r, m)
  PROVE  TableTypeOK' /\ PageTypes'
<1>0. TableTypeOK /\ PageTypes
  BY TypesTogether
<1>1. op[r].page \in Pages /\ op[r].row \in Row
  BY <1>0 DEF PageTypes, Op
<1>2. TableTypeOK' /\ deleted' \subseteq Row
  <2>1. CASE m.ok
    BY <1>0, <1>1, <2>1, ReloadTyped DEF Settle, PageTypes
  <2>2. CASE ~m.ok
    BY <1>0, <2>2, TableRests DEF Settle, PageTypes
  <2> QED BY <2>1, <2>2
<1>3. PageTypes'
  BY <1>0, <1>2, OpsTyped DEF Settle, PageTypes, PromiseState, Reply
<1> QED BY <1>2, <1>3

LEMMA MessageTyped ==
  ASSUME TypeOK, NEW s \in Socket, Message(s)
  PROVE  DataTypes' /\ TableTypeOK' /\ PageTypes'
<1>0. DataTypes /\ TableTypeOK /\ PageTypes /\ onmessage(s)
  BY TypesTogether DEF Message
<1> DEFINE m == Head(inbox[s])
           r == Resolved(m.code)
<1>1. DataTypes' /\ m \in Reply /\ (r # NoRequest => r \in Request)
  BY <1>0, MessagesTyped
<1>2. CASE r # NoRequest /\ promise[r] = "pending"
  BY <1>1, <1>2, SettleTyped DEF Message
<1>3. CASE ~(r # NoRequest /\ promise[r] = "pending")
  BY <1>0, <1>1, <1>3, TableRests DEF Message, pageVars, PageTypes
<1> QED BY <1>1, <1>2, <1>3

LEMMA TypeStep == TypeOK /\ SocketInv' /\ [Next]_vars => TypeOK'
<1> SUFFICES ASSUME TypeOK, SocketInv', [Next]_vars
             PROVE  DataTypes' /\ TableTypeOK' /\ PageTypes'
  BY DEF SocketInv, TypeOK, WsTypeOK, SocketTypes, DataTypes, PageTypes
<1>0. DataTypes /\ TableTypeOK /\ PageTypes
  BY TypesTogether
<1>1. UNCHANGED wsVars => DataTypes'
  BY <1>0 DEF wsVars, DataTypes
<1>2. UNCHANGED tableVars => TableTypeOK'
  BY <1>0, TableRests
<1>3. UNCHANGED pageVars => PageTypes'
  BY <1>0 DEF pageVars, PageTypes
<1>4. ASSUME NEW p \in Pages, TurnPage(p) PROVE DataTypes' /\ TableTypeOK' /\ PageTypes'
  BY <1>0, <1>1, <1>3, <1>4, SetPaginationTyped DEF TurnPage, onChange
<1>5. CASE Search
  BY <1>0, <1>1, <1>3, <1>5, SetPaginationTyped, FirstPage DEF Search, search
<1>6. CASE Unmount
  <2>1. DataTypes'
    BY <1>0, <1>6 DEF Unmount, close, DataTypes
  <2>2. PageTypes'
    BY <1>0, <1>6 DEF Unmount, PageTypes
  <2> QED BY <1>0, <1>6, <2>1, <2>2, TableGoneTyped DEF Unmount
<1>7. CASE SocketEvent
  BY <1>0, <1>2, <1>3, <1>7, EventsTyped DEF SocketEvent
<1>8. ASSUME NEW c \in Call, Http(c) PROVE DataTypes' /\ TableTypeOK' /\ PageTypes'
  BY <1>0, <1>1, <1>3, <1>8, ServerListsTyped, CallAnsweredTyped, CallFailsTyped DEF Http
<1>9. ASSUME NEW d \in Row, OtherUser(d) PROVE DataTypes' /\ TableTypeOK' /\ PageTypes'
  BY <1>0, <1>1, <1>3, <1>9, RowsFewer DEF OtherUser, RowDeletedElsewhere
<1>10. CASE UNCHANGED vars
  BY <1>1, <1>2, <1>3, <1>10 DEF vars
<1> QED BY <1>4, <1>5, <1>6, <1>7, <1>8, <1>9, <1>10, RowActionTyped, ServerHandlesTyped,
           MessageTyped DEF Next

\* Every variable of the page, of its hook and of its socket keeps its type: the
\* attempts stay within the options' number, the pages within the list's.
THEOREM TypeCorrect == Spec => []TypeOK
<1>1. Init => SocketInv /\ TypeOK
  BY SocketInit, TypesHoldFirst DEF Init
<1>2. SocketInv /\ TypeOK /\ [Next]_vars => (SocketInv /\ TypeOK)'
  BY SocketStep, TypeStep
<1> QED BY <1>1, <1>2, PTL DEF Spec

(***************************************************************************)
(* One request at a time, and its own answer                               *)
(*                                                                         *)
(* While a request is pending the overlay is on, and whatever is on its    *)
(* way, to the server or back, is that request or its answer: there is at  *)
(* most one message in all the connections of the page.  The resolver of   *)
(* the pending request lies on top of the stack of its code.               *)
(***************************************************************************)
Pending(r) == promise[r] = "pending"

OneWaits ==
  \A r \in Request : Pending(r) => submitting /\ \A q \in Request : Pending(q) => r = q

\* A request on its way to the server over connection s.
OnItsWay(s, r) ==
  r \in outbox[s] =>
    /\ Pending(r)
    /\ \A t \in Socket : (r \in outbox[t] => t = s) /\ inbox[t] = <<>>

\* A message on its way to the browser over connection s.
Answers(s) ==
  inbox[s] # <<>> =>
    LET m == Head(inbox[s])
    IN  /\ m.to \in Request /\ Pending(m.to)
        /\ m.code = op[m.to].code
        /\ Tail(inbox[s]) = <<>>
        /\ \A t \in Socket : (t # s => inbox[t] = <<>>) /\ outbox[t] = {}

OnTop(r) == Pending(r) => Resolved(op[r].code) = r

AskInv ==
  /\ OneWaits
  /\ \A s \in Socket : \A r \in Request : OnItsWay(s, r)
  /\ \A s \in Socket : Answers(s)
  /\ \A r \in Request : OnTop(r)

\* Everything the page is in the course of.
Inv == SocketInv /\ TypeOK /\ AskInv

LEMMA AskHoldsFirst == Init => AskInv
<1> SUFFICES ASSUME Init PROVE AskInv
  OBVIOUS
<1>1. \A r \in Request : ~Pending(r)
  BY DEF Init, Pending
<1>2. \A s \in Socket : outbox[s] = {} /\ inbox[s] = <<>>
  BY DEF Init, WsInit
<1> QED BY <1>1, <1>2 DEF AskInv, OneWaits, OnItsWay, Answers, OnTop

\* Steps that leave requests, messages and stacks alone; rows may go.
LEMMA AskRests ==
  ASSUME AskInv,
         UNCHANGED <<outbox, inbox, resolveMap, submitting, op, promise>>,
         rows' \subseteq rows
  PROVE  AskInv'
<1>1. OneWaits'
  BY DEF AskInv, OneWaits, Pending
<1>2. ASSUME NEW s \in Socket, NEW r \in Request PROVE OnItsWay(s, r)'
  BY DEF AskInv, OnItsWay, Pending
<1>3. ASSUME NEW s \in Socket PROVE Answers(s)'
  BY DEF AskInv, Answers, Pending
<1>4. ASSUME NEW r \in Request PROVE OnTop(r)'
  BY DEF AskInv, OnTop, Pending, Resolved
<1> QED BY <1>1, <1>2, <1>3, <1>4 DEF AskInv

\* A connection breaks: what was on its way is lost, or is still with the server.
LEMMA AskBreaks ==
  ASSUME TypeOK, AskInv, NEW s \in Socket, Break(s),
         UNCHANGED <<resolveMap, submitting, op, promise, rows>>
  PROVE  AskInv'
<1>0. DataTypes
  BY TypesTogether
<1>1. \A t \in Socket : outbox'[t] \subseteq outbox[t] /\ (inbox'[t] = inbox[t] \/ inbox'[t] = <<>>)
  BY <1>0 DEF Break, DataTypes
<1>2. OneWaits'
  BY DEF AskInv, OneWaits, Pending
<1>3. ASSUME NEW t \in Socket, NEW r \in Request PROVE OnItsWay(t, r)'
  BY <1>1 DEF AskInv, OnItsWay, Pending
<1>4. ASSUME NEW t \in Socket PROVE Answers(t)'
  BY <1>1 DEF AskInv, Answers, Pending
<1>5. ASSUME NEW r \in Request PROVE OnTop(r)'
  BY DEF AskInv, OnTop, Pending, Resolved
<1> QED BY <1>2, <1>3, <1>4, <1>5 DEF AskInv

\* Without a pending request nothing is on its way.
LEMMA NothingUnderWay ==
  ASSUME TypeOK, AskInv, ~submitting
  PROVE  /\ \A r \in Request : ~Pending(r)
         /\ \A s \in Socket : outbox[s] = {} /\ inbox[s] = <<>>
<1>1. \A r \in Request : ~Pending(r)
  BY DEF AskInv, OneWaits
<1>2. ASSUME NEW s \in Socket PROVE outbox[s] = {}
  <2>1. outbox[s] \subseteq Request
    BY TypesTogether DEF DataTypes
  <2> QED BY <1>1, <2>1 DEF AskInv, OnItsWay
<1>3. ASSUME NEW s \in Socket PROVE inbox[s] = <<>>
  BY <1>1 DEF AskInv, Answers
<1> QED BY <1>1, <1>2, <1>3

LEMMA AskMade ==
  ASSUME TypeOK, AskInv, NEW r \in Request, NEW c \in Code, NEW d \in Row, RowAction(r, c, d)
  PROVE  AskInv'
<1>0. DataTypes /\ SocketTypes /\ PageTypes /\ ~submitting
  BY TypesTogether DEF RowAction, Overlay
<1>1. /\ \A q \in Request : ~Pending(q)
      /\ \A s \in Socket : outbox[s] = {} /\ inbox[s] = <<>>
  BY <1>0, NothingUnderWay
<1>2. inbox' = inbox /\ rows' = rows
  BY DEF RowAction, send
<1>3. \A q \in Request : q # r => ~Pending(q)'
  BY <1>0, <1>1 DEF RowAction, Pending, PageTypes
<1>4. CASE SendThrows
  <2>1. ~Pending(r)'
    BY <1>0, <1>4 DEF RowAction, Pending, PageTypes
  <2>2. outbox' = outbox
    BY <1>4 DEF RowAction, send, Transmit, SendThrows
  <2> QED BY <1>1, <1>2, <1>3, <2>1, <2>2 DEF AskInv, OneWaits, OnItsWay, Answers, OnTop
<1>5. CASE ~SendThrows
  <2>1. Pending(r)' /\ submitting'
    BY <1>0, <1>5 DEF RowAction, Pending, PageTypes
  <2>2. op'[r].code = c
    BY <1>0, <1>5 DEF RowAction, PageTypes
  <2>3. \A s \in Socket : outbox'[s] = {} \/ (s = websocket /\ outbox'[s] = {r})
    BY <1>0, <1>1 DEF RowAction, send, Transmit, DataTypes
  <2>4. Resolved(c)' = r
    <3>1. resolveMap'[c] = Append(resolveMap[c], r) /\ resolveMap[c] \in Seq(Request)
      BY <1>0 DEF RowAction, send, DataTypes
    <3>2. resolveMap'[c] # <<>> /\ resolveMap'[c][Len(resolveMap'[c])] = r
      BY <3>1, AppendProperties
    <3> QED BY <3>2 DEF Resolved
  <2>5. OneWaits'
    BY <1>3, <2>1 DEF OneWaits
  <2>6. ASSUME NEW s \in Socket, NEW q \in Request PROVE OnItsWay(s, q)'
    BY <1>1, <1>2, <2>1, <2>3 DEF OnItsWay
  <2>7. ASSUME NEW s \in Socket PROVE Answers(s)'
    BY <1>1, <1>2 DEF Answers
  <2>8. ASSUME NEW q \in Request PROVE OnTop(q)'
    BY <1>3, <2>2, <2>4 DEF OnTop, Resolved
  <2> QED BY <2>5, <2>6, <2>7, <2>8 DEF AskInv
<1> QED BY <1>4, <1>5

LEMMA AskHandled ==
  ASSUME TypeOK, AskInv, NEW s \in Socket, NEW r \in Request, ServerHandles(s, r)
  PROVE  AskInv'
<1>0. DataTypes /\ PageTypes
  BY TypesTogether
<1>1. PICK ok \in BOOLEAN :
        /\ rows' = rows \/ rows' = rows \ {op[r].row}
        /\ inbox' = IF sock[s] = "open"
                    THEN [inbox EXCEPT ![s] =
                            Append(@, [code |-> op[r].code, to |-> r,
                                       ok |-> ok, result |-> 0])]
                    ELSE inbox
  BY DEF ServerHandles
<1> DEFINE m == [code |-> op[r].code, to |-> r, ok |-> ok, result |-> 0]
<1>2. /\ Pending(r)
      /\ \A t \in Socket : inbox[t] = <<>>
      /\ \A t \in Socket : r \in outbox[t] => t = s
  BY DEF ServerHandles, AskInv, OnItsWay
<1>3. \A q \in Request : Pending(q) => q = r
  BY <1>2 DEF AskInv, OneWaits
<1>4. ASSUME NEW t \in Socket PROVE outbox'[t] = {}
  <2>1. outbox[t] \subseteq Request /\ \A q \in outbox[t] : q = r
    BY <1>0, <1>3 DEF DataTypes, AskInv, OnItsWay
  <2>2. outbox'[t] = IF t = s THEN outbox[t] \ {r} ELSE outbox[t]
    BY <1>0 DEF ServerHandles, DataTypes
  <2> QED BY <1>2, <2>1, <2>2
<1>5. \A t \in Socket : inbox'[t] = <<>> \/ (t = s /\ inbox'[t] = Append(<<>>, m))
  BY <1>0, <1>1, <1>2 DEF DataTypes
<1>6. UNCHANGED <<resolveMap, submitting, op, promise>>
  BY DEF ServerHandles, pageVars
<1>7. OneWaits'
  BY <1>6 DEF AskInv, OneWaits, Pending
<1>8. ASSUME NEW t \in Socket, NEW q \in Request PROVE OnItsWay(t, q)'
  BY <1>4 DEF OnItsWay
<1>9. ASSUME NEW t \in Socket PROVE Answers(t)'
  <2>1. CASE inbox'[t] = <<>>
    BY <2>1 DEF Answers
  <2>2. CASE t = s /\ inbox'[t] = Append(<<>>, m)
    <3>1. Head(inbox'[t]) = m /\ Tail(inbox'[t]) = <<>>
      BY <2>2
    <3>2. m.to = r /\ m.code = op[r].code /\ m.ok = ok
      OBVIOUS
    <3>4. Pending(r)' /\ op' = op
      BY <1>2, <1>6 DEF Pending
    <3>5. \A u \in Socket : u # t => inbox'[u] = <<>>
      BY <1>5, <2>2
    <3> QED BY <1>4, <3>1, <3>2, <3>4, <3>5 DEF Answers, Pending
  <2> QED BY <1>5, <2>1, <2>2
<1>10. ASSUME NEW q \in Request PROVE OnTop(q)'
  BY <1>6 DEF AskInv, OnTop, Pending, Resolved
<1> QED BY <1>7, <1>8, <1>9, <1>10 DEF AskInv

\* A message settles the request that it answers.
LEMMA AnswersTheOne ==
  ASSUME TypeOK, AskInv, NEW s \in Socket, Message(s)
  PROVE  LET m == Head(inbox[s])
             r == m.to
         IN  /\ m \in Reply /\ r \in Request /\ Pending(r)
             /\ m.code = op[r].code
             /\ Settle(r, m)
<1> DEFINE m == Head(inbox[s])
           r == m.to
<1>1. DataTypes /\ onmessage(s) /\ inbox[s] # <<>>
  BY TypesTogether DEF Message, onmessage
<1>2. r \in Request /\ Pending(r) /\ m.code = op[r].code
  BY <1>1 DEF AskInv, Answers
<1>3. Resolved(m.code) = r
  BY <1>2 DEF AskInv, OnTop
<1>4. Settle(r, m)
  BY <1>2, <1>3, NoRequestAssumption DEF Message, Pending
<1>5. m \in Reply
  BY <1>1, MessagesTyped
<1> QED BY <1>2, <1>4, <1>5

LEMMA AskAnswered ==
  ASSUME TypeOK, AskInv, NEW s \in Socket, Message(s)
  PROVE  AskInv'
<1> DEFINE m == Head(inbox[s])
           r == m.to
<1>0. DataTypes /\ PageTypes /\ onmessage(s) /\ inbox[s] # <<>>
  BY TypesTogether DEF Message, onmessage
<1>1. r \in Request /\ Pending(r) /\ Settle(r, m)
  BY AnswersTheOne
<1>2. \A q \in Request : ~Pending(q)'
  BY <1>0, <1>1 DEF Settle, PageTypes, Pending, AskInv, OneWaits
<1>3. \A t \in Socket : outbox'[t] = {} /\ inbox'[t] = <<>>
  BY <1>0 DEF onmessage, DataTypes, AskInv, Answers
<1> QED BY <1>2, <1>3 DEF AskInv, OneWaits, OnItsWay, Answers, OnTop

LEMMA AskStep == TypeOK /\ AskInv /\ [Next]_vars => AskInv'
<1> SUFFICES ASSUME TypeOK, AskInv, [Next]_vars PROVE AskInv'
  OBVIOUS
<1>1. ASSUME UNCHANGED wsVars, UNCHANGED pageVars, rows' \subseteq rows PROVE AskInv'
  BY <1>1, AskRests DEF wsVars, pageVars
<1>2. ASSUME NEW p \in Pages, TurnPage(p) PROVE AskInv'
  BY <1>1, <1>2 DEF TurnPage, onChange, setPagination
<1>3. CASE Search
  BY <1>1, <1>3 DEF Search, search, setPagination
<1>4. CASE Unmount
  BY <1>4, AskRests DEF Unmount, close, TableGone
<1>5. CASE SocketEvent
  <2>1. UNCHANGED <<submitting, op, promise, rows>>
    BY <1>5 DEF SocketEvent, pageVars, tableVars
  <2>2. ASSUME NEW s \in Socket, onopen(s) PROVE AskInv'
    BY <2>1, <2>2, AskRests DEF onopen
  <2>3. ASSUME NEW s \in Socket, onerror(s) \/ onclose(s) PROVE AskInv'
    BY <2>1, <2>3, AskBreaks DEF onerror, onclose
  <2>4. CASE reconnect \/ NewSocket
    BY <2>1, <2>4, AskRests DEF reconnect, NewSocket
  <2> QED BY <1>5, <2>2, <2>3, <2>4 DEF SocketEvent, WsEvent
<1>6. ASSUME NEW c \in Call, Http(c) PROVE AskInv'
  BY <1>1, <1>6 DEF Http, ServerLists, CallAnswered, CallFails
<1>7. ASSUME NEW d \in Row, OtherUser(d) PROVE AskInv'
  BY <1>1, <1>7 DEF OtherUser, RowDeletedElsewhere
<1>8. CASE UNCHANGED vars
  BY <1>1, <1>8 DEF vars, tableVars
<1> QED BY <1>2, <1>3, <1>4, <1>5, <1>6, <1>7, <1>8, AskMade, AskHandled, AskAnswered DEF Next

(***************************************************************************)
(* The refinement: a row action is an Ask, or a Refuse when the socket is  *)
(* still connecting; a message is an Answer; all else is a stutter.        *)
(***************************************************************************)
LEMMA WaitingFor == ASSUME OneWaits, NEW r \in Request, Pending(r) PROVE waiting = r
BY DEF OneWaits, Pending, waiting

LEMMA WaitingForNone == ASSUME \A r \in Request : ~Pending(r) PROVE waiting = NoRequest
BY DEF Pending, waiting

LEMMA Stutters ==
  ASSUME UNCHANGED <<promise, answer>>
  PROVE  UNCHANGED <<waiting, made, answer>>
BY DEF waiting, made

LEMMA RowActionAsks ==
  ASSUME Inv, AskInv', NEW r \in Request, NEW c \in Code, NEW d \in Row, RowAction(r, c, d)
  PROVE  Promised!Ask(r) \/ Promised!Refuse(r)
<1>0. PageTypes /\ ~submitting /\ promise[r] = "none" /\ answer' = answer
  BY TypesTogether DEF Inv, RowAction, Overlay, Fresh
<1>1. waiting = NoRequest /\ r \notin made
  BY <1>0, NothingUnderWay, WaitingForNone DEF Inv, made
<1>2. made' = made \cup {r}
  BY <1>0 DEF RowAction, made, PageTypes
<1>3. \A q \in Request : q # r => promise'[q] # "pending"
  BY <1>0, NothingUnderWay DEF Inv, Pending, RowAction, PageTypes
<1>4. CASE SendThrows
  <2>1. promise'[r] # "pending"
    BY <1>0, <1>4 DEF RowAction, PageTypes
  <2>2. waiting' = NoRequest
    BY <1>3, <2>1 DEF waiting
  <2> QED BY <1>0, <1>1, <1>2, <2>2 DEF Promised!Refuse
<1>5. CASE ~SendThrows
  <2>1. promise'[r] = "pending"
    BY <1>0, <1>5 DEF RowAction, PageTypes
  <2>2. waiting' = r
    BY <1>3, <2>1 DEF waiting
  <2> QED BY <1>0, <1>1, <1>2, <2>2 DEF Promised!Ask
<1> QED BY <1>4, <1>5

LEMMA MessageAnswers ==
  ASSUME Inv, NEW s \in Socket, Message(s)
  PROVE  \E r \in Request : Promised!Answer(r)
<1> DEFINE m == Head(inbox[s])
           r == m.to
<1>1. r \in Request /\ Pending(r) /\ Settle(r, m) /\ PageTypes
  BY AnswersTheOne, TypesTogether DEF Inv
<1>2. waiting = r
  BY <1>1, WaitingFor DEF Inv, AskInv
<1>3. promise' = [promise EXCEPT ![r] = "resolved"] /\ answer' = [answer EXCEPT ![r] = r]
  BY <1>1 DEF Settle
<1>4. made' = made
  BY <1>1, <1>3 DEF made, PageTypes, Pending
<1>5. \A q \in Request : promise'[q] # "pending"
  BY <1>1, <1>3 DEF Inv, AskInv, OneWaits, Pending, PageTypes
<1>6. waiting' = NoRequest
  BY <1>5 DEF waiting
<1> QED BY <1>1, <1>2, <1>3, <1>4, <1>6 DEF Promised!Answer

LEMMA PromisedStep == Inv /\ AskInv' /\ [Next]_vars => [Promised!Next]_<<waiting, made, answer>>
<1> SUFFICES ASSUME Inv, AskInv', [Next]_vars PROVE [Promised!Next]_<<waiting, made, answer>>
  OBVIOUS
<1>1. ASSUME NEW r \in Request, NEW c \in Code, NEW d \in Row, RowAction(r, c, d)
      PROVE  Promised!Next
  BY <1>1, RowActionAsks DEF Promised!Next
<1>2. ASSUME NEW s \in Socket, Message(s) PROVE Promised!Next
  BY <1>2, MessageAnswers DEF Promised!Next
<1>3. CASE \/ Search \/ Unmount \/ SocketEvent \/ UNCHANGED vars
           \/ \E p \in Pages : TurnPage(p)
           \/ \E s \in Socket, r \in Request : ServerHandles(s, r)
           \/ \E c \in Call : Http(c)
           \/ \E d \in Row : OtherUser(d)
  <2>1. UNCHANGED <<promise, answer>>
    BY <1>3 DEF Search, Unmount, SocketEvent, vars, TurnPage, ServerHandles, Http, OtherUser, pageVars
  <2> QED BY <2>1, Stutters
<1> QED BY <1>1, <1>2, <1>3 DEF Next

LEMMA InvHoldsFirst == Init => Inv
BY SocketInit, TypesHoldFirst, AskHoldsFirst DEF Init, Inv

LEMMA InvStep == Inv /\ [Next]_vars => Inv'
BY SocketStep, TypeStep, AskStep DEF Inv

LEMMA PromisedInit == Init => Promised!Init
<1> SUFFICES ASSUME Init PROVE Promised!Init
  OBVIOUS
<1>1. waiting = NoRequest
  BY WaitingForNone DEF Init, Pending
<1> QED BY <1>1 DEF Init, made, Promised!Init

\* The page waits for one request at a time, and a request ends with its own answer or
\* with none, though the class finds the answer by its code alone (web-socket.ts:119).
THEOREM EachItsOwn == Spec => OwnAnswer
<1>1. Inv /\ [Next]_vars => [Promised!Next]_<<waiting, made, answer>>
  BY InvStep, PromisedStep DEF Inv
<1> QED BY <1>1, InvHoldsFirst, InvStep, PromisedInit, PTL DEF Spec, OwnAnswer, Promised!Spec

(***************************************************************************)
(* The table                                                               *)
(*                                                                         *)
(* While the table is clean its one call is of the page the user chose, or *)
(* it is the reload of a row action that the user turned the page after.   *)
(* What it has read, or the table shows, holds no row whose deletion was   *)
(* announced and that had gone: such a row is no longer the server's.  As  *)
(* long as a row action stands, the render it was made in is of the page   *)
(* the user chose.                                                         *)
(***************************************************************************)
OneCall ==
  \A c \in Call : call[c].state # "free" =>
    /\ call[c].page = current \/ behind
    /\ \A d \in Call \ {c} : call[d].state = "free"
    /\ call[c].state = "read" => call[c].list \cap deleted = {}

ActedHere == stands => \A r \in Request : Pending(r) => op[r].page = current

TableInv ==
  /\ deleted \cap rows = {}
  /\ ActedHere
  /\ clean => OneCall
  /\ SettledTable
  /\ DeletedIsGone

LEMMA TableHoldsFirst == Init => TableInv
<1> SUFFICES ASSUME Init PROVE TableInv
  OBVIOUS
<1>1. /\ call = [c \in Call |-> IF c = FirstCall THEN NewCall(1) ELSE NoCall]
      /\ current = 1 /\ shownPage = 1 /\ dataSource = {} /\ deleted = {} /\ stands = FALSE
  BY DEF Init, TableInit
<1>2. OneCall
  BY <1>1 DEF OneCall, NewCall, NoCall
<1> QED BY <1>1, <1>2 DEF TableInv, ActedHere, SettledTable, DeletedIsGone

\* Nothing that these conjuncts are about moves, but that rows go.
LEMMA TableStays ==
  ASSUME TableInv, rows' \subseteq rows, ActedHere',
         UNCHANGED <<current, dataSource, call, shownPage, clean, behind, deleted>>
  PROVE  TableInv'
BY DEF TableInv, OneCall, SettledTable, DeletedIsGone, Free

LEMMA ActedStays ==
  ASSUME ActedHere, UNCHANGED <<current, stands, op, promise>>
  PROVE  ActedHere'
BY DEF ActedHere, Pending

\* A call is made: it has read nothing yet, and the table is not settled.
LEMMA TableCalls ==
  ASSUME TypeOK, deleted' \cap rows' = {}, stands' = FALSE, NEW c \in Call, NEW p \in Pages,
         handleRequest(c, p), p = current' \/ behind'
  PROVE  TableInv'
<1>0. call \in [Call -> CallRecord]
  BY TypesTogether DEF TableTypeOK
<1>1. call'[c] = NewCall(p) /\ \A d \in Call \ {c} : call'[d] = call[d]
  BY <1>0 DEF handleRequest
<1>2. call'[c].state = "sent" /\ call'[c].page = p
  BY <1>1 DEF NewCall
<1>3. (Free # Call)'
  BY <1>2 DEF Free
<1>4. ASSUME clean' PROVE OneCall'
  <2>1. \A d \in Call \ {c} : call'[d].state = "free"
    BY <1>1, <1>4 DEF handleRequest
  <2> QED BY <1>2, <2>1 DEF OneCall
<1> QED BY <1>3, <1>4 DEF TableInv, ActedHere, SettledTable, DeletedIsGone

\* A call ends and makes no other.
LEMMA TableEnds ==
  ASSUME TypeOK, TableInv, NEW c \in Call, call' = [call EXCEPT ![c] = NoCall],
         UNCHANGED <<rows, deleted, current, stands, behind, op, promise>>,
         \/ ~clean'
         \/ /\ clean' = clean /\ shownPage' = call[c].page
            /\ dataSource' = call[c].list /\ call[c].state = "read"
            /\ dataSource' = {} => call[c].page = 1
  PROVE  TableInv'
<1>0. call \in [Call -> CallRecord]
  BY TypesTogether DEF TableTypeOK
<1>1. call'[c] = NoCall /\ \A d \in Call \ {c} : call'[d] = call[d]
  BY <1>0
<1>2. ActedHere'
  BY ActedStays DEF TableInv
<1>3. CASE ~clean'
  BY <1>2, <1>3 DEF TableInv, SettledTable, DeletedIsGone
<1>4. CASE clean' /\ clean /\ shownPage' = call[c].page /\ dataSource' = call[c].list
           /\ call[c].state = "read" /\ (dataSource' = {} => call[c].page = 1)
  <2>1. OneCall /\ (shownPage' = current' \/ behind') /\ dataSource' \cap deleted' = {}
    BY <1>4 DEF TableInv, OneCall
  <2>2. OneCall'
    BY <1>1, <1>4, <2>1 DEF OneCall, NoCall
  <2> QED BY <1>2, <1>4, <2>1, <2>2 DEF TableInv, SettledTable, DeletedIsGone
<1> QED BY <1>3, <1>4

LEMMA AnswerShown ==
  ASSUME TypeOK, TableInv, NEW c \in Call, CallAnswered(c),
         UNCHANGED <<deleted, op, promise>>
  PROVE  TableInv'
<1>0. call[c] \in CallRecord /\ rows' = rows
  BY TypesTogether DEF TableTypeOK, CallAnswered
<1>1. call[c].page \in Pages
  BY <1>0 DEF CallRecord
<1>2. CASE StepsBack(c)
  <2>1. call[c].page - 1 \in Pages
    BY <1>1, <1>2, FirstPage DEF StepsBack
  <2> QED BY <1>0, <1>2, <2>1, TableCalls DEF CallAnswered, Turn, TableInv
<1>3. CASE ~StepsBack(c)
  <2>1. call[c].list = {} => call[c].page = 1
    BY <1>1, <1>3 DEF StepsBack, Pages
  <2>2. /\ call[c].state = "read"
        /\ UNCHANGED <<current, clean, stands, behind>>
        /\ dataSource' = call[c].list /\ shownPage' = call[c].page
        /\ call' = [call EXCEPT ![c] = NoCall]
    BY <1>3 DEF CallAnswered
  <2> QED BY <1>0, <2>1, <2>2, TableEnds
<1> QED BY <1>2, <1>3

LEMMA ListRead ==
  ASSUME TypeOK, TableInv, NEW c \in Call, ServerLists(c),
         UNCHANGED <<deleted, op, promise>>
  PROVE  TableInv'
<1>0. call \in [Call -> CallRecord] /\ call[c].state = "sent"
      /\ UNCHANGED <<rows, current, dataSource, shownPage, clean, stands, behind>>
  BY TypesTogether DEF TableTypeOK, ServerLists
<1>1. /\ call'[c].state = "read" /\ call'[c].page = call[c].page
      /\ call'[c].list = PageOf(rows, call[c].page)
      /\ \A d \in Call \ {c} : call'[d] = call[d]
  BY <1>0 DEF ServerLists
<1>2. call'[c].list \cap deleted' = {}
  BY <1>1 DEF PageOf, TableInv
<1>3. (Free # Call)'
  BY <1>1 DEF Free
<1>4. ASSUME clean' PROVE OneCall'
  <2>1. /\ call[c].page = current \/ behind
        /\ \A d \in Call \ {c} : call[d].state = "free"
    BY <1>0, <1>4 DEF TableInv, OneCall
  <2> QED BY <1>0, <1>1, <1>2, <2>1 DEF OneCall
<1>5. ActedHere'
  BY <1>0, ActedStays DEF TableInv
<1> QED BY <1>0, <1>3, <1>4, <1>5 DEF TableInv, SettledTable, DeletedIsGone

\* A row action is made while none is pending, in a render of the page that is chosen.
LEMMA ActedNow ==
  ASSUME Inv, TableInv, NEW r \in Request, NEW c \in Code, NEW d \in Row, RowAction(r, c, d)
  PROVE  TableInv'
<1>0. PageTypes /\ ~submitting
  BY TypesTogether DEF Inv, RowAction, Overlay
<1>1. \A q \in Request : q # r => ~Pending(q)'
  BY <1>0, NothingUnderWay DEF Inv, RowAction, Pending, PageTypes
<1>2. ActedHere'
  <2>1. CASE SendThrows
    BY <2>1 DEF RowAction, ActedHere
  <2>2. CASE ~SendThrows
    <3>1. op'[r].page = current /\ current' = current
      BY <1>0, <2>2 DEF RowAction, PageTypes
    <3> QED BY <1>1, <3>1 DEF ActedHere
  <2> QED BY <2>1, <2>2
<1> QED BY <1>2, TableStays DEF RowAction

\* A message settles the action it answers.  A success loads the page of the render the
\* action was made in, which is the chosen one unless the page was turned since.
LEMMA ActionAnswered ==
  ASSUME Inv, TableInv, NEW s \in Socket, Message(s)
  PROVE  TableInv'
<1> DEFINE m == Head(inbox[s])
           r == m.to
<1>0. TypeOK /\ TableTypeOK /\ PageTypes
  BY TypesTogether DEF Inv
<1>1. r \in Request /\ Pending(r) /\ Settle(r, m)
  BY AnswersTheOne DEF Inv
<1>2. CASE ~m.ok
  <2>1. \A q \in Request : ~Pending(q)'
    BY <1>0, <1>1 DEF Settle, PageTypes, Pending, Inv, AskInv, OneWaits
  <2>2. ActedHere'
    BY <2>1 DEF ActedHere
  <2> QED BY <1>1, <1>2, <2>2, TableStays DEF Settle, tableVars
<1>3. CASE m.ok
  <2>1. rows' = rows /\ deleted' \cap rows' = {}
    BY <1>1, <1>3 DEF Settle, reload, TableInv
  <2>2. op[r].page \in Pages /\ FreeCall \in Call /\ handleRequest(FreeCall, op[r].page)
    BY <1>0, <1>1, <1>3, FreeCallIs DEF PageTypes, Op, Settle, reload
  <2>3. op[r].page = current' \/ behind'
    BY <1>1, <1>3 DEF Settle, reload, TableInv, ActedHere
  <2>4. stands' = FALSE
    BY <1>1, <1>3 DEF Settle, reload
  <2> QED BY <1>0, <2>1, <2>2, <2>3, <2>4, TableCalls
<1> QED BY <1>2, <1>3

LEMMA TableStep == Inv /\ TableInv /\ [Next]_vars => TableInv'
<1> SUFFICES ASSUME Inv, TableInv, [Next]_vars PROVE TableInv'
  OBVIOUS
<1>0. TypeOK
  BY DEF Inv
<1>1. ASSUME UNCHANGED <<current, dataSource, call, shownPage, clean, stands, behind,
                         deleted, op, promise>>,
             rows' \subseteq rows
      PROVE  TableInv'
  <2>1. ActedHere'
    BY <1>1, ActedStays DEF TableInv
  <2> QED BY <1>1, <2>1, TableStays
<1>2. ASSUME NEW p \in Pages, setPagination(p), deleted' = deleted PROVE TableInv'
  <2>1. /\ handleRequest(FreeCall, p) /\ p = current' /\ stands' = FALSE
        /\ deleted' \cap rows' = {}
    BY <1>2 DEF setPagination, Turn, TableInv
  <2>2. FreeCall \in Call
    BY <1>2, FreeCallIs DEF setPagination
  <2> QED BY <1>0, <2>1, <2>2, TableCalls
<1>3. ASSUME NEW r \in Request, NEW c \in Code, NEW d \in Row, RowAction(r, c, d)
      PROVE  TableInv'
  BY <1>3, ActedNow
<1>4. ASSUME NEW p \in Pages, TurnPage(p) PROVE TableInv'
  BY <1>2, <1>4 DEF TurnPage, onChange, pageVars
<1>5. CASE Search
  BY <1>2, <1>5, FirstPage DEF Search, search, pageVars
<1>6. CASE Unmount
  BY <1>6 DEF Unmount, TableGone, TableInv, ActedHere, OneCall, SettledTable, DeletedIsGone,
              NoCall
<1>7. ASSUME NEW s \in Socket, NEW r \in Request, ServerHandles(s, r) PROVE TableInv'
  BY <1>1, <1>7 DEF ServerHandles, pageVars
<1>8. CASE SocketEvent
  BY <1>1, <1>8 DEF SocketEvent, pageVars, tableVars
<1>9. ASSUME NEW c \in Call, Http(c) PROVE TableInv'
  <2>1. UNCHANGED <<deleted, op, promise>>
    BY <1>9 DEF Http, pageVars
  <2>2. CASE CallFails(c)
    BY <1>0, <2>1, <2>2, TableEnds DEF CallFails
  <2> QED BY <1>0, <1>9, <2>1, <2>2, ListRead, AnswerShown DEF Http
<1>10. ASSUME NEW d \in Row, OtherUser(d) PROVE TableInv'
  BY <1>1, <1>10 DEF OtherUser, RowDeletedElsewhere, pageVars
<1>11. CASE UNCHANGED vars
  BY <1>1, <1>11 DEF vars, pageVars, tableVars
<1> QED BY <1>3, <1>4, <1>5, <1>6, <1>7, <1>8, <1>9, <1>10, <1>11, ActionAnswered DEF Next

\* A settled table shows no empty page beyond the first (the step back in
\* useTableRequest.ts:42), and the page its pagination says, unless the pagination was
\* set between a row action and its answer (the reload in MyDrive/index.tsx:37).
THEOREM TableSettles == Spec => []SettledTable
<1>1. Inv /\ TableInv /\ [Next]_vars => (Inv /\ TableInv)'
  BY InvStep, TableStep
<1>2. TableInv => SettledTable
  BY DEF TableInv
<1> QED BY <1>1, <1>2, InvHoldsFirst, TableHoldsFirst, PTL DEF Spec

\* A settled table shows no row whose deletion the page has announced and that had gone
\* from the database by then, whichever deletions failed or left the row behind a success:
\* the list is asked for after the answer (MyDrive/index.tsx, handleDelete).
THEOREM DeletedNotShown == Spec => []DeletedIsGone
<1>1. Inv /\ TableInv /\ [Next]_vars => (Inv /\ TableInv)'
  BY InvStep, TableStep
<1>2. TableInv => DeletedIsGone
  BY DEF TableInv
<1> QED BY <1>1, <1>2, InvHoldsFirst, TableHoldsFirst, PTL DEF Spec
=============================================================================
