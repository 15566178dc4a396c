------------------------------- MODULE MyDrive -------------------------------
(***************************************************************************)
(* The page of driver instances, pages/gateway/MyDrive: the table hook and *)
(* the websocket class together, and the server as far as the page sees it *)
(* (controller/http/websocket: every message is handled in a goroutine of  *)
(* its own, and answered with its code).                                   *)
(*                                                                         *)
(* A row's "start", "stop" and "delete" are sent over the websocket; the   *)
(* answer reloads the table over HTTP.  The overlay that the table wears   *)
(* while it loads or submits keeps the user from a second row action; the  *)
(* buttons of the search form are outside it.                              *)
(*                                                                         *)
(* Start and stop do not change which rows there are; what they do to the  *)
(* instance is in DriverService.                                           *)
(***************************************************************************)
EXTENDS WebSocketClass, TableRequest

CONSTANTS RunStatus, Delete     \* the codes 10002 and 10003

ASSUME CodesAssumption ==
    /\ Request \subseteq Nat
    /\ Code = {RunStatus, Delete} /\ RunStatus # Delete
    /\ Row # {}

VARIABLES
    mounted,      \* the page is shown
    submitting,
    op,           \* [Request -> what the row action asked for]
    promise,      \* [Request -> state of the promise that send returned]
    answer,       \* [Request -> the request whose answer settled it]
    deleted       \* history: rows the page was told have been deleted, and
                  \* that had gone from the database by then

pageVars == <<mounted, submitting, op, promise, answer, deleted>>
vars == <<wsVars, tableVars, pageVars>>

\* The page number of the render the user acted in comes along: the
\* continuation calls the reload of that render.
Op == [code : Code, row : Row, page : Pages]

\* The closure of a promise that has settled is gone.
NoOp == [code |-> RunStatus, row |-> CHOOSE d \in Row : TRUE, page |-> 1]

PromiseState == {"none", "pending", "resolved", "rejected"}

\* With one request awaited there is at most one reload to come.
Spare == Cardinality(Free) - (IF submitting THEN 1 ELSE 0)

Init ==
    /\ WsInit
    /\ TableInit
    /\ mounted = TRUE
    /\ submitting = FALSE
    /\ op = [r \in Request |-> NoOp]
    /\ promise = [r \in Request |-> "none"]
    /\ answer = [r \in Request |-> NoRequest]
    /\ deleted = {}

-----------------------------------------------------------------------------
(* The user.                                                               *)

\* Requests are numbered in the order in which they are made.
Fresh == {r \in Request : promise[r] = "none"}

\* Mutant: the table takes row actions while one is submitted.
LoadingOnly == loading

Overlay == loading \/ submitting

\* send of the page.  A promise that is rejected at once runs its finally
\* and leaves submitting off.
RowAction(r, c, d) ==
    /\ mounted /\ ~Overlay
    /\ r \in Fresh /\ \A q \in Fresh : r <= q
    /\ d \in dataSource
    /\ Free # {}
    /\ send(r, c)
    /\ op' = IF SendThrows
             THEN op
             ELSE [op EXCEPT ![r] = [code |-> c, row |-> d, page |-> current]]
    /\ promise' = [promise EXCEPT ![r] = IF SendThrows THEN "rejected" ELSE "pending"]
    /\ submitting' = ~SendThrows
    /\ stands' = ~SendThrows
    /\ UNCHANGED <<rows, current, loading, dataSource, total, call, shownPage, clean, behind,
                   mounted, answer, deleted>>

TurnPage(p) ==
    /\ mounted /\ ~Overlay
    /\ onChange(p)
    /\ UNCHANGED <<wsVars, pageVars>>

Search ==
    /\ mounted
    /\ Spare > 0
    /\ search
    /\ UNCHANGED <<wsVars, pageVars>>

\* The page goes with the state of its hooks; the provider's cleanup closes
\* the socket, and the promises stay.
Unmount ==
    /\ mounted
    /\ mounted' = FALSE
    /\ TableGone
    /\ close
    /\ UNCHANGED <<submitting, op, promise, answer, deleted>>

-----------------------------------------------------------------------------
(* The server and the network.                                             *)

\* A handler may have been started before its connection broke; it answers
\* into the void then.  A failure leaves the row; a success does not mean that
\* it has gone: Del looks at no error of the transaction that deletes it.
ServerHandles(s, r) ==
    /\ r \in outbox[s]
    /\ outbox' = [outbox EXCEPT ![s] = @ \ {r}]
    /\ \E ok \in BOOLEAN :
         /\ \/ rows' = rows
            \/ op[r].code = Delete /\ ok /\ rows' = rows \ {op[r].row}
         /\ inbox' = IF sock[s] = "open"
                     THEN [inbox EXCEPT ![s] =
                             Append(@, [code |-> op[r].code, to |-> r,
                                        ok |-> ok, result |-> 0])]
                     ELSE inbox
    /\ UNCHANGED <<socketVars, resolveMap, pageVars, current, loading,
                   dataSource, total, call, shownPage, clean, stands, behind>>

\* Mutant: the table is not loaded again.
SettleOnly(r, m) ==
    /\ promise' = [promise EXCEPT ![r] = "resolved"]
    /\ answer' = [answer EXCEPT ![r] = m.to]
    /\ submitting' = FALSE
    /\ deleted' = deleted \cup (IF op[r].code = Delete /\ m.ok THEN {op[r].row} \ rows ELSE {})
    /\ op' = [op EXCEPT ![r] = NoOp]
    /\ UNCHANGED <<tableVars, mounted>>

\* The continuation of the promise: a success reloads the table, and either
\* way the overlay of the submission goes.
Settle(r, m) ==
    /\ promise' = [promise EXCEPT ![r] = "resolved"]
    /\ answer' = [answer EXCEPT ![r] = m.to]
    /\ submitting' = FALSE
    /\ IF m.ok
       THEN /\ deleted' = deleted \cup (IF op[r].code = Delete THEN {op[r].row} \ rows ELSE {})
            /\ reload(op[r].page)
       ELSE UNCHANGED <<tableVars, deleted>>
    /\ op' = [op EXCEPT ![r] = NoOp]
    /\ UNCHANGED mounted

Message(s) ==
    /\ onmessage(s)
    /\ LET m == Head(inbox[s])
           r == Resolved(m.code)
       IN  IF r # NoRequest /\ promise[r] = "pending"
           THEN Settle(r, m)
           ELSE UNCHANGED <<tableVars, pageVars>>

SocketEvent == WsEvent /\ UNCHANGED <<tableVars, pageVars>>

\* The calls of a page that has gone are of no consequence, nor is the list.
Http(c) == /\ mounted
           /\ ServerLists(c) \/ CallAnswered(c) \/ CallFails(c)
           /\ UNCHANGED <<wsVars, pageVars>>

OtherUser(d) == /\ mounted
                /\ RowDeletedElsewhere(d)
                /\ UNCHANGED <<wsVars, pageVars>>

Next ==
    \/ \E r \in Request, c \in Code, d \in Row : RowAction(r, c, d)
    \/ \E p \in Pages : TurnPage(p)
    \/ Search
    \/ Unmount
    \/ \E s \in Socket, r \in Request : ServerHandles(s, r)
    \/ \E s \in Socket : Message(s)
    \/ SocketEvent
    \/ \E c \in Call : Http(c)
    \/ \E d \in Row : OtherUser(d)

(***************************************************************************)
(* The browser runs its timers, a connection that is being made or closed  *)
(* comes to an end, the server handles what it has received, an open       *)
(* connection delivers, and a call is answered or times out.  Nobody has   *)
(* to act, and no connection has to break.                                 *)
(***************************************************************************)
Fairness ==
    /\ WF_vars(reconnect /\ UNCHANGED <<tableVars, pageVars>>)
    /\ WF_vars(NewSocket /\ UNCHANGED <<tableVars, pageVars>>)
    /\ \A s \in Socket :
         /\ WF_vars((onopen(s) \/ onerror(s)) /\ sock[s] # "open"
                       /\ UNCHANGED <<tableVars, pageVars>>)
         /\ WF_vars(Message(s))
         /\ \A r \in Request : WF_vars(ServerHandles(s, r))
    /\ \A c \in Call : WF_vars(Http(c))

Spec == Init /\ [][Next]_vars
FairSpec == Spec /\ Fairness

-----------------------------------------------------------------------------
TypeOK ==
    /\ WsTypeOK
    /\ TableTypeOK
    /\ mounted \in BOOLEAN
    /\ submitting \in BOOLEAN
    /\ op \in [Request -> Op]
    /\ promise \in [Request -> PromiseState]
    /\ answer \in [Request -> Request \cup {NoRequest}]
    /\ deleted \subseteq Row

(***************************************************************************)
(* One request is awaited at a time, and it ends with its own answer: the  *)
(* answer is found by its code alone, on top of a stack on which the       *)
(* resolvers of requests that could not be sent lie for ever.              *)
(***************************************************************************)
waiting ==
    IF \E r \in Request : promise[r] = "pending"
    THEN CHOOSE r \in Request : promise[r] = "pending"
    ELSE NoRequest
made == {r \in Request : promise[r] # "none"}

Promised == INSTANCE RequestReply
OwnAnswer == Promised!Spec

(***************************************************************************)
(* A row whose deletion the page has announced, and that had gone from the *)
(* database by then, is not in the table once the table has settled: the   *)
(* page lists after the answer, over another connection.  A row that an    *)
(* ignored error left in the database (servicemanager.go:323) is shown     *)
(* again, after the success was announced.                                 *)
(***************************************************************************)
DeletedIsGone == (Free = Call /\ clean) => dataSource \cap deleted = {}

(***************************************************************************)
(* While the page is shown, the table stops loading again and again, and a *)
(* submission that was sent over a connection ends unless that connection  *)
(* does (a request that was lost with its connection leaves the overlay on *)
(* for good: nothing times it out).                                        *)
(***************************************************************************)
OverlaysEnd ==
    /\ loading ~> (~loading \/ ~mounted)
    /\ \A s \in Socket : (submitting /\ outbox[s] # {})
                              ~> (~submitting \/ sock[s] # "open")
=============================================================================
