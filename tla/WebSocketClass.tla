--------------------------- MODULE WebSocketClass ---------------------------
(***************************************************************************)
(* The browser's side of the websocket: class WebSocketClass of            *)
(* utils/web-socket.ts, with the options the provider of                   *)
(* components/WebSocket gives it.  One instance lives as long as its page. *)
(*                                                                         *)
(* The class makes a first socket in its constructor and a new one in each *)
(* reconnect(), so sockets are numbered in the order they are made.  It    *)
(* removes its listeners with freshly bound functions, which removes       *)
(* nothing: the events of every socket it ever made reach it.              *)
(*                                                                         *)
(* Requests are answered by code, not by identity: the resolvers of the    *)
(* requests of one code form a stack.  What a page does when its promise   *)
(* settles is in the module that extends this one.                         *)
(***************************************************************************)
EXTENDS Naturals, Sequences

CONSTANTS Request,      \* the messages a page may send, one identity each
          NoRequest,    \* what a message that answers nothing is about
          Code,         \* the message codes in use
          MaxAttempts   \* options.reconnectionAttempts

ASSUME MaxAttemptsAssumption == MaxAttempts \in Nat
ASSUME NoRequestAssumption == NoRequest \notin Request

Socket == 1 .. (MaxAttempts + 1)

\* What the server writes: the code and the answer's success and result.  The
\* request that made the server write it, "to", is not in the message: only
\* properties look at it.
Reply == [code : Code, to : Request, ok : BOOLEAN, result : Nat]

VARIABLES
    sock,                  \* [Socket -> readyState], see SocketState
    websocket,             \* the socket this.websocket refers to
    lockReconnect,
    reconnectionAttempts,
    errorTimers,           \* timeouts set by onerror that have not fired
    reconnectTimers,       \* timeouts set by reconnect that have not fired
    resolveMap,            \* [Code -> stack of the requests' resolvers]
    outbox,                \* [Socket -> requests on their way to the server]
    inbox                  \* [Socket -> replies on their way to the browser]

socketVars == <<sock, websocket, lockReconnect, reconnectionAttempts,
                errorTimers, reconnectTimers>>
wsVars == <<socketVars, resolveMap, outbox, inbox>>

(***************************************************************************)
(* "aborting" is a socket closed before it opened, "closing" one closed    *)
(* after.  A socket that ends with an error event is "failed", one that    *)
(* ends with a close event alone is "lost".                                *)
(***************************************************************************)
SocketState == {"none", "connecting", "open", "aborting", "closing",
                "failed", "lost"}
Ended == {"none", "failed", "lost"}

WsInit ==
    /\ sock = [s \in Socket |-> IF s = 1 THEN "connecting" ELSE "none"]
    /\ websocket = 1
    /\ lockReconnect = FALSE
    /\ reconnectionAttempts = 0
    /\ errorTimers = 0
    /\ reconnectTimers = 0
    /\ resolveMap = [c \in Code |-> <<>>]
    /\ outbox = [s \in Socket |-> {}]
    /\ inbox = [s \in Socket |-> <<>>]

-----------------------------------------------------------------------------
(* Events of the sockets.                                                  *)

onopen(s) ==
    /\ sock[s] = "connecting"
    /\ sock' = [sock EXCEPT ![s] = "open"]
    /\ UNCHANGED <<websocket, lockReconnect, reconnectionAttempts, errorTimers,
                   reconnectTimers, resolveMap, outbox, inbox>>

\* Of what was on its way when a connection broke, the server may have
\* received a part; the browser receives nothing more.
Break(s) ==
    /\ \E kept \in SUBSET outbox[s] : outbox' = [outbox EXCEPT ![s] = kept]
    /\ inbox' = [inbox EXCEPT ![s] = <<>>]

\* Mutant: the last attempt of the options is not made.
LastIsSpent(attempts) == attempts + 1 < MaxAttempts

WillRetry(attempts) == attempts < MaxAttempts

onerror(s) ==
    /\ sock[s] \in {"connecting", "aborting", "open"}
    /\ sock' = [sock EXCEPT ![s] = "failed"]
    /\ errorTimers' = errorTimers
                      + (IF WillRetry(reconnectionAttempts) THEN 1 ELSE 0)
    /\ Break(s)
    /\ UNCHANGED <<websocket, lockReconnect, reconnectionAttempts,
                   reconnectTimers, resolveMap>>

\* Mutant: a close event schedules an attempt as an error does.
RetryAfterClose ==
    /\ errorTimers' = errorTimers + (IF WillRetry(reconnectionAttempts) THEN 1 ELSE 0)
    /\ UNCHANGED reconnectTimers

\* The close event without an error before it: the handler only logs.
AfterClose == UNCHANGED <<errorTimers, reconnectTimers>>

onclose(s) ==
    /\ sock[s] \in {"open", "closing"}
    /\ sock' = [sock EXCEPT ![s] = "lost"]
    /\ AfterClose
    /\ Break(s)
    /\ UNCHANGED <<websocket, lockReconnect, reconnectionAttempts, resolveMap>>

\* The timeout of onerror calls reconnect, which gives up for good once a
\* message has come on any socket.
reconnect ==
    /\ errorTimers > 0
    /\ errorTimers' = errorTimers - 1
    /\ reconnectTimers' = reconnectTimers + (IF lockReconnect THEN 0 ELSE 1)
    /\ UNCHANGED <<sock, websocket, lockReconnect, reconnectionAttempts,
                   resolveMap, outbox, inbox>>

NewSocket ==
    /\ reconnectTimers > 0
    /\ reconnectTimers' = reconnectTimers - 1
    /\ lockReconnect' = FALSE
    /\ reconnectionAttempts' = reconnectionAttempts + 1
    /\ websocket' = reconnectionAttempts + 2
    /\ sock' = [sock EXCEPT ![reconnectionAttempts + 2] = "connecting"]
    /\ UNCHANGED <<errorTimers, resolveMap, outbox, inbox>>

\* Whose promise a message of code c settles: the request sent last.
Resolved(c) ==
    IF resolveMap[c] = <<>> THEN NoRequest
                            ELSE resolveMap[c][Len(resolveMap[c])]

Unresolved(c) ==
    IF resolveMap[c] = <<>> THEN <<>>
                            ELSE SubSeq(resolveMap[c], 1, Len(resolveMap[c]) - 1)

onmessage(s) ==
    /\ sock[s] = "open"
    /\ inbox[s] # <<>>
    /\ inbox' = [inbox EXCEPT ![s] = Tail(@)]
    /\ lockReconnect' = TRUE
    /\ LET c == Head(inbox[s]).code
       IN  resolveMap' = [resolveMap EXCEPT ![c] = Unresolved(c)]
    /\ UNCHANGED <<sock, websocket, reconnectionAttempts, errorTimers,
                   reconnectTimers, outbox>>

-----------------------------------------------------------------------------
(* The operations of the class.                                            *)

\* websocket.send throws on a socket that is still connecting, and drops the
\* message without a word on one that is closing or closed.
SendThrows == sock[websocket] = "connecting"

Transmit(r) ==
    outbox' = IF sock[websocket] = "open"
              THEN [outbox EXCEPT ![websocket] = @ \cup {r}]
              ELSE outbox

\* The resolver is stored before the message is sent: it stays when sending
\* throws, though the promise is then rejected.
send(r, c) ==
    /\ resolveMap' = [resolveMap EXCEPT ![c] = Append(@, r)]
    /\ Transmit(r)
    /\ UNCHANGED <<socketVars, inbox>>

\* sendSync stores a callback for the code, which is the page's, and no
\* resolver.
sendSync(r) ==
    /\ Transmit(r)
    /\ UNCHANGED <<socketVars, resolveMap, inbox>>

close ==
    /\ sock' = [sock EXCEPT ![websocket] =
                    CASE @ = "connecting" -> "aborting"
                      [] @ = "open"       -> "closing"
                      [] OTHER            -> @]
    /\ UNCHANGED <<websocket, lockReconnect, reconnectionAttempts, errorTimers,
                   reconnectTimers, resolveMap, outbox, inbox>>

\* What the browser and its timers do by themselves.
WsEvent == \/ \E s \in Socket : onopen(s) \/ onerror(s) \/ onclose(s)
           \/ reconnect
           \/ NewSocket

-----------------------------------------------------------------------------
(* Properties of the class, whatever page uses it.                         *)

WsTypeOK ==
    /\ sock \in [Socket -> SocketState]
    /\ websocket \in Socket
    /\ lockReconnect \in BOOLEAN
    /\ reconnectionAttempts \in 0 .. MaxAttempts
    /\ errorTimers \in Nat
    /\ reconnectTimers \in Nat
    /\ resolveMap \in [Code -> Seq(Request)]
    /\ outbox \in [Socket -> SUBSET Request]
    /\ inbox \in [Socket -> Seq(Reply)]

(***************************************************************************)
(* The instance never has two lines to the server: every socket but the    *)
(* newest has ended, and an attempt to make another is under way only when *)
(* that one has ended too, one attempt at a time.  This holds although     *)
(* the listeners of old sockets are never removed, two timeouts in a row   *)
(* separate an error from the new socket, and close() may come anywhere    *)
(* between (a second line would get answers delivered to the wrong stack). *)
(***************************************************************************)
OneConnection ==
    /\ \A s \in Socket : s # websocket => sock[s] \in Ended
    /\ errorTimers + reconnectTimers
           <= (IF sock[websocket] = "failed" THEN 1 ELSE 0)

(***************************************************************************)
(* After a connection failed with an error and before any message came,    *)
(* another attempt is scheduled until all the attempts of the options are  *)
(* used up.                                                                *)
(***************************************************************************)
KeepsTrying ==
    (/\ sock[websocket] = "failed"
     /\ ~lockReconnect
     /\ reconnectionAttempts < MaxAttempts)
        => errorTimers + reconnectTimers = 1
=============================================================================
