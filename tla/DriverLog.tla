------------------------------ MODULE DriverLog ------------------------------
(***************************************************************************)
(* Watching the log of a driver instance: the modal of                     *)
(* pages/gateway/MyDrive/LogModal.tsx on the websocket class, and on the   *)
(* server the hub with the two goroutines of each connection (server.go),  *)
(* a goroutine for each message (deviceservicelog.go), and the readers of  *)
(* log files (hpcloudclient over the library hpcloud/tail).                *)
(*                                                                         *)
(* There is one instance whose log is watched.  A reader of its file is    *)
(* named after the start request that made it.  Starting, stopping and the *)
(* lines all travel under one code.  c.send is unbuffered: a handler that  *)
(* has something to say waits for the connection's writePump.              *)
(***************************************************************************)
EXTENDS WebSocketClass, FiniteSets

CONSTANTS MaxLines    \* bound: lines a log has to offer to one reader

ASSUME LogAssumption == /\ Cardinality(Code) = 1
                        /\ Request \subseteq Nat
                        /\ MaxLines \in Nat

VARIABLES
    isModalOpen, loading,     \* state of the modal
    data,                     \* [Request -> the lines of that reader shown]
    successCallback,          \* the class has the modal's callback
    about,                    \* [Request -> "unused", "start" or "stop"]
    promise,                  \* [Request -> state of a stop's promise]
    clients,                  \* the hub's registered connections
    readPump, writePump,      \* [Socket -> state of the goroutine]
    handler,                  \* [Request -> state of the message's goroutine]
    via,                      \* [Request -> the connection it came over]
    say,                      \* [Request -> answers the handler has yet to send]
    hpcloudMap,               \* the reader kept for the instance, or NoRequest
    tail,                     \* [Request -> state of the reader's goroutine]
    killed,                   \* [Request -> its tomb was told to die]
    stops,                    \* [Request -> the reader a stop waits for]
    lines,                    \* [Request -> lines the reader has offered]
    late                      \* history: lines written after the answer of
                              \* the stop that ended their reader

modalVars == <<isModalOpen, loading, data, successCallback, about, promise>>
hubVars == <<clients, readPump, writePump>>
handlerVars == <<handler, via, say, stops>>
tailVars == <<hpcloudMap, tail, killed, lines>>
serverVars == <<hubVars, handlerVars, tailVars, late>>
vars == <<wsVars, modalVars, serverVars>>

PumpState == {"none", "running", "ended"}
HandlerState == {"none", "begun", "reading", "holding", "stopping",
                 "answering", "done"}
TailState == {"none", "tailing", "offering", "dead"}

LogCode == CHOOSE c \in Code : TRUE

Init ==
    /\ WsInit
    /\ isModalOpen = FALSE /\ loading = FALSE /\ successCallback = FALSE
    /\ data = [r \in Request |-> <<>>]
    /\ about = [r \in Request |-> "unused"]
    /\ promise = [r \in Request |-> "none"]
    /\ clients = {}
    /\ readPump = [s \in Socket |-> "none"]
    /\ writePump = [s \in Socket |-> "none"]
    /\ handler = [r \in Request |-> "none"]
    /\ via = [r \in Request |-> 1]
    /\ say = [r \in Request |-> <<>>]
    /\ stops = [r \in Request |-> NoRequest]
    /\ hpcloudMap = NoRequest
    /\ tail = [r \in Request |-> "none"]
    /\ killed = [r \in Request |-> FALSE]
    /\ lines = [r \in Request |-> 0]
    /\ late = [r \in Request |-> 0]

-----------------------------------------------------------------------------
(* The modal.  The messages are numbered in the order they are made.       *)

Fresh == {r \in Request : about[r] = "unused"}
NextRequest == {r \in Fresh : \A q \in Fresh : r <= q}

\* The callback is stored before the message is sent, even if sending throws.
handleStart(r) ==
    /\ about' = [about EXCEPT ![r] = "start"]
    /\ successCallback' = TRUE
    /\ sendSync(r)
    /\ UNCHANGED promise

handleStop(r) ==
    /\ about' = [about EXCEPT ![r] = "stop"]
    /\ send(r, LogCode)
    /\ promise' = [promise EXCEPT ![r] = IF SendThrows THEN "rejected" ELSE "pending"]
    /\ UNCHANGED successCallback

OpenModal ==
    /\ ~isModalOpen
    /\ isModalOpen' = TRUE
    /\ \E r \in NextRequest : handleStart(r)
    /\ UNCHANGED <<loading, data, serverVars>>

ClickButton ==
    /\ isModalOpen
    /\ \E r \in NextRequest : IF loading THEN handleStop(r) ELSE handleStart(r)
    /\ UNCHANGED <<isModalOpen, loading, data, serverVars>>

Cancel ==
    /\ isModalOpen
    /\ \E r \in NextRequest : handleStop(r)
    /\ data' = [r \in Request |-> <<>>]
    /\ isModalOpen' = FALSE
    /\ UNCHANGED <<loading, serverVars>>

\* A message settles the promise of the last stop, if there is one, and is
\* given to the callback as well.  The continuation of the promise runs last.
Message(s) ==
    /\ onmessage(s)
    /\ LET m == Head(inbox[s])
           r == Resolved(m.code)
           settles == r # NoRequest /\ promise[r] = "pending"
       IN  /\ promise' = IF settles THEN [promise EXCEPT ![r] = "resolved"]
                         ELSE promise
           /\ loading' = IF m.ok THEN ~settles /\ (loading \/ successCallback)
                         ELSE loading
           /\ data' = IF m.ok /\ successCallback /\ m.result > 0
                      THEN [data EXCEPT ![m.to] = Append(@, m.result)]
                      ELSE data
    /\ UNCHANGED <<isModalOpen, successCallback, about, serverVars>>

-----------------------------------------------------------------------------
(* The hub and the goroutines of a connection.                             *)

\* Handle: upgrade, register with the hub, start the pumps.
Handle(s) ==
    /\ sock[s] = "connecting"
    /\ readPump[s] = "none"
    /\ clients' = clients \cup {s}
    /\ readPump' = [readPump EXCEPT ![s] = "running"]
    /\ writePump' = [writePump EXCEPT ![s] = "running"]
    /\ UNCHANGED <<wsVars, modalVars, handlerVars, tailVars, late>>

ClosedByServer(s) == readPump[s] = "ended" \/ writePump[s] = "ended"

ReadMessage(s, r) ==
    /\ readPump[s] = "running"
    /\ r \in outbox[s]
    /\ outbox' = [outbox EXCEPT ![s] = @ \ {r}]
    /\ handler' = [handler EXCEPT ![r] = "begun"]
    /\ via' = [via EXCEPT ![r] = s]
    /\ UNCHANGED <<socketVars, resolveMap, inbox, modalVars, hubVars, say, stops,
                   tailVars, late>>

\* A read fails when the connection has ended at the other side or at this,
\* or when no pong came within pongWait, which a bad network may cause.  The
\* hub, which never waits for anybody, takes the unregistration, and the
\* connection is closed.
ReadFails(s) ==
    /\ readPump[s] = "running"
    /\ sock[s] # "connecting"
    /\ clients' = clients \ {s}
    /\ readPump' = [readPump EXCEPT ![s] = "ended"]
    /\ UNCHANGED <<wsVars, modalVars, writePump, handlerVars, tailVars, late>>

\* What becomes of a write: nothing certain on a connection that ended only
\* at the other side.
WriteSucceeds(s) == ~ClosedByServer(s)
WriteFails(s) == ClosedByServer(s) \/ sock[s] \in Ended

\* Mutant: there is no ticker.
NoPing(s) == FALSE

\* The ticker's ping is what tells an idle writePump that it has to end.
Ping(s) ==
    /\ writePump[s] = "running"
    /\ WriteFails(s)
    /\ writePump' = [writePump EXCEPT ![s] = "ended"]
    /\ UNCHANGED <<wsVars, modalVars, clients, readPump, handlerVars, tailVars, late>>

\* writePump takes a message m from c.send and writes it.
Write(s, m) ==
    /\ writePump[s] = "running"
    /\ \/ /\ WriteSucceeds(s)
          /\ inbox' = IF sock[s] = "open"
                      THEN [inbox EXCEPT ![s] = Append(@, m)] ELSE inbox
          /\ UNCHANGED writePump
       \/ /\ WriteFails(s)
          /\ writePump' = [writePump EXCEPT ![s] = "ended"]
          /\ UNCHANGED inbox
    /\ UNCHANGED <<socketVars, resolveMap, outbox, modalVars, clients, readPump>>

-----------------------------------------------------------------------------
(* The handler of a message.                                               *)

\* The instance or its library is not found, or the request is not accepted.
Refuses(r) ==
    /\ handler[r] = "begun"
    /\ handler' = [handler EXCEPT ![r] = "answering"]
    /\ say' = [say EXCEPT ![r] = <<FALSE>>]
    /\ UNCHANGED <<wsVars, modalVars, hubVars, via, stops, tailVars, late>>

\* StartReadServiceLog: hpcloud.Add forgets the reader it had before.
StartRead(r) ==
    /\ handler[r] = "begun" /\ about[r] = "start"
    /\ hpcloudMap' = r
    /\ tail' = [tail EXCEPT ![r] = "tailing"]
    /\ handler' = [handler EXCEPT ![r] = "reading"]
    /\ UNCHANGED <<wsVars, modalVars, hubVars, via, say, stops, killed, lines, late>>

\* The library's goroutine finds a line and offers it on its channel, where
\* it waits even when it has been told to die.
TailOffers(r) ==
    /\ tail[r] = "tailing" /\ ~killed[r]
    /\ lines[r] < MaxLines
    /\ lines' = [lines EXCEPT ![r] = @ + 1]
    /\ tail' = [tail EXCEPT ![r] = "offering"]
    /\ UNCHANGED <<wsVars, modalVars, hubVars, handlerVars, hpcloudMap, killed, late>>

TakeLine(r) ==
    /\ handler[r] = "reading" /\ tail[r] = "offering"
    /\ tail' = [tail EXCEPT ![r] = "tailing"]
    /\ handler' = [handler EXCEPT ![r] = "holding"]
    /\ UNCHANGED <<wsVars, modalVars, hubVars, via, say, stops, hpcloudMap, killed,
                   lines, late>>

TailDies(r) ==
    /\ tail[r] = "tailing" /\ killed[r]
    /\ tail' = [tail EXCEPT ![r] = "dead"]
    /\ UNCHANGED <<wsVars, modalVars, hubVars, handlerVars, hpcloudMap, killed,
                   lines, late>>

\* Mutant: the handler sends the newest line instead of the one it took.
Newest(r) == lines[r]

\* The line of which the handler of r is at, once it has been taken.
InHand(r) == lines[r] - (IF tail[r] = "offering" THEN 1 ELSE 0)

\* Some stop of the reader has been answered.
Answered(r) == \E q \in Request : stops[q] = r /\ handler[q] = "done"

\* Mutant: the handler returns after a line.
ReturnAfterLine == "done"

NextOfReader == "reading"

SendLine(r) ==
    /\ handler[r] = "holding"
    /\ Write(via[r], [code |-> LogCode, to |-> r, ok |-> TRUE, result |-> InHand(r)])
    /\ handler' = [handler EXCEPT ![r] = NextOfReader]
    /\ late' = IF Answered(r) THEN [late EXCEPT ![r] = @ + 1] ELSE late
    /\ UNCHANGED <<via, say, stops, tailVars>>

\* The channel of the reader was closed.
ReadEnds(r) ==
    /\ handler[r] = "reading" /\ tail[r] = "dead"
    /\ handler' = [handler EXCEPT ![r] = "done"]
    /\ UNCHANGED <<wsVars, modalVars, hubVars, via, say, stops, tailVars, late>>

\* StopReadServiceLog: with no reader it says so, and then says success too.
StopRead(r) ==
    /\ handler[r] = "begun" /\ about[r] = "stop"
    /\ IF hpcloudMap = NoRequest
       THEN /\ handler' = [handler EXCEPT ![r] = "answering"]
            /\ say' = [say EXCEPT ![r] = <<FALSE, TRUE>>]
            /\ UNCHANGED <<killed, stops>>
       ELSE /\ killed' = [killed EXCEPT ![hpcloudMap] = TRUE]
            /\ handler' = [handler EXCEPT ![r] = "stopping"]
            /\ stops' = [stops EXCEPT ![r] = hpcloudMap]
            /\ UNCHANGED say
    /\ UNCHANGED <<wsVars, modalVars, hubVars, via, hpcloudMap, tail, lines, late>>

\* Mutant: Stop does not wait.
StopReturns(t) == TRUE

\* tail.Stop waits for the reader's goroutine to be dead.
TailStopped(t) == tail[t] = "dead"

StopWaits(r) ==
    /\ handler[r] = "stopping"
    /\ TailStopped(stops[r])
    /\ handler' = [handler EXCEPT ![r] = "answering"]
    /\ say' = [say EXCEPT ![r] = <<TRUE>>]
    /\ UNCHANGED <<wsVars, modalVars, hubVars, via, stops, tailVars, late>>

SendAnswer(r) ==
    /\ handler[r] = "answering"
    /\ Write(via[r], [code |-> LogCode, to |-> r, ok |-> Head(say[r]), result |-> 0])
    /\ say' = [say EXCEPT ![r] = Tail(@)]
    /\ handler' = [handler EXCEPT ![r] = IF Len(say[r]) = 1 THEN "done" ELSE @]
    /\ UNCHANGED <<via, stops, tailVars, late>>

Handler(r) ==
    \/ Refuses(r) \/ StartRead(r) \/ TakeLine(r) \/ SendLine(r) \/ ReadEnds(r)
    \/ StopRead(r) \/ StopWaits(r) \/ SendAnswer(r)

(***************************************************************************)
(* The methods of hpcloud have value receivers, so that each call locks a  *)
(* copy of the mutex: two handlers may be in the map at once, and if one   *)
(* of them writes the runtime may end the process.  A new process knows    *)
(* nothing, and the connections are gone.                                  *)
(***************************************************************************)
MapRace ==
    /\ \E q, r \in Request : /\ q # r
                             /\ handler[q] = "begun" /\ handler[r] = "begun"
                             /\ about[q] = "start"
    /\ clients' = {}
    /\ readPump' = [s \in Socket |-> IF readPump[s] = "none" THEN "none" ELSE "ended"]
    /\ writePump' = [s \in Socket |-> IF writePump[s] = "none" THEN "none" ELSE "ended"]
    /\ handler' = [r \in Request |-> IF handler[r] = "none" THEN "none" ELSE "done"]
    /\ say' = [r \in Request |-> <<>>]
    /\ stops' = [r \in Request |-> NoRequest]
    /\ hpcloudMap' = NoRequest
    /\ tail' = [r \in Request |-> IF tail[r] = "none" THEN "none" ELSE "dead"]
    /\ UNCHANGED <<wsVars, modalVars, via, killed, lines, late>>

\* A connection opens once the server has accepted it.
SocketEvent ==
    /\ \/ \E s \in Socket : \/ onopen(s) /\ readPump[s] # "none"
                            \/ onerror(s)
                            \/ onclose(s)
       \/ reconnect
       \/ NewSocket
    /\ UNCHANGED <<modalVars, serverVars>>

Next ==
    \/ OpenModal \/ ClickButton \/ Cancel
    \/ \E s \in Socket : Message(s) \/ Handle(s) \/ ReadFails(s) \/ Ping(s)
    \/ \E s \in Socket, r \in Request : ReadMessage(s, r)
    \/ \E r \in Request : Handler(r) \/ TailOffers(r) \/ TailDies(r)
    \/ MapRace
    \/ SocketEvent

(***************************************************************************)
(* Goroutines run: a connection's two, each handler, each reader of a      *)
(* file.  A read on a connection that has ended fails by its deadline at   *)
(* the latest, the ticker ticks, and the browser delivers what has come    *)
(* and hears of a connection that the server closed.  No log has to have   *)
(* lines, no connection has to break and nobody has to act.                *)
(***************************************************************************)
ReadPump(s) ==
    \/ \E r \in Request : ReadMessage(s, r)
    \/ (sock[s] \in Ended \/ ClosedByServer(s)) /\ ReadFails(s)

Browser(s) ==
    \/ Message(s)
    \/ /\ ClosedByServer(s)
       /\ onerror(s) \/ onclose(s)
       /\ UNCHANGED <<modalVars, serverVars>>

Fairness ==
    /\ \A s \in Socket : WF_vars(ReadPump(s)) /\ WF_vars(Ping(s)) /\ WF_vars(Browser(s))
    /\ \A r \in Request : WF_vars(Handler(r)) /\ WF_vars(TailDies(r))

Spec == Init /\ [][Next]_vars
FairSpec == Spec /\ Fairness

-----------------------------------------------------------------------------
TypeOK ==
    /\ WsTypeOK
    /\ isModalOpen \in BOOLEAN /\ loading \in BOOLEAN /\ successCallback \in BOOLEAN
    /\ data \in [Request -> Seq(1 .. MaxLines)]
    /\ about \in [Request -> {"unused", "start", "stop"}]
    /\ promise \in [Request -> {"none", "pending", "resolved", "rejected"}]
    /\ clients \subseteq Socket
    /\ readPump \in [Socket -> PumpState]
    /\ writePump \in [Socket -> PumpState]
    /\ handler \in [Request -> HandlerState]
    /\ via \in [Request -> Socket]
    /\ say \in [Request -> Seq(BOOLEAN)]
    /\ stops \in [Request -> Request \cup {NoRequest}]
    /\ hpcloudMap \in Request \cup {NoRequest}
    /\ tail \in [Request -> TailState]
    /\ killed \in [Request -> BOOLEAN]
    /\ lines \in [Request -> 0 .. MaxLines]
    /\ late \in [Request -> Nat]

(***************************************************************************)
(* The lines of a reader are shown in the order of the file and with none  *)
(* left out between two of them: from the library's goroutine through the  *)
(* handler and the writePump to the modal they are handed over one by one. *)
(***************************************************************************)
LogInOrder ==
    \A r \in Request : \A i \in 1 .. Len(data[r]) - 1 :
        data[r][i + 1] = data[r][i] + 1

(***************************************************************************)
(* After a stop has been answered, its reader's handler may still write    *)
(* the line it holds, and no more: Stop has waited for the reader to end.  *)
(***************************************************************************)
AtMostOneLate == \A r \in Request : late[r] <= 1

(***************************************************************************)
(* A stop that the server has begun comes to its end, unless its           *)
(* connection ends or the one that the lines go to does: the reader's      *)
(* goroutine, which Stop waits for, is not left with a line that nobody    *)
(* takes.  (When the lines' connection has ended, their handler waits for  *)
(* ever for a writePump that is gone, and the stop waits with it.)         *)
(***************************************************************************)
StopEnds ==
    \A r \in Request :
        (handler[r] = "stopping")
            ~> \/ handler[r] = "done"
               \/ sock[via[r]] # "open"
               \/ stops[r] # NoRequest => sock[via[stops[r]]] # "open"

(***************************************************************************)
(* A connection that has ended is forgotten by the hub, and both of its    *)
(* goroutines end, the one that waits on a channel nobody closes included. *)
(***************************************************************************)
GoneIsForgotten ==
    \A s \in Socket :
        (sock[s] \in {"failed", "lost"})
            ~> (s \notin clients /\ readPump[s] # "running" /\ writePump[s] # "running")
=============================================================================
