------------------------------ MODULE DeviceAck ------------------------------
(***************************************************************************)
(* deviceapp/deviceaction.go, messagestore and the response cases of       *)
(* persistence/thinkmodel.go: a command to a device.  The caller sends the *)
(* command to the driver by RPC and waits on a channel it has registered   *)
(* under the message id; the driver answers later, by an RPC of its own,   *)
(* whose goroutine looks the channel up, sends the answer, closes the      *)
(* channel and forgets the id.  Answers come early, late, twice or never.  *)
(***************************************************************************)
EXTENDS Naturals

CONSTANTS
  Calls,      \* message ids: each a new UUID, so one call's
  Reporters,  \* the goroutines that serve the driver's reports
  SendsFirst, \* the calls made by DeviceAction, which registers after it has sent
  MaxReports  \* bound: how often the driver reports the answer of a call

ASSUME AckAssumption == SendsFirst \subseteq Calls /\ MaxReports \in Nat

Nobody == "nobody"
ASSUME NobodyAssumption == Nobody \notin Reporters

VARIABLES
  call,     \* where each call is, or how it has returned
  chan,     \* its MsgAckChan
  mu,       \* MsgAckChan.Mu: the reporter that holds it across a step, or Nobody
  ackMap,   \* MessageStore.ackMap: the ids in it
  got,      \* the driver has received the command
  reports,  \* how many times it has reported the answer
  rep,      \* where each reporter is, and with which call
  panicked  \* a goroutine has sent on a closed channel or closed it again

vars == <<call, chan, mu, ackMap, got, reports, rep, panicked>>

Returned == {"answered", "timedOut", "failed"}

\* The states a MsgAckChan has between its critical sections.
NoChan == [made |-> FALSE, closed |-> FALSE, data |-> 0]
Chans == {ch \in [made : BOOLEAN, closed : BOOLEAN, data : {0, 1}] :
            (ch.data = 1 => ch.closed) /\ (ch.closed => ch.made)}

Free == [at |-> "free", call |-> Nobody]

CallSteps == {"idle", "make", "issue", "issued", "wait", "giveUp", "abort"} \cup Returned
ReportSteps == {"lock", "check", "send", "unlock", "delete"}

TypeOK ==
  /\ call \in [Calls -> CallSteps]
  /\ chan \in [Calls -> Chans]
  /\ mu \in [Calls -> Reporters \cup {Nobody}]
  /\ ackMap \subseteq Calls
  /\ got \subseteq Calls
  /\ reports \in [Calls -> 0..MaxReports]
  /\ rep \in [Reporters -> [at : ReportSteps, call : Calls] \cup {Free}]
  /\ panicked \in BOOLEAN

\* Mutants: Mu is ignored; the channel stays open; it has no buffer.
Unguarded(c) == TRUE
SendOnly(c) == chan' = [chan EXCEPT ![c].data = 1]
Rendezvous(c) == call[c] = "wait"

\* Mu is free; the flag IsClosed; DataChan <- data, close; the buffer of one.
Unlocked(c) == mu[c] = Nobody
Open(c) == ~chan[c].closed
SendAndClose(c) == chan' = [chan EXCEPT ![c].data = 1, ![c].closed = TRUE]
HasRoom(c) == chan[c].data = 0

GoTo(c, to) == call' = [call EXCEPT ![c] = to]

(***************************************************************************)
(* The caller                                                              *)
(***************************************************************************)

\* Mutant: every caller does as DeviceAction.
IssueFirst(c) == "issue"

FirstStep(c) == IF c \in SendsFirst THEN "issue" ELSE "make"

\* The driver runs: GetState is started.  Otherwise the call returns at once.
Begin(c) ==
  /\ call[c] = "idle"
  /\ GoTo(c, FirstStep(c))
  /\ UNCHANGED <<chan, mu, ackMap, got, reports, rep, panicked>>

GenAckChan(c) ==
  /\ call[c] = "make"
  /\ chan' = [chan EXCEPT ![c].made = TRUE]
  /\ ackMap' = ackMap \cup {c}
  /\ GoTo(c, IF c \in SendsFirst THEN "wait" ELSE "issue")
  /\ UNCHANGED <<mu, got, reports, rep, panicked>>

\* ThingModelMsgIssue reaches the driver, and returns.
Issue(c) ==
  /\ call[c] = "issue"
  /\ got' = got \cup {c}
  /\ GoTo(c, "issued")
  /\ UNCHANGED <<chan, mu, ackMap, reports, rep, panicked>>

IssueReturns(c) ==
  /\ call[c] = "issued"
  /\ GoTo(c, IF c \in SendsFirst THEN "make" ELSE "wait")
  /\ UNCHANGED <<chan, mu, ackMap, got, reports, rep, panicked>>

\* It fails before or after it has reached the driver; a channel is closed.
IssueFails(c) ==
  /\ call[c] \in {"issue", "issued"}
  /\ GoTo(c, IF c \in SendsFirst THEN "failed" ELSE "abort")
  /\ UNCHANGED <<chan, mu, ackMap, got, reports, rep, panicked>>

\* <-ch.DataChan, the answer.
Receive(c) ==
  /\ call[c] = "wait"
  /\ chan[c].data = 1
  /\ chan' = [chan EXCEPT ![c].data = 0]
  /\ GoTo(c, "answered")
  /\ UNCHANGED <<mu, ackMap, got, reports, rep, panicked>>

\* <-ctx.Done(): the deadline of the RPC's context covers the wait too.  The channel
\* stays open and registered.
Deadline(c) ==
  /\ call[c] = "wait"
  /\ GoTo(c, "timedOut")
  /\ UNCHANGED <<chan, mu, ackMap, got, reports, rep, panicked>>

\* <-time.After: the same wait, but TryCloseChan follows.
After(c) ==
  /\ call[c] = "wait"
  /\ GoTo(c, "giveUp")
  /\ UNCHANGED <<chan, mu, ackMap, got, reports, rep, panicked>>

TryCloseChan(c) ==
  /\ call[c] \in {"giveUp", "abort"}
  /\ Unlocked(c)
  /\ chan' = [chan EXCEPT ![c].closed = TRUE]
  /\ GoTo(c, IF call[c] = "giveUp" THEN "timedOut" ELSE "failed")
  /\ UNCHANGED <<mu, ackMap, got, reports, rep, panicked>>

(***************************************************************************)
(* A report of the driver                                                  *)
(***************************************************************************)
Go(r, to) == rep' = [rep EXCEPT ![r].at = to]

\* LoadMsgChan; an id that is not there ends the report.
LoadMsgChan(r, c) ==
  /\ rep[r] = Free
  /\ c \in got
  /\ reports[c] < MaxReports
  /\ reports' = [reports EXCEPT ![c] = @ + 1]
  /\ rep' = IF c \in ackMap THEN [rep EXCEPT ![r] = [at |-> "lock", call |-> c]] ELSE rep
  /\ UNCHANGED <<call, chan, mu, ackMap, got, panicked>>

Lock(r) ==
  LET c == rep[r].call
  IN /\ rep[r].at = "lock"
     /\ Unlocked(c)
     /\ mu' = [mu EXCEPT ![c] = r]
     /\ Go(r, "check")
     /\ UNCHANGED <<call, chan, ackMap, got, reports, panicked>>

\* The flag is read, and if it is false the answer is sent, the channel closed and the
\* flag set: all under Mu.
CheckOpen(r) ==
  /\ rep[r].at = "check"
  /\ Go(r, IF Open(rep[r].call) THEN "send" ELSE "unlock")
  /\ UNCHANGED <<call, chan, mu, ackMap, got, reports, panicked>>

TrySend(r) ==
  LET c == rep[r].call
  IN /\ rep[r].at = "send"
     /\ HasRoom(c)
     /\ SendAndClose(c)
     /\ panicked' = (panicked \/ chan[c].closed)
     /\ Go(r, "unlock")
     /\ UNCHANGED <<call, mu, ackMap, got, reports>>

UnlockMu(r) ==
  /\ rep[r].at = "unlock"
  /\ mu' = [mu EXCEPT ![rep[r].call] = Nobody]
  /\ Go(r, "delete")
  /\ UNCHANGED <<call, chan, ackMap, got, reports, panicked>>

\* Mutant: the id is kept.
KeepMsgId(c) == UNCHANGED ackMap

DeleteMsgId(c) == ackMap' = ackMap \ {c}

ReportDone(r) ==
  /\ rep[r].at = "delete"
  /\ DeleteMsgId(rep[r].call)
  /\ rep' = [rep EXCEPT ![r] = Free]
  /\ UNCHANGED <<call, chan, mu, got, reports, panicked>>

(***************************************************************************)
(* Specification                                                           *)
(***************************************************************************)
Init ==
  /\ call = [c \in Calls |-> "idle"]
  /\ chan = [c \in Calls |-> NoChan]
  /\ mu = [c \in Calls |-> Nobody]
  /\ ackMap = {}
  /\ got = {}
  /\ reports = [c \in Calls |-> 0]
  /\ rep = [r \in Reporters |-> Free]
  /\ panicked = FALSE

Caller(c) ==
  \/ Begin(c) \/ GenAckChan(c) \/ Issue(c) \/ IssueReturns(c) \/ IssueFails(c)
  \/ Receive(c) \/ Deadline(c) \/ After(c) \/ TryCloseChan(c)

Handling(r) == CheckOpen(r) \/ TrySend(r) \/ UnlockMu(r) \/ ReportDone(r)
Reporter(r) == (\E c \in Calls : LoadMsgChan(r, c)) \/ Lock(r) \/ Handling(r)

Next == (\E c \in Calls : Caller(c)) \/ (\E r \in Reporters : Reporter(r))

Spec == Init /\ [][Next]_vars

\* RPCs and waits have deadlines and goroutines run on; the driver need not answer.
Fairness ==
  /\ \A c \in Calls :
       /\ WF_vars(GenAckChan(c) \/ Issue(c) \/ IssueReturns(c) \/ Deadline(c))
       /\ SF_vars(TryCloseChan(c))
  /\ \A r \in Reporters : SF_vars(Lock(r)) /\ WF_vars(Handling(r))

FairSpec == Spec /\ Fairness

(***************************************************************************)
(* Properties                                                              *)
(***************************************************************************)

\* Whatever meets, the caller's TryCloseChan, the answer and its repetition, nobody
\* sends on a closed channel: Mu, of which each takes hold, keeps the flag and the
\* channel together.  In a report's goroutine that would end the process.
NoPanic == ~panicked

\* Calls that wait and reports that hold the channel's mutex never keep each other:
\* all come to an end (the buffer of DataChan, GenAckChan).
EveryoneReturns ==
  /\ \A c \in Calls : call[c] # "idle" ~> call[c] \in Returned
  /\ \A r \in Reporters : rep[r] # Free ~> rep[r] = Free

\* An id that is still registered when its call has returned is one nobody has
\* answered, or whose answer is just being handled: the map holds nothing else.
LeaksAreUnanswered ==
  \A c \in ackMap :
    call[c] \in Returned =>
      \/ call[c] # "answered" /\ chan[c].data = 0
      \/ \E r \in Reporters : rep[r].call = c

\* A report of c's answer comes late, or is a repetition.
Late(c) == call[c] \in Returned \/ chan[c].closed

\* "It has timed out" (thinkmodel.go:124 and 140): if a report's id is unknown, it is
\* late.  So it is for the calls that register before they send (SetDeviceProperty,
\* DeviceEffectivePropertyData, DeviceInvokeThingService), however reports race with
\* the end of the call.
UnknownIsLate ==
  [][\A r \in Reporters, c \in Calls \ SendsFirst :
       LoadMsgChan(r, c) /\ c \notin ackMap => Late(c)]_vars

\* The place of c's answer, and how c has ended, as AnswerBox sees them.
Box(c) ==
  IF chan[c].data = 1 THEN "full"
  ELSE IF call[c] = "answered" THEN "taken"
  ELSE IF chan[c].closed THEN "shut" ELSE "empty"
Outcome(c) ==
  IF call[c] = "answered" THEN "answer"
  ELSE IF call[c] \in Returned THEN "none" ELSE "pending"

\* What a call to a device promises (AnswerBox): however answers, repetitions of them and
\* deadlines meet, the answer is put once, only after the driver was asked and not after
\* the call has closed its channel, and it is taken once or not at all.
AB == INSTANCE AnswerBox WITH
  Call <- Calls, asked <- got,
  box <- [c \in Calls |-> Box(c)], outcome <- [c \in Calls |-> Outcome(c)]
AnswerBoxSpec == AB!Spec
=============================================================================
