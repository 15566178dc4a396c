--------------------------- MODULE DeviceAckProofs ---------------------------
(***************************************************************************)
(* Proofs about DeviceAck: types, that nobody sends on a closed channel,   *)
(* what is left in the map of acknowledgements, which reports find their   *)
(* id unknown, and that calls to devices implement AnswerBox, for any      *)
(* number of calls and reports.                                            *)
(***************************************************************************)
EXTENDS DeviceAck, TLAPS

(***************************************************************************)
(* Types                                                                   *)
(***************************************************************************)

\* A call has no channel before it makes one, and a report only has to do with calls
\* that have one.
ChannelMade ==
  /\ \A c \in Calls :
       /\ call[c] \in {"idle", "make"} => ~chan[c].made
       /\ c \in SendsFirst /\ call[c] \in {"issue", "issued"} => ~chan[c].made
       /\ c \notin SendsFirst /\ call[c] \in {"issue", "issued"} => chan[c].made
       /\ call[c] \in {"wait", "giveUp", "abort"} => chan[c].made
       /\ c \in ackMap => chan[c].made
  /\ \A r \in Reporters : rep[r] # Free => chan[rep[r].call].made

TypeInv == TypeOK /\ ChannelMade

LEMMA ChanFields ==
  ASSUME NEW ch \in Chans
  PROVE  /\ ch.made \in BOOLEAN /\ ch.closed \in BOOLEAN /\ ch.data \in {0, 1}
         /\ ~ch.made => ch = NoChan
         /\ ch.data = 1 => ch.made /\ ch.closed
BY DEF Chans, NoChan

\* What each use of a channel makes of it.
LEMMA ChanMade   == ASSUME NEW ch \in Chans PROVE [ch EXCEPT !.made = TRUE] \in Chans
BY DEF Chans, NoChan
LEMMA ChanClosed == ASSUME NEW ch \in Chans, ch.made PROVE [ch EXCEPT !.closed = TRUE] \in Chans
BY DEF Chans, NoChan
LEMMA ChanSent   ==
  ASSUME NEW ch \in Chans, ch.made
  PROVE  [ch EXCEPT !.data = 1, !.closed = TRUE] \in Chans
BY DEF Chans, NoChan
LEMMA ChanRead   == ASSUME NEW ch \in Chans PROVE [ch EXCEPT !.data = 0] \in Chans
BY DEF Chans, NoChan

LEMMA Names ==
  /\ {"idle", "make", "issue", "issued", "wait", "giveUp", "abort"} \subseteq CallSteps
  /\ Returned \subseteq CallSteps /\ {"answered", "timedOut", "failed"} = Returned
BY DEF CallSteps, Returned

LEMMA TypeInit == Init => TypeInv
<1> SUFFICES ASSUME Init PROVE TypeInv
  OBVIOUS
<1>1. chan \in [Calls -> Chans]
  BY DEF Init, Chans, NoChan
<1>2. call \in [Calls -> CallSteps] /\ mu \in [Calls -> Reporters \cup {Nobody}]
  BY Names DEF Init
<1>3. reports \in [Calls -> 0..MaxReports]
  BY AckAssumption DEF Init
<1>4. ChannelMade
  BY DEF Init, ChannelMade, NoChan
<1> QED BY <1>1, <1>2, <1>3, <1>4 DEF Init, TypeInv, TypeOK

\* A step of a call changes nothing but its own place, and perhaps its channel, which
\* stays made once it is.
LEMMA CallerTypes ==
  ASSUME TypeInv, NEW c \in Calls, Caller(c)
  PROVE  TypeInv'
<1>0. chan[c] \in Chans /\ call \in [Calls -> CallSteps]
  BY DEF TypeInv, TypeOK
<1>1. CASE Begin(c)
  <2>1. call' \in [Calls -> CallSteps]
    BY <1>0, <1>1, Names DEF Begin, GoTo, FirstStep
  <2>2. ChannelMade'
    BY <1>0, <1>1 DEF Begin, GoTo, FirstStep, TypeInv, ChannelMade
  <2> QED BY <1>1, <2>1, <2>2 DEF Begin, TypeInv, TypeOK
<1>2. CASE GenAckChan(c)
  <2>1. call' \in [Calls -> CallSteps]
    BY <1>0, <1>2, Names DEF GenAckChan, GoTo
  <2>2. chan' \in [Calls -> Chans]
    BY <1>0, <1>2, ChanMade DEF GenAckChan, TypeInv, TypeOK
  <2>3. chan'[c].made /\ \A d \in Calls : d # c => chan'[d] = chan[d]
    BY <1>0, <1>2, ChanFields DEF GenAckChan, TypeInv, TypeOK, NoChan, Chans
  <2>4. ChannelMade'
    BY <1>0, <1>2, <2>3 DEF GenAckChan, GoTo, TypeInv, TypeOK, ChannelMade, Free
  <2> QED BY <1>2, <2>1, <2>2, <2>4 DEF GenAckChan, TypeInv, TypeOK
<1>3. CASE Issue(c) \/ IssueReturns(c) \/ IssueFails(c) \/ Deadline(c) \/ After(c)
  <2>1. call' \in [Calls -> CallSteps]
    BY <1>0, <1>3, Names DEF Issue, IssueReturns, IssueFails, Deadline, After, GoTo
  <2>2. ChannelMade'
    BY <1>0, <1>3 DEF Issue, IssueReturns, IssueFails, Deadline, After, GoTo, TypeInv, ChannelMade
  <2> QED BY <1>3, <2>1, <2>2 DEF Issue, IssueReturns, IssueFails, Deadline, After, TypeInv, TypeOK
<1>4. CASE Receive(c)
  <2>1. call' \in [Calls -> CallSteps]
    BY <1>0, <1>4, Names DEF Receive, GoTo
  <2>2. chan' \in [Calls -> Chans]
    BY <1>0, <1>4, ChanRead DEF Receive, TypeInv, TypeOK
  <2>3. \A d \in Calls : chan'[d].made = chan[d].made
    BY <1>0, <1>4 DEF Receive, TypeInv, TypeOK, Chans, NoChan
  <2>4. ChannelMade'
    BY <1>0, <1>4, <2>3 DEF Receive, GoTo, TypeInv, TypeOK, ChannelMade, Free
  <2> QED BY <1>4, <2>1, <2>2, <2>4 DEF Receive, TypeInv, TypeOK
<1>5. CASE TryCloseChan(c)
  <2>1. call' \in [Calls -> CallSteps]
    BY <1>0, <1>5, Names DEF TryCloseChan, GoTo
  <2>2. chan' \in [Calls -> Chans]
    BY <1>0, <1>5, ChanClosed DEF TryCloseChan, TypeInv, TypeOK, ChannelMade
  <2>3. \A d \in Calls : chan'[d].made = chan[d].made
    BY <1>0, <1>5 DEF TryCloseChan, TypeInv, TypeOK, Chans, NoChan
  <2>4. ChannelMade'
    BY <1>0, <1>5, <2>3 DEF TryCloseChan, GoTo, TypeInv, TypeOK, ChannelMade, Free
  <2> QED BY <1>5, <2>1, <2>2, <2>4 DEF TryCloseChan, TypeInv, TypeOK
<1> QED BY <1>1, <1>2, <1>3, <1>4, <1>5 DEF Caller

\* The call of a report that is not free.
LEMMA ReportFacts ==
  ASSUME TypeInv, NEW r \in Reporters, rep[r].at \in ReportSteps
  PROVE  rep[r] \in [at : ReportSteps, call : Calls] /\ rep[r] # Free /\ rep[r].call \in Calls
BY DEF TypeInv, TypeOK, Free, ReportSteps

LEMMA GoTypes ==
  ASSUME TypeInv, NEW r \in Reporters, rep[r].at \in ReportSteps,
         NEW to \in ReportSteps, Go(r, to)
  PROVE  /\ rep' \in [Reporters -> [at : ReportSteps, call : Calls] \cup {Free}]
         /\ rep'[r] = [rep[r] EXCEPT !.at = to]
         /\ rep'[r].call = rep[r].call /\ rep'[r].at = to
         /\ \A q \in Reporters : q # r => rep'[q] = rep[q]
         /\ \A q \in Reporters : rep'[q] # Free => rep[q] # Free /\ rep'[q].call = rep[q].call
<1>1. rep[r] \in [at : ReportSteps, call : Calls] /\ rep[r] # Free
  BY ReportFacts
<1>2. rep'[r] = [rep[r] EXCEPT !.at = to] /\ \A q \in Reporters : q # r => rep'[q] = rep[q]
  BY DEF Go, TypeInv, TypeOK
<1>3. [rep[r] EXCEPT !.at = to] \in [at : ReportSteps, call : Calls]
  BY <1>1
<1>4. rep'[r].call = rep[r].call /\ rep'[r].at = to
  BY <1>1, <1>2
<1>5. rep' \in [Reporters -> [at : ReportSteps, call : Calls] \cup {Free}]
  BY <1>3 DEF Go, TypeInv, TypeOK
<1> QED BY <1>1, <1>2, <1>4, <1>5

LEMMA ReporterTypes ==
  ASSUME TypeInv, NEW r \in Reporters, Reporter(r)
  PROVE  TypeInv'
<1>1. ASSUME NEW c \in Calls, LoadMsgChan(r, c) PROVE TypeInv'
  <2>1. reports' \in [Calls -> 0..MaxReports]
    BY <1>1, AckAssumption DEF LoadMsgChan, TypeInv, TypeOK
  <2>2. rep' \in [Reporters -> [at : ReportSteps, call : Calls] \cup {Free}]
    BY <1>1 DEF LoadMsgChan, TypeInv, TypeOK, ReportSteps
  <2>3. ChannelMade'
    BY <1>1 DEF LoadMsgChan, TypeInv, TypeOK, ChannelMade
  <2> QED BY <1>1, <2>1, <2>2, <2>3 DEF LoadMsgChan, TypeInv, TypeOK
<1>2. CASE Lock(r)
  <2> rep[r].call \in Calls
    BY <1>2, ReportFacts DEF Lock, ReportSteps
  <2>1. ChannelMade'
    BY <1>2, GoTypes DEF Lock, TypeInv, ChannelMade, ReportSteps
  <2> QED BY <1>2, <2>1, GoTypes DEF Lock, TypeInv, TypeOK, ReportSteps
<1>3. CASE CheckOpen(r)
  <2>1. ChannelMade'
    BY <1>3, GoTypes DEF CheckOpen, TypeInv, ChannelMade, ReportSteps
  <2> QED BY <1>3, <2>1, GoTypes DEF CheckOpen, TypeInv, TypeOK, ReportSteps
<1>4. CASE TrySend(r)
  <2> DEFINE c == rep[r].call
  <2>1. c \in Calls /\ chan[c].made /\ chan[c] \in Chans
    BY <1>4, ReportFacts DEF TrySend, ReportSteps, TypeInv, TypeOK, ChannelMade
  <2>2. chan' \in [Calls -> Chans]
    BY <1>4, <2>1, ChanSent DEF TrySend, SendAndClose, TypeInv, TypeOK
  <2>3. \A d \in Calls : chan'[d].made = chan[d].made
    BY <1>4, <2>1 DEF TrySend, SendAndClose, TypeInv, TypeOK, Chans, NoChan
  <2>4. \A q \in Reporters : rep[q] # Free => rep[q].call \in Calls
    BY DEF TypeInv, TypeOK
  <2>5. ChannelMade'
    BY <1>4, <2>3, <2>4, GoTypes DEF TrySend, TypeInv, TypeOK, ChannelMade, ReportSteps
  <2>6. panicked' \in BOOLEAN
    BY <1>4 DEF TrySend
  <2> QED BY <1>4, <2>2, <2>5, <2>6, GoTypes DEF TrySend, TypeInv, TypeOK, ReportSteps
<1>5. CASE UnlockMu(r)
  <2>1. ChannelMade'
    BY <1>5, GoTypes DEF UnlockMu, TypeInv, ChannelMade, ReportSteps
  <2> QED BY <1>5, <2>1, GoTypes DEF UnlockMu, TypeInv, TypeOK, ReportSteps
<1>6. CASE ReportDone(r)
  <2>1. ChannelMade'
    BY <1>6 DEF ReportDone, DeleteMsgId, TypeInv, TypeOK, ChannelMade
  <2> QED BY <1>6, <2>1 DEF ReportDone, DeleteMsgId, TypeInv, TypeOK
<1> QED BY <1>1, <1>2, <1>3, <1>4, <1>5, <1>6 DEF Reporter, Handling

LEMMA TypeStep == TypeInv /\ [Next]_vars => TypeInv'
<1> SUFFICES ASSUME TypeInv, [Next]_vars PROVE TypeInv'
  OBVIOUS
<1>1. CASE UNCHANGED vars
  BY <1>1 DEF vars, TypeInv, TypeOK, ChannelMade
<1> QED BY <1>1, CallerTypes, ReporterTypes DEF Next

\* Types, for any calls and reporters.
THEOREM TypeCorrect == Spec => []TypeOK
<1>1. TypeInv => TypeOK
  BY DEF TypeInv
<1> QED BY <1>1, TypeInit, TypeStep, PTL DEF Spec

(***************************************************************************)
(* Nobody sends on a closed channel                                        *)
(***************************************************************************)

\* NoPanic needs that a report between Lock and Unlock holds the mutex of its call,
\* and that the channel it has found open stays open until it has sent: whoever
\* would close it, TryCloseChan or another report, needs that mutex.
MutexInv ==
  /\ TypeInv
  /\ NoPanic
  /\ \A r \in Reporters :
       /\ rep[r].at \in {"check", "send", "unlock"} => mu[rep[r].call] = r
       /\ rep[r].at = "send" => ~chan[rep[r].call].closed

LEMMA FreeIsFree == Free.at = "free"
BY DEF Free

LEMMA MutexCaller ==
  ASSUME MutexInv, NEW c \in Calls, Caller(c)
  PROVE  MutexInv'
<1>1. TypeInv'
  BY CallerTypes DEF MutexInv
<1>2. UNCHANGED <<rep, mu, panicked>>
  BY DEF Caller, Begin, GenAckChan, Issue, IssueReturns, IssueFails, Receive, Deadline, After,
    TryCloseChan
<1>3. ASSUME NEW r \in Reporters, rep[r].at = "send" PROVE ~chan'[rep[r].call].closed
  <2> DEFINE d == rep[r].call
  <2>1. d \in Calls /\ mu[d] = r /\ ~chan[d].closed /\ r # Nobody
    BY <1>3, ReportFacts, NobodyAssumption DEF MutexInv, ReportSteps
  <2>2. \A e \in Calls : chan[e] \in [made : BOOLEAN, closed : BOOLEAN, data : {0, 1}]
    BY DEF MutexInv, TypeInv, TypeOK, Chans
  <2>3. CASE TryCloseChan(c)
    BY <2>1, <2>2, <2>3 DEF TryCloseChan, Unlocked, MutexInv, TypeInv, TypeOK
  <2>4. CASE GenAckChan(c) \/ Receive(c)
    BY <2>1, <2>2, <2>4 DEF GenAckChan, Receive, MutexInv, TypeInv, TypeOK
  <2>5. CASE Begin(c) \/ Issue(c) \/ IssueReturns(c) \/ IssueFails(c) \/ Deadline(c) \/ After(c)
    BY <2>1, <2>5 DEF Begin, Issue, IssueReturns, IssueFails, Deadline, After
  <2> QED BY <2>3, <2>4, <2>5 DEF Caller
<1> QED BY <1>1, <1>2, <1>3 DEF MutexInv, NoPanic

LEMMA MutexReporter ==
  ASSUME MutexInv, NEW r \in Reporters, Reporter(r)
  PROVE  MutexInv'
<1> TypeInv
  BY DEF MutexInv
<1>0. TypeInv'
  BY ReporterTypes
<1> DEFINE c == rep[r].call
<1>1. ASSUME NEW d \in Calls, LoadMsgChan(r, d) PROVE MutexInv'
  <2>1. \A q \in Reporters : rep'[q].at \in {"check", "send", "unlock"} => rep'[q] = rep[q]
    BY <1>1, FreeIsFree DEF LoadMsgChan, TypeInv, TypeOK
  <2> QED BY <1>0, <1>1, <2>1 DEF LoadMsgChan, MutexInv, NoPanic
<1>2. CASE Lock(r)
  <2>1. c \in Calls /\ mu[c] = Nobody /\ mu'[c] = r /\ \A d \in Calls : d # c => mu'[d] = mu[d]
    BY <1>2, ReportFacts DEF Lock, Unlocked, TypeInv, TypeOK, ReportSteps
  <2>2. \A q \in Reporters : rep[q].at \in {"check", "send", "unlock"} => rep[q].call \in Calls \ {c}
    BY <2>1, ReportFacts, NobodyAssumption DEF MutexInv, ReportSteps
  <2>3. rep'[r].at = "check" /\ rep'[r].call = c /\ \A q \in Reporters : q # r => rep'[q] = rep[q]
    BY <1>2, GoTypes DEF Lock, ReportSteps
  <2> QED BY <1>0, <1>2, <2>1, <2>2, <2>3 DEF Lock, MutexInv, NoPanic
<1>3. CASE CheckOpen(r)
  <2>1. /\ rep'[r].at \in {"send", "unlock"} /\ rep'[r].call = c
        /\ rep'[r].at = "send" => ~chan[c].closed
        /\ \A q \in Reporters : q # r => rep'[q] = rep[q]
    BY <1>3, GoTypes DEF CheckOpen, Open, ReportSteps
  <2> QED BY <1>0, <1>3, <2>1 DEF CheckOpen, MutexInv, NoPanic
<1>4. CASE TrySend(r)
  <2>1. c \in Calls /\ mu[c] = r /\ ~chan[c].closed
    BY <1>4, ReportFacts DEF TrySend, MutexInv, ReportSteps
  <2>2. \A q \in Reporters : q # r /\ rep[q].at = "send" => rep[q].call \in Calls \ {c}
    BY <2>1, ReportFacts DEF MutexInv, ReportSteps
  <2>3. \A d \in Calls \ {c} : chan'[d] = chan[d]
    BY <1>4, <2>1 DEF TrySend, SendAndClose, TypeInv, TypeOK
  <2>4. rep'[r].at = "unlock" /\ rep'[r].call = c /\ \A q \in Reporters : q # r => rep'[q] = rep[q]
    BY <1>4, GoTypes DEF TrySend, ReportSteps
  <2>5. NoPanic'
    BY <1>4, <2>1 DEF TrySend, MutexInv, NoPanic
  <2> QED BY <1>0, <1>4, <2>1, <2>2, <2>3, <2>4, <2>5 DEF TrySend, MutexInv
<1>5. CASE UnlockMu(r)
  <2>1. c \in Calls /\ mu[c] = r /\ \A d \in Calls : d # c => mu'[d] = mu[d]
    BY <1>5, ReportFacts DEF UnlockMu, MutexInv, TypeInv, TypeOK, ReportSteps
  <2>2. \A q \in Reporters :
          q # r /\ rep[q].at \in {"check", "send", "unlock"} => rep[q].call \in Calls \ {c}
    BY <2>1, ReportFacts DEF MutexInv, ReportSteps
  <2>3. rep'[r].at = "delete" /\ \A q \in Reporters : q # r => rep'[q] = rep[q]
    BY <1>5, GoTypes DEF UnlockMu, ReportSteps
  <2> QED BY <1>0, <1>5, <2>1, <2>2, <2>3 DEF UnlockMu, MutexInv, NoPanic
<1>6. CASE ReportDone(r)
  <2>1. rep'[r] = Free /\ \A q \in Reporters : q # r => rep'[q] = rep[q]
    BY <1>6 DEF ReportDone, TypeInv, TypeOK
  <2> QED BY <1>0, <1>6, <2>1, FreeIsFree DEF ReportDone, MutexInv, NoPanic
<1> QED BY <1>1, <1>2, <1>3, <1>4, <1>5, <1>6 DEF Reporter, Handling

LEMMA MutexInit == Init => MutexInv
BY TypeInit, FreeIsFree DEF Init, MutexInv, NoPanic

LEMMA MutexStep == MutexInv /\ [Next]_vars => MutexInv'
<1> SUFFICES ASSUME MutexInv, [Next]_vars PROVE MutexInv'
  OBVIOUS
<1>1. CASE UNCHANGED vars
  BY <1>1, TypeStep DEF vars, MutexInv, NoPanic
<1> QED BY <1>1, MutexCaller, MutexReporter DEF Next

\* However calls, their timeouts, answers and repetitions of them meet: nobody sends
\* on a closed channel.
THEOREM NeverPanics == Spec => []NoPanic
<1>1. MutexInv => NoPanic
  BY DEF MutexInv
<1> QED BY <1>1, MutexInit, MutexStep, PTL DEF Spec

(***************************************************************************)
(* What is left in the map                                                 *)
(***************************************************************************)

\* LeaksAreUnanswered needs the moment before the call returns too: the answer may be
\* in the buffer, and then the report that put it there has not yet deleted the id.
Handled(c) == \E r \in Reporters : rep[r].at \in ReportSteps /\ rep[r].call = c

LeakInv ==
  /\ TypeInv
  /\ \A c \in ackMap : call[c] = "answered" \/ chan[c].data = 1 => Handled(c)

LEMMA LeakCaller ==
  ASSUME LeakInv, NEW c \in Calls, Caller(c)
  PROVE  LeakInv'
<1>1. TypeInv'
  BY CallerTypes DEF LeakInv
<1>2. rep' = rep
  BY DEF Caller, Begin, GenAckChan, Issue, IssueReturns, IssueFails, Receive, Deadline, After,
    TryCloseChan
<1>3. call \in [Calls -> CallSteps] /\ chan \in [Calls -> Chans] /\ ackMap \subseteq Calls
  BY DEF LeakInv, TypeInv, TypeOK
<1>4. \A d \in Calls : chan[d] \in [made : BOOLEAN, closed : BOOLEAN, data : {0, 1}]
  BY <1>3 DEF Chans
<1>5. \A d \in ackMap : call[d] = "answered" \/ chan[d].data = 1 => Handled(d)
  BY DEF LeakInv
<1>6. ASSUME NEW d \in ackMap', call'[d] = "answered" \/ chan'[d].data = 1 PROVE Handled(d)
  <2>1. CASE GenAckChan(c)
    <3>1. chan[c].data = 0
      BY <2>1, <1>3, ChanFields DEF GenAckChan, LeakInv, TypeInv, ChannelMade, NoChan
    <3>2. chan'[c].data = 0 /\ call'[c] # "answered"
      BY <2>1, <3>1, <1>3, <1>4 DEF GenAckChan, GoTo
    <3>3. d # c /\ d \in ackMap /\ call'[d] = call[d] /\ chan'[d] = chan[d]
      BY <2>1, <3>2, <1>3, <1>6 DEF GenAckChan, GoTo
    <3> QED BY <3>3, <1>5, <1>6
  <2>2. CASE Receive(c)
    <3>1. d \in ackMap /\ (d = c => chan[d].data = 1)
      BY <2>2 DEF Receive
    <3>2. d # c => call'[d] = call[d] /\ chan'[d] = chan[d]
      BY <2>2, <3>1, <1>3 DEF Receive, GoTo
    <3> QED BY <3>1, <3>2, <1>5, <1>6
  <2>3. CASE TryCloseChan(c)
    <3>1. d \in ackMap /\ chan'[d].data = chan[d].data
      BY <2>3, <1>3, <1>4 DEF TryCloseChan
    <3>2. call'[d] = "answered" => call[d] = "answered"
      BY <2>3, <3>1, <1>3 DEF TryCloseChan, GoTo
    <3> QED BY <3>1, <3>2, <1>5, <1>6
  <2>4. CASE Begin(c) \/ Issue(c) \/ IssueReturns(c) \/ IssueFails(c) \/ Deadline(c) \/ After(c)
    <3>1. d \in ackMap /\ chan'[d] = chan[d]
      BY <2>4 DEF Begin, Issue, IssueReturns, IssueFails, Deadline, After
    <3>2. call'[d] = "answered" => call[d] = "answered"
      BY <2>4, <3>1, <1>3 DEF Begin, Issue, IssueReturns, IssueFails, Deadline, After, GoTo, FirstStep
    <3> QED BY <3>1, <3>2, <1>5, <1>6
  <2> QED BY <2>1, <2>2, <2>3, <2>4 DEF Caller
<1> QED BY <1>1, <1>2, <1>6 DEF LeakInv, Handled

LEMMA LeakReporter ==
  ASSUME LeakInv, NEW r \in Reporters, Reporter(r)
  PROVE  LeakInv'
<1> TypeInv
  BY DEF LeakInv
<1>0. TypeInv' /\ call' = call
  BY ReporterTypes DEF Reporter, Handling, LoadMsgChan, Lock, CheckOpen, TrySend, UnlockMu, ReportDone
<1>1. \A d \in ackMap : call[d] = "answered" \/ chan[d].data = 1 => Handled(d)
  BY DEF LeakInv
<1>2. ASSUME NEW d \in Calls, LoadMsgChan(r, d) PROVE LeakInv'
  <2>1. \A q \in Reporters : rep[q].at \in ReportSteps => rep'[q] = rep[q]
    BY <1>2 DEF LoadMsgChan, TypeInv, TypeOK, Free, ReportSteps
  <2>2. \A e \in Calls : Handled(e) => Handled(e)'
    BY <2>1 DEF Handled
  <2> QED BY <1>0, <1>1, <1>2, <2>2 DEF LoadMsgChan, LeakInv, TypeInv, TypeOK
<1>3. CASE Lock(r) \/ CheckOpen(r) \/ UnlockMu(r)
  <2>1. /\ rep'[r].at \in ReportSteps /\ rep'[r].call = rep[r].call
        /\ \A q \in Reporters : q # r => rep'[q] = rep[q]
    BY <1>3, GoTypes DEF Lock, CheckOpen, UnlockMu, ReportSteps
  <2>2. \A e \in Calls : Handled(e) => Handled(e)'
    BY <2>1 DEF Handled
  <2> QED BY <1>0, <1>1, <1>3, <2>2 DEF Lock, CheckOpen, UnlockMu, LeakInv, TypeInv, TypeOK
<1>4. CASE TrySend(r)
  <2>1. /\ rep'[r].at \in ReportSteps /\ rep'[r].call = rep[r].call
        /\ \A q \in Reporters : q # r => rep'[q] = rep[q]
    BY <1>4, GoTypes DEF TrySend, ReportSteps
  <2>2. \A e \in Calls : Handled(e) \/ e = rep[r].call => Handled(e)'
    BY <2>1 DEF Handled
  <2>3. \A e \in Calls \ {rep[r].call} : chan'[e] = chan[e]
    BY <1>4 DEF TrySend, SendAndClose, TypeInv, TypeOK
  <2>4. \A e \in ackMap : call[e] = "answered" \/ chan'[e].data = 1 => Handled(e)'
    BY <1>1, <2>2, <2>3 DEF TypeInv, TypeOK
  <2> QED BY <1>0, <1>4, <2>4 DEF TrySend, LeakInv
<1>5. CASE ReportDone(r)
  <2>1. \A e \in ackMap' : e \in ackMap /\ e # rep[r].call
    BY <1>5 DEF ReportDone, DeleteMsgId
  <2>2. \A q \in Reporters : q # r => rep'[q] = rep[q]
    BY <1>5 DEF ReportDone, TypeInv, TypeOK
  <2>3. \A e \in ackMap' : Handled(e) => Handled(e)'
    BY <2>1, <2>2 DEF Handled
  <2> QED BY <1>0, <1>1, <1>5, <2>1, <2>3 DEF ReportDone, LeakInv
<1> QED BY <1>2, <1>3, <1>4, <1>5 DEF Reporter, Handling

\* Of the ids that stay in the map of acknowledgements once their calls have returned,
\* none has been answered.
THEOREM OnlyUnansweredLeak == Spec => []LeaksAreUnanswered
<1>1. Init => LeakInv
  BY TypeInit DEF Init, LeakInv
<1>2. LeakInv /\ [Next]_vars => LeakInv'
  <2> SUFFICES ASSUME LeakInv, [Next]_vars PROVE LeakInv'
    OBVIOUS
  <2>1. CASE UNCHANGED vars
    BY <2>1, TypeStep DEF vars, LeakInv, Handled
  <2> QED BY <2>1, LeakCaller, LeakReporter DEF Next
<1>3. LeakInv => LeaksAreUnanswered
  <2> SUFFICES ASSUME LeakInv, NEW c \in ackMap, ~Handled(c)
               PROVE  call[c] # "answered" /\ chan[c].data = 0
    BY DEF LeaksAreUnanswered, Handled
  <2> QED BY ChanFields DEF LeakInv, TypeInv, TypeOK
<1> QED BY <1>1, <1>2, <1>3, PTL DEF Spec

(***************************************************************************)
(* A report whose id is unknown is late                                    *)
(***************************************************************************)

\* UnknownIsLate needs to know where the id of a call that registers first may be: from
\* GenAckChan on it is in the map, unless a report has deleted it, and a report deletes
\* it only when the channel is closed, which it stays.
KnownInv ==
  /\ TypeInv
  /\ \A c \in Calls \ SendsFirst :
       /\ call[c] \notin {"idle", "make"} => c \in ackMap \/ Late(c)
       /\ c \in got => call[c] \notin {"idle", "make"}
  /\ \A r \in Reporters : rep[r].at \in {"unlock", "delete"} => chan[rep[r].call].closed

\* A call that has returned, or been answered, stays so: what is late stays late.
LEMMA CallerLate ==
  ASSUME TypeInv, NEW c \in Calls, Caller(c), NEW d \in Calls
  PROVE  /\ chan[d].closed => chan'[d].closed
         /\ Late(d) => Late(d)'
<1>1. call \in [Calls -> CallSteps] /\ chan \in [Calls -> Chans]
  BY DEF TypeInv, TypeOK
<1>2. chan[c] \in [made : BOOLEAN, closed : BOOLEAN, data : {0, 1}]
  BY <1>1 DEF Chans
<1>3. chan[d].closed => chan'[d].closed
  <2>1. CASE GenAckChan(c) \/ Receive(c) \/ TryCloseChan(c)
    BY <1>1, <1>2, <2>1 DEF GenAckChan, Receive, TryCloseChan
  <2>2. CASE ~(GenAckChan(c) \/ Receive(c) \/ TryCloseChan(c))
    BY <2>2 DEF Caller, Begin, Issue, IssueReturns, IssueFails, Deadline, After
  <2> QED BY <2>1, <2>2
<1>4. call[d] \in Returned => call'[d] = call[d]
  <2>1. call[c] \notin Returned
    BY DEF Caller, Begin, GenAckChan, Issue, IssueReturns, IssueFails, Receive, Deadline, After,
      TryCloseChan, Returned
  <2>2. \E to : GoTo(c, to)
    BY DEF Caller, Begin, GenAckChan, Issue, IssueReturns, IssueFails, Receive, Deadline, After,
      TryCloseChan
  <2> QED BY <1>1, <2>1, <2>2 DEF GoTo
<1> QED BY <1>3, <1>4 DEF Late

LEMMA KnownCaller ==
  ASSUME KnownInv, NEW c \in Calls, Caller(c)
  PROVE  KnownInv'
<1> TypeInv
  BY DEF KnownInv
<1>0. TypeInv'
  BY CallerTypes
<1>1. rep' = rep /\ ackMap \subseteq ackMap'
  BY DEF Caller, Begin, GenAckChan, Issue, IssueReturns, IssueFails, Receive, Deadline, After,
    TryCloseChan
<1>2. call \in [Calls -> CallSteps]
  BY DEF TypeInv, TypeOK
<1>3. ASSUME NEW d \in Calls \ SendsFirst, call'[d] \notin {"idle", "make"}
      PROVE  d \in ackMap' \/ Late(d)'
  <2>1. CASE d = c
    <3>1. CASE Begin(c)
      BY <1>2, <1>3, <2>1, <3>1 DEF Begin, GoTo, FirstStep
    <3>2. CASE GenAckChan(c)
      BY <2>1, <3>2 DEF GenAckChan
    <3>3. CASE ~Begin(c) /\ ~GenAckChan(c)
      <4>1. call[d] \notin {"idle", "make"}
        BY <2>1, <3>3 DEF Caller, Issue, IssueReturns, IssueFails, Receive, Deadline, After,
          TryCloseChan
      <4> QED BY <1>1, <4>1, CallerLate DEF KnownInv
    <3> QED BY <3>1, <3>2, <3>3
  <2>2. CASE d # c
    <3>1. call'[d] = call[d]
      BY <1>2, <2>2 DEF Caller, Begin, GenAckChan, Issue, IssueReturns, IssueFails, Receive,
        Deadline, After, TryCloseChan, GoTo
    <3> QED BY <1>1, <1>3, <3>1, CallerLate DEF KnownInv
  <2> QED BY <2>1, <2>2
<1>4. ASSUME NEW d \in Calls \ SendsFirst, d \in got' PROVE call'[d] \notin {"idle", "make"}
  <2>1. CASE Begin(c)
    <3>1. d # c /\ call'[d] = call[d] /\ d \in got
      BY <1>2, <1>4, <2>1 DEF Begin, GoTo, KnownInv
    <3> QED BY <3>1 DEF KnownInv
  <2>2. CASE GenAckChan(c) \/ Issue(c) \/ IssueReturns(c)
    <3>1. d = c => call'[d] \in {"issue", "issued", "wait"}
      BY <1>2, <2>2 DEF GenAckChan, Issue, IssueReturns, GoTo
    <3>2. d # c => call'[d] = call[d] /\ d \in got
      BY <1>2, <1>4, <2>2 DEF GenAckChan, Issue, IssueReturns, GoTo
    <3> QED BY <3>1, <3>2 DEF KnownInv
  <2>3. CASE IssueFails(c) \/ Receive(c) \/ Deadline(c) \/ After(c) \/ TryCloseChan(c)
    <3>1. d = c => call'[d] \in {"failed", "abort", "answered", "timedOut", "giveUp"}
      BY <1>2, <2>3 DEF IssueFails, Receive, Deadline, After, TryCloseChan, GoTo
    <3>2. d # c => call'[d] = call[d] /\ d \in got
      BY <1>2, <1>4, <2>3 DEF IssueFails, Receive, Deadline, After, TryCloseChan, GoTo
    <3> QED BY <3>1, <3>2 DEF KnownInv
  <2> QED BY <2>1, <2>2, <2>3 DEF Caller
<1>5. ASSUME NEW r \in Reporters, rep[r].at \in {"unlock", "delete"}
      PROVE  chan'[rep[r].call].closed
  BY <1>5, ReportFacts, CallerLate DEF KnownInv, ReportSteps
<1> QED BY <1>0, <1>1, <1>3, <1>4, <1>5 DEF KnownInv

LEMMA KnownReporter ==
  ASSUME KnownInv, NEW r \in Reporters, Reporter(r)
  PROVE  KnownInv'
<1> TypeInv
  BY DEF KnownInv
<1> DEFINE c == rep[r].call
<1>0. TypeInv' /\ call' = call /\ got' = got
  BY ReporterTypes DEF Reporter, Handling, LoadMsgChan, Lock, CheckOpen, TrySend, UnlockMu, ReportDone
<1>1. ASSUME NEW d \in Calls, LoadMsgChan(r, d) PROVE KnownInv'
  <2>1. \A q \in Reporters : rep'[q].at \in {"unlock", "delete"} => rep'[q] = rep[q]
    BY <1>1 DEF LoadMsgChan, TypeInv, TypeOK, Free
  <2> QED BY <1>0, <1>1, <2>1 DEF LoadMsgChan, KnownInv, Late
<1>2. CASE Lock(r) \/ UnlockMu(r)
  <2>1. rep[r].at \in {"lock", "unlock"} /\ UNCHANGED <<chan, ackMap>>
    BY <1>2 DEF Lock, UnlockMu
  <2>2. /\ rep'[r].call = c /\ rep'[r].at \in {"unlock", "delete"} => rep[r].at = "unlock"
        /\ \A q \in Reporters : q # r => rep'[q] = rep[q]
    BY <1>2, GoTypes DEF Lock, UnlockMu, ReportSteps
  <2>3. \A q \in Reporters : rep'[q].at \in {"unlock", "delete"} => chan[rep'[q].call].closed
    BY <2>2, GoTypes, <1>2 DEF KnownInv, Lock, UnlockMu, ReportSteps
  <2> QED BY <1>0, <2>1, <2>3 DEF KnownInv, Late
<1>3. CASE CheckOpen(r)
  <2>1. /\ rep'[r].call = c /\ rep'[r].at = "unlock" => chan[c].closed
        /\ rep'[r].at \in {"send", "unlock"}
        /\ \A q \in Reporters : q # r => rep'[q] = rep[q]
    BY <1>3, GoTypes DEF CheckOpen, Open, ReportSteps
  <2>2. \A q \in Reporters : rep'[q].at \in {"unlock", "delete"} => chan[rep'[q].call].closed
    BY <1>3, <2>1, GoTypes DEF KnownInv, CheckOpen, ReportSteps
  <2> QED BY <1>0, <1>3, <2>2 DEF CheckOpen, KnownInv, Late
<1>4. CASE TrySend(r)
  <2>1. c \in Calls /\ chan[c] \in [made : BOOLEAN, closed : BOOLEAN, data : {0, 1}]
    BY <1>4, ReportFacts DEF TrySend, ReportSteps, TypeInv, TypeOK, Chans
  <2>2. chan'[c].closed /\ \A d \in Calls : d # c => chan'[d] = chan[d]
    BY <1>4, <2>1 DEF TrySend, SendAndClose, TypeInv, TypeOK
  <2>3. /\ rep'[r].call = c
        /\ \A q \in Reporters : q # r => rep'[q] = rep[q]
    BY <1>4, GoTypes DEF TrySend, ReportSteps
  <2>4. \A q \in Reporters : rep'[q].at \in {"unlock", "delete"} => chan'[rep'[q].call].closed
    <3> SUFFICES ASSUME NEW q \in Reporters, q # r, rep[q].at \in {"unlock", "delete"}
                 PROVE  chan'[rep[q].call].closed
      BY <2>2, <2>3
    <3> QED BY <2>2, ReportFacts DEF KnownInv, ReportSteps
  <2>5. \A d \in Calls : Late(d) => Late(d)'
    BY <1>0, <2>2 DEF Late
  <2> QED BY <1>0, <1>4, <2>4, <2>5 DEF TrySend, KnownInv
<1>5. CASE ReportDone(r)
  <2>1. /\ rep'[r] = Free /\ \A q \in Reporters : q # r => rep'[q] = rep[q]
        /\ ackMap' = ackMap \ {c} /\ chan' = chan /\ chan[c].closed
    BY <1>5 DEF ReportDone, DeleteMsgId, TypeInv, TypeOK, KnownInv
  <2>2. \A q \in Reporters : rep'[q].at \in {"unlock", "delete"} => chan'[rep'[q].call].closed
    BY <2>1 DEF KnownInv, Free
  <2> QED BY <1>0, <2>1, <2>2 DEF KnownInv, Late
<1> QED BY <1>1, <1>2, <1>3, <1>4, <1>5 DEF Reporter, Handling

\* For the calls that register before they send: whenever a report finds its id unknown,
\* the call has returned or has been answered.
THEOREM UnknownReportsAreLate == Spec => UnknownIsLate
<1>1. Init => KnownInv
  BY TypeInit, FreeIsFree DEF Init, KnownInv
<1>2. KnownInv /\ [Next]_vars => KnownInv'
  <2> SUFFICES ASSUME KnownInv, [Next]_vars PROVE KnownInv'
    OBVIOUS
  <2>1. CASE UNCHANGED vars
    BY <2>1, TypeStep DEF vars, KnownInv, Late
  <2> QED BY <2>1, KnownCaller, KnownReporter DEF Next
<1>3. ASSUME KnownInv
      PROVE  \A r \in Reporters, c \in Calls \ SendsFirst :
               LoadMsgChan(r, c) /\ c \notin ackMap => Late(c)
  BY <1>3 DEF LoadMsgChan, KnownInv
<1> QED BY <1>1, <1>2, <1>3, PTL DEF Spec, UnknownIsLate

(***************************************************************************)
(* DeviceAck implements AnswerBox                                          *)
(***************************************************************************)

\* The refinement needs that an open channel is that of a call which has not been
\* answered, that reports are only of calls the driver has received, and that a call
\* which is still to be sent has not been received.
BoxInv ==
  /\ \A c \in Calls :
       /\ call[c] = "answered" => chan[c].closed
       /\ c \in got => call[c] \notin {"idle", "issue"}
       /\ c \in got /\ c \notin SendsFirst => call[c] # "make"
  /\ \A r \in Reporters : rep[r] # Free => rep[r].call \in got

Kept == BoxInv' /\ [AB!Next]_AB!vars

\* A step that changes box and outcome of one call at most is one of the whole functions.
LEMMA BoxOf ==
  ASSUME NEW c \in Calls, \A d \in Calls : d # c => Box(d)' = Box(d)
  PROVE  [d \in Calls |-> Box(d)]' = [[d \in Calls |-> Box(d)] EXCEPT ![c] = Box(c)']
OBVIOUS

LEMMA OutcomeOf ==
  ASSUME NEW c \in Calls, \A d \in Calls : d # c => Outcome(d)' = Outcome(d)
  PROVE  [d \in Calls |-> Outcome(d)]' = [[d \in Calls |-> Outcome(d)] EXCEPT ![c] = Outcome(c)']
OBVIOUS

\* Nothing happens that AnswerBox sees.
LEMMA SameBox ==
  ASSUME got' = got, \A d \in Calls : Box(d)' = Box(d) /\ Outcome(d)' = Outcome(d)
  PROVE  UNCHANGED AB!vars
BY DEF AB!vars

LEMMA CallerBox ==
  ASSUME TypeInv, BoxInv, NEW c \in Calls, Caller(c)
  PROVE  Kept
<1> USE DEF TypeInv, TypeOK
<1>0. chan[c] \in [made : BOOLEAN, closed : BOOLEAN, data : {0, 1}] /\ chan[c] \in Chans
  BY DEF Chans
<1>1. rep' = rep /\ \A d \in Calls : d # c => call'[d] = call[d] /\ chan'[d] = chan[d]
  BY DEF Caller, Begin, GenAckChan, Issue, IssueReturns, IssueFails, Receive, Deadline, After,
    TryCloseChan, GoTo
<1>2. \A d \in Calls : d # c => Box(d)' = Box(d) /\ Outcome(d)' = Outcome(d)
  BY <1>1 DEF Box, Outcome
<1>3. /\ [d \in Calls |-> Box(d)]' = [[d \in Calls |-> Box(d)] EXCEPT ![c] = Box(c)']
      /\ [d \in Calls |-> Outcome(d)]' = [[d \in Calls |-> Outcome(d)] EXCEPT ![c] = Outcome(c)']
  BY <1>2, BoxOf, OutcomeOf
<1>4. CASE Begin(c) \/ IssueReturns(c) \/ After(c) \/ (IssueFails(c) /\ c \notin SendsFirst)
  <2>1. /\ call'[c] \in {"make", "issue", "wait", "giveUp", "abort"}
        /\ call[c] \in {"idle", "issue", "issued", "wait"}
        /\ call'[c] \in {"make", "issue"} => call[c] = "idle" \/ (c \in SendsFirst /\ call'[c] = "make")
        /\ UNCHANGED <<got, chan>>
    BY <1>4 DEF Begin, IssueReturns, IssueFails, After, GoTo, FirstStep
  <2>2. Box(c)' = Box(c) /\ Outcome(c)' = Outcome(c)
    BY <2>1 DEF Box, Outcome, Returned
  <2>3. BoxInv'
    BY <1>1, <2>1 DEF BoxInv
  <2> QED BY <1>2, <2>1, <2>2, <2>3, SameBox DEF Kept
<1>5. CASE GenAckChan(c)
  <2>1. /\ call[c] = "make" /\ call'[c] \in {"wait", "issue"} /\ got' = got
        /\ c \in SendsFirst => call'[c] = "wait"
        /\ chan'[c].closed = chan[c].closed /\ chan'[c].data = chan[c].data
    BY <1>0, <1>5 DEF GenAckChan, GoTo
  <2>2. Box(c)' = Box(c) /\ Outcome(c)' = Outcome(c)
    BY <2>1 DEF Box, Outcome, Returned
  <2>3. BoxInv'
    BY <1>1, <2>1 DEF BoxInv
  <2> QED BY <1>2, <2>1, <2>2, <2>3, SameBox DEF Kept
<1>6. CASE Issue(c)
  <2>1. /\ call[c] = "issue" /\ call'[c] = "issued" /\ chan' = chan
        /\ c \notin got /\ got' = got \cup {c}
    BY <1>6 DEF Issue, GoTo, BoxInv
  <2>2. Box(c)' = Box(c) /\ Outcome(c)' = Outcome(c) /\ Outcome(c) = "pending"
    BY <2>1 DEF Box, Outcome, Returned
  <2>3. BoxInv'
    BY <1>1, <2>1 DEF BoxInv
  <2>4. AB!Ask(c)
    BY <1>2, <2>1, <2>2 DEF AB!Ask
  <2> QED BY <2>3, <2>4 DEF Kept, AB!Next
<1>7. CASE Receive(c)
  <2>1. /\ call[c] = "wait" /\ call'[c] = "answered" /\ got' = got
        /\ chan[c].data = 1 /\ chan'[c].data = 0 /\ chan[c].closed /\ chan'[c].closed
    BY <1>0, <1>7, ChanFields DEF Receive, GoTo
  <2>2. /\ Box(c) = "full" /\ Box(c)' = "taken"
        /\ Outcome(c) = "pending" /\ Outcome(c)' = "answer"
    BY <2>1 DEF Box, Outcome, Returned
  <2>3. BoxInv'
    BY <1>1, <2>1 DEF BoxInv
  <2>4. AB!Take(c)
    BY <1>3, <2>1, <2>2 DEF AB!Take
  <2> QED BY <2>3, <2>4 DEF Kept, AB!Next
<1>8. CASE Deadline(c) \/ (IssueFails(c) /\ c \in SendsFirst)
  <2>1. /\ call[c] \in {"wait", "issue", "issued"} /\ call'[c] \in {"timedOut", "failed"}
        /\ UNCHANGED <<got, chan>>
    BY <1>8 DEF Deadline, IssueFails, GoTo
  <2>2. Box(c)' = Box(c) /\ Outcome(c) = "pending" /\ Outcome(c)' = "none"
    BY <2>1 DEF Box, Outcome, Returned
  <2>3. BoxInv'
    BY <1>1, <2>1 DEF BoxInv
  <2>4. AB!Leave(c)
    BY <1>2, <1>3, <2>1, <2>2 DEF AB!Leave
  <2> QED BY <2>3, <2>4 DEF Kept, AB!Next
<1>9. CASE TryCloseChan(c)
  <2>1. /\ call[c] \in {"giveUp", "abort"} /\ call'[c] \in {"timedOut", "failed"}
        /\ got' = got /\ chan'[c].closed /\ chan'[c].data = chan[c].data
    BY <1>0, <1>9 DEF TryCloseChan, GoTo
  <2>2. /\ Outcome(c) = "pending" /\ Outcome(c)' = "none"
        /\ Box(c) \in {"full", "shut", "empty"}
        /\ Box(c)' = IF Box(c) = "empty" THEN "shut" ELSE Box(c)
    BY <2>1 DEF Box, Outcome, Returned
  <2>3. BoxInv'
    BY <1>1, <2>1 DEF BoxInv
  <2>4. AB!Leave(c)
    BY <1>3, <2>1, <2>2 DEF AB!Leave
  <2> QED BY <2>3, <2>4 DEF Kept, AB!Next
<1> QED BY <1>4, <1>5, <1>6, <1>7, <1>8, <1>9 DEF Caller

\* Of the steps of a report only TrySend is one that AnswerBox sees, and it finds the
\* channel open.
LEMMA ReporterBox ==
  ASSUME MutexInv, BoxInv, NEW r \in Reporters, Reporter(r)
  PROVE  Kept
<1> TypeInv
  BY DEF MutexInv
<1>0. call' = call /\ got' = got
  BY DEF Reporter, Handling, LoadMsgChan, Lock, CheckOpen, TrySend, UnlockMu, ReportDone
<1>1. \A q \in Reporters : rep'[q] # Free => rep'[q].call \in got
  <2>1. ASSUME NEW d \in Calls, LoadMsgChan(r, d)
        PROVE  \A q \in Reporters : rep'[q] # Free => rep'[q].call \in got
    BY <2>1 DEF LoadMsgChan, BoxInv, TypeInv, TypeOK
  <2>2. CASE ReportDone(r)
    BY <2>2 DEF ReportDone, BoxInv, TypeInv, TypeOK
  <2>3. CASE Lock(r) \/ CheckOpen(r) \/ TrySend(r) \/ UnlockMu(r)
    <3>1. \A q \in Reporters : rep'[q] # Free => rep[q] # Free /\ rep'[q].call = rep[q].call
      BY <2>3, GoTypes DEF Lock, CheckOpen, TrySend, UnlockMu, ReportSteps
    <3> QED BY <3>1 DEF BoxInv
  <2> QED BY <2>1, <2>2, <2>3 DEF Reporter, Handling
<1>2. CASE TrySend(r)
  <2>0. PICK c \in Calls : c = rep[r].call
    BY <1>2, ReportFacts DEF TrySend, ReportSteps
  <2>1. ~chan[c].closed /\ c \in got
    BY <1>2, <2>0, ReportFacts DEF TrySend, MutexInv, BoxInv, ReportSteps
  <2>2. chan[c] \in [made : BOOLEAN, closed : BOOLEAN, data : {0, 1}]
    BY <2>1 DEF TypeInv, TypeOK, Chans
  <2>3. chan[c].data = 0 /\ chan'[c].data = 1 /\ chan'[c].closed /\ call[c] # "answered"
    BY <1>2, <2>0, <2>1, <2>2 DEF TrySend, HasRoom, SendAndClose, BoxInv, TypeInv, TypeOK
  <2>4. \A d \in Calls : d # c => chan'[d] = chan[d]
    BY <1>2, <2>0, <2>1 DEF TrySend, SendAndClose, TypeInv, TypeOK
  <2>5. Box(c) = "empty" /\ Box(c)' = "full" /\ \A d \in Calls : d # c => Box(d)' = Box(d)
    BY <1>0, <2>1, <2>3, <2>4 DEF Box
  <2>6. \A d \in Calls : Outcome(d)' = Outcome(d)
    BY <1>0 DEF Outcome
  <2>7. [d \in Calls |-> Box(d)]' = [[d \in Calls |-> Box(d)] EXCEPT ![c] = "full"]
    BY <2>1, <2>5, BoxOf
  <2>8. AB!Put(c)
    BY <1>0, <2>1, <2>5, <2>6, <2>7 DEF AB!Put
  <2>9. BoxInv'
    BY <1>0, <1>1, <2>3, <2>4 DEF BoxInv
  <2> QED BY <2>1, <2>8, <2>9 DEF Kept, AB!Next
<1>3. CASE ~TrySend(r)
  <2>1. chan' = chan
    BY <1>3 DEF Reporter, Handling, LoadMsgChan, Lock, CheckOpen, UnlockMu, ReportDone
  <2>2. \A d \in Calls : Box(d)' = Box(d) /\ Outcome(d)' = Outcome(d)
    BY <1>0, <2>1 DEF Box, Outcome
  <2>3. BoxInv'
    BY <1>0, <1>1, <2>1 DEF BoxInv
  <2> QED BY <1>0, <2>2, <2>3, SameBox DEF Kept
<1> QED BY <1>2, <1>3

LEMMA BoxInit == Init => BoxInv /\ AB!Init
<1> SUFFICES ASSUME Init PROVE BoxInv /\ AB!Init
  OBVIOUS
<1>1. BoxInv
  BY DEF Init, BoxInv
<1>2. \A c \in Calls : Box(c) = "empty" /\ Outcome(c) = "pending"
  <2> SUFFICES ASSUME NEW c \in Calls PROVE Box(c) = "empty" /\ Outcome(c) = "pending"
    OBVIOUS
  <2>1. call[c] = "idle" /\ chan[c].data = 0 /\ ~chan[c].closed
    BY DEF Init, NoChan
  <2> QED BY <2>1 DEF Box, Outcome, Returned
<1> QED BY <1>1, <1>2 DEF Init, AB!Init

\* For any calls and reports: a call to a device keeps the promise of AnswerBox.
THEOREM ImplementsAnswerBox == Spec => AnswerBoxSpec
<1>1. Init => MutexInv /\ BoxInv /\ AB!Init
  BY MutexInit, BoxInit
<1>2. MutexInv /\ BoxInv /\ [Next]_vars => BoxInv' /\ [AB!Next]_AB!vars
  <2> SUFFICES ASSUME MutexInv, BoxInv, [Next]_vars PROVE Kept
    BY DEF Kept
  <2>1. CASE UNCHANGED vars
    <3>1. BoxInv'
      BY <2>1 DEF vars, BoxInv
    <3>2. got' = got /\ \A d \in Calls : Box(d)' = Box(d) /\ Outcome(d)' = Outcome(d)
      BY <2>1 DEF vars, Box, Outcome
    <3> QED BY <3>1, <3>2, SameBox DEF Kept
  <2> QED BY <2>1, CallerBox, ReporterBox DEF Next, MutexInv
<1> QED BY <1>1, <1>2, MutexStep, PTL DEF Spec, AnswerBoxSpec, AB!Spec

=============================================================================
