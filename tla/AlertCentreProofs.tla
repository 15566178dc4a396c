------------------------- MODULE AlertCentreProofs --------------------------
(***************************************************************************)
(* Proofs about AlertCentre: its type invariant; that the silence time is  *)
(* kept and the list of alerts is what ThrottledAlerts promises; and which *)
(* reports find a condition, for every set of rules and clients and every  *)
(* kind of fault.                                                          *)
(***************************************************************************)
EXTENDS AlertCentre, SequenceTheorems, TLAPS

TargetKnown == \A c \in Clients : pc[c] # "idle" => target[c] \in Rules

TypeInv == TypeOK /\ TargetKnown

(***************************************************************************)
(* Types                                                                   *)
(***************************************************************************)
LEMMA Names ==
  /\ {"idle", "lookup", "create", "replace", "store", "storeField", "startRule", "restartRule",
      "markStart", "stopRule", "markStop", "dropRule", "erase"} = Steps
  /\ {"none", "data", "other"} = Conditions
  /\ {"absent", "stopped", "running"} = RuleStates
BY DEF Steps, Conditions, RuleStates

LEMMA Numbers ==
  /\ MaxRequests \in Nat /\ MaxFaults \in Nat /\ MaxTime \in Nat
  /\ Times \subseteq Nat /\ 0 \in Times /\ Silences \subseteq Times
BY AlertCentreAssumption DEF Times

LEMMA Records ==
  /\ Gone \in Rows
  /\ NoEdit \in [cond : Conditions, silence : Times]
  /\ NoReport \in [at : {"idle", "read", "check", "insert"}, row : Rows]
BY Numbers DEF Gone, Rows, NoEdit, NoReport, Conditions

ClientTypes ==
  /\ pc \in [Clients -> Steps]
  /\ target \in [Clients -> Rules \cup {NoRule}]
  /\ asked \in [Clients -> [cond : Conditions, silence : Times]]
  /\ seen \in [Clients -> Rows]
  /\ TargetKnown

LEMMA TypesOfClients == TypeInv => ClientTypes
BY DEF TypeInv, TypeOK, ClientTypes

LEMMA Bounds ==
  TypeOK => faults \in 0..MaxFaults /\ requests \in 0..MaxRequests /\ now \in 0..MaxTime
BY DEF TypeOK

LEMMA FaultType ==
  ASSUME TypeOK, NEW f, Fault(f)
  PROVE  faults' \in 0..MaxFaults
BY Bounds, Numbers DEF Fault

LEMMA GoToTypes ==
  ASSUME ClientTypes, NEW c \in Clients, NEW to \in Steps, GoTo(c, to), target[c] \in Rules
  PROVE  ClientTypes'
BY DEF ClientTypes, GoTo, TargetKnown

LEMMA AnswerTypes ==
  ASSUME ClientTypes, NEW c \in Clients, Answer(c)
  PROVE  ClientTypes'
<1>1. pc' \in [Clients -> Steps] /\ target' \in [Clients -> Rules \cup {NoRule}] /\ TargetKnown'
  BY Names DEF ClientTypes, Answer, TargetKnown
<1>2. /\ asked' \in [Clients -> [cond : Conditions, silence : Times]]
      /\ seen' \in [Clients -> Rows]
  BY Records DEF ClientTypes, Answer
<1> QED BY <1>1, <1>2 DEF ClientTypes

LEMMA SetRowTypes ==
  ASSUME TypeOK, NEW r \in Rules, NEW new \in Rows, SetRow(r, new)
  PROVE  row' \in [Rules -> Rows]
BY DEF TypeOK, SetRow

LEMMA SetStatusTypes ==
  ASSUME TypeOK, NEW r \in Rules, NEW s \in {"stopped", "running"}, SetStatus(r, s)
  PROVE  row' \in [Rules -> Rows]
<1>1. [status |-> s, cond |-> row[r].cond, silence |-> row[r].silence] \in Rows
  BY DEF TypeOK, Rows
<1> QED BY <1>1, SetRowTypes DEF SetStatus

LEMMA TypeInit == Init => TypeInv
<1> SUFFICES ASSUME Init PROVE TypeInv
  OBVIOUS
<1>1. requests \in 0..MaxRequests /\ faults \in 0..MaxFaults /\ now \in 0..MaxTime
  BY Numbers DEF Init
<1>2. alerts \in [Rules -> Seq([created : 0..MaxTime, silence : Times])]
  BY DEF Init
<1>3. ClientTypes
  BY Names, Records DEF Init, ClientTypes, TargetKnown
<1> QED BY <1>1, <1>2, <1>3, Names, Records DEF Init, TypeInv, TypeOK, ClientTypes

(***************************************************************************)
(* Steps of requests                                                       *)
(***************************************************************************)
LEMMA RequestTypes ==
  ASSUME TypeInv, NEW c \in Clients, NEW r \in Rules,
         NEW edit \in [cond : Conditions, silence : Times], NEW to \in Steps,
         Request(c, r, edit, to)
  PROVE  TypeInv'
<1>1. requests' \in 0..MaxRequests
  BY Bounds, Numbers DEF TypeInv, Request
<1>2. ClientTypes'
  BY DEF TypeInv, TypeOK, ClientTypes, TargetKnown, Request
<1> QED BY <1>1, <1>2 DEF TypeInv, TypeOK, ClientTypes, Request, monitor

LEMMA BeginTypes ==
  ASSUME TypeInv, NEW c \in Clients, NEW r \in Rules, Begin(c, r)
  PROVE  TypeInv'
<1>1. CASE UpdateAlertRule(c, r)
  <2>1. PICK cond \in {"data", "other"}, silence \in Silences :
          Request(c, r, [cond |-> cond, silence |-> silence], "lookup")
    BY <1>1 DEF UpdateAlertRule
  <2>2. [cond |-> cond, silence |-> silence] \in [cond : Conditions, silence : Times]
    BY Names, Numbers
  <2> QED BY <2>1, <2>2, RequestTypes, Names
<1>2. CASE \E to \in Steps : Request(c, r, NoEdit, to)
  BY <1>2, RequestTypes, Records
<1> QED BY <1>1, <1>2, Names DEF Begin, UpdateAlertField, AlertRulesStart, AlertRulesRestart,
    AlertRulesStop, AlertRulesDelete

LEMMA CallTypes ==
  ASSUME TypeInv, NEW c \in Clients, NEW at \in Steps \ {"idle"}, NEW accepted,
         NEW outcomes \in SUBSET RuleStates, NEW to \in Steps, Call(c, at, accepted, outcomes, to)
  PROVE  TypeInv'
<1> ClientTypes
  BY TypesOfClients
<1>1. target[c] \in Rules
  BY DEF ClientTypes, TargetKnown, Call
<1>2. ClientTypes'
  BY <1>1, GoToTypes, AnswerTypes DEF Call
<1>3. rule' \in [Rules -> RuleStates]
  BY DEF TypeInv, TypeOK, Call
<1>4. faults' \in 0..MaxFaults
  <2>1. CASE UNCHANGED faults
    BY <2>1 DEF TypeInv, TypeOK
  <2>2. CASE Fault("call")
    BY <2>2, FaultType DEF TypeInv
  <2> QED BY <2>1, <2>2 DEF Call
<1> QED BY <1>2, <1>3, <1>4 DEF ClientTypes, TypeInv, TypeOK, Call, monitor

LEMMA StepTypes ==
  ASSUME TypeInv, NEW c \in Clients, Step(c)
  PROVE  TypeInv'
<1> ClientTypes /\ TypeOK
  BY TypesOfClients DEF TypeInv
<1>1. CASE CreateRule(c) \/ UpdateRule(c) \/ StartRule(c) \/ RestartRule(c) \/ StopRule(c) \/ DropRule(c)
  <2>1. PICK at \in Steps \ {"idle"}, accepted \in BOOLEAN, outcomes \in SUBSET RuleStates, to \in Steps :
          Call(c, at, accepted, outcomes, to)
    <3>1. CASE CreateRule(c)
      <4>1. {"stopped"} \in SUBSET RuleStates
        BY Names
      <4> QED BY <3>1, <4>1, Names DEF CreateRule
    <3>2. CASE UpdateRule(c)
      <4>1. target[c] \in Rules
        BY <3>2 DEF ClientTypes, TargetKnown, UpdateRule, Call
      <4>2. {rule[target[c]], "stopped"} \in SUBSET RuleStates
        BY <4>1, Names DEF TypeOK
      <4> QED BY <3>2, <4>2, Names DEF UpdateRule, Known
    <3>3. CASE StartRule(c) \/ RestartRule(c)
      <4>1. {"running"} \in SUBSET RuleStates
        BY Names
      <4> QED BY <3>3, <4>1, Names DEF StartRule, RestartRule, Known
    <3>4. CASE StopRule(c)
      <4>1. {"stopped"} \in SUBSET RuleStates
        BY Names
      <4> QED BY <3>4, <4>1, Names DEF StopRule, Known
    <3>5. CASE DropRule(c)
      <4>1. {"absent"} \in SUBSET RuleStates
        BY Names
      <4> QED BY <3>5, <4>1, Names DEF DropRule
    <3> QED BY <1>1, <3>1, <3>2, <3>3, <3>4, <3>5
  <2> QED BY <2>1, CallTypes
<1>2. CASE RuleExist(c)
  <2>1. target[c] \in Rules
    BY <1>2 DEF ClientTypes, TargetKnown, RuleExist
  <2>2. ClientTypes'
    BY <1>2, <2>1, GoToTypes, Names DEF RuleExist
  <2> QED BY <1>2, <2>2 DEF RuleExist, ClientTypes, TypeInv, TypeOK, monitor
<1>3. CASE StoreField(c) \/ StoreRule(c) \/ MarkStart(c) \/ MarkStop(c) \/ Erase(c)
  <2>1. PICK at \in Steps \ {"idle"} : LastWrite(c, at)
    BY <1>3, Names DEF StoreField, StoreRule, MarkStart, MarkStop, Erase
  <2>2. target[c] \in Rules
    BY <2>1 DEF ClientTypes, TargetKnown, LastWrite
  <2>3. ClientTypes'
    BY <2>1, AnswerTypes DEF LastWrite
  <2>4. seen[c] \in Rows /\ asked[c] \in [cond : Conditions, silence : Times]
    BY DEF ClientTypes
  <2>5. row' \in [Rules -> Rows]
    <3>1. CASE StoreField(c)
      BY <3>1, <2>2, <2>4, SetRowTypes DEF StoreField
    <3>2. CASE StoreRule(c)
      <4>1. [status  |-> seen[c].status, cond |-> asked[c].cond,
             silence |-> IF asked[c].silence > 0 THEN asked[c].silence ELSE seen[c].silence] \in Rows
        BY <2>4 DEF Rows
      <4> QED BY <3>2, <4>1, <2>2, SetRowTypes DEF StoreRule
    <3>3. CASE MarkStart(c) \/ MarkStop(c)
      BY <3>3, <2>2, SetStatusTypes DEF MarkStart, MarkStop
    <3>4. CASE Erase(c)
      BY <3>4, Records DEF Erase, TypeOK
    <3> QED BY <1>3, <3>1, <3>2, <3>3, <3>4
  <2>6. life' \in [Rules -> {"new", "issued", "erased"}]
    BY <1>3 DEF StoreField, StoreRule, MarkStart, MarkStop, Erase, TypeOK
  <2>7. lost' \subseteq Rules
    BY <1>3, <2>1, <2>2 DEF StoreField, Undone, StoreRule, MarkStart, MarkStop, Erase, TypeOK
  <2> QED BY <2>1, <2>3, <2>5, <2>6, <2>7 DEF LastWrite, ClientTypes, TypeInv, TypeOK, monitor
<1>4. CASE CallFails(c)
  <2>1. faults' \in 0..MaxFaults
    BY <1>4, FaultType DEF CallFails
  <2>2. ClientTypes'
    BY <1>4, AnswerTypes DEF CallFails
  <2> QED BY <1>4, <2>1, <2>2 DEF CallFails, ClientTypes, TypeInv, TypeOK, monitor
<1> QED BY <1>1, <1>2, <1>3, <1>4 DEF Step

(***************************************************************************)
(* Steps of AddAlert, the monitor, eKuiper and the process                 *)
(***************************************************************************)
LEMMA ReportTypes ==
  ASSUME TypeOK, NEW r \in Rules, NEW at \in {"idle", "read", "check", "insert"},
         NEW found \in Rows, ReportAt(r, at, found)
  PROVE  report' \in [Rules -> [at : {"idle", "read", "check", "insert"}, row : Rows]]
<1>1. [at |-> at, row |-> found] \in [at : {"idle", "read", "check", "insert"}, row : Rows]
  OBVIOUS
<1> QED BY <1>1 DEF TypeOK, ReportAt

\* What follows when an element is appended.
LEMMA Appended ==
  ASSUME NEW S, NEW s \in Seq(S), NEW e \in S
  PROVE  /\ Append(s, e) \in Seq(S)
         /\ Len(Append(s, e)) = Len(s) + 1
         /\ \A i \in 1..Len(s) : Append(s, e)[i] = s[i]
         /\ Append(s, e)[Len(s) + 1] = e
         /\ Append(s, e) # <<>>
BY AppendProperties

LEMMA InsertTypes ==
  ASSUME TypeOK, NEW r \in Rules, InsertAlert(r)
  PROVE  alerts' \in [Rules -> Seq([created : 0..MaxTime, silence : Times])]
<1> DEFINE alert == [created |-> now, silence |-> report[r].row.silence]
<1>1. alert \in [created : 0..MaxTime, silence : Times]
  BY DEF TypeOK, Rows
<1>2. alerts[r] \in Seq([created : 0..MaxTime, silence : Times])
  BY DEF TypeOK
<1>3. Append(alerts[r], alert) \in Seq([created : 0..MaxTime, silence : Times])
  BY <1>1, <1>2, Appended
<1>4. alerts' = [alerts EXCEPT ![r] = Append(alerts[r], alert)]
  BY DEF InsertAlert
<1>5. alerts \in [Rules -> Seq([created : 0..MaxTime, silence : Times])]
  BY DEF TypeOK
<1> HIDE DEF alert
<1> QED BY <1>3, <1>4, <1>5

LEMMA AddAlertTypes ==
  ASSUME TypeInv, NEW r \in Rules, AddAlert(r)
  PROVE  TypeInv'
<1> TypeOK
  BY DEF TypeInv
<1>1. report' \in [Rules -> [at : {"idle", "read", "check", "insert"}, row : Rows]]
  <2>1. row[r] \in Rows /\ report[r].row \in Rows
    BY DEF TypeOK
  <2> QED BY <2>1, ReportTypes, Records DEF AddAlert, Post, ReadRule, CheckSilence, InsertAlert,
        ReportFails
<1>2. alerts' \in [Rules -> Seq([created : 0..MaxTime, silence : Times])]
  <2>1. CASE InsertAlert(r)
    BY <2>1, InsertTypes
  <2>2. CASE UNCHANGED alerts
    BY <2>2 DEF TypeOK
  <2> QED BY <2>1, <2>2 DEF AddAlert, Post, ReadRule, CheckSilence, ReportFails
<1>3. faults' \in 0..MaxFaults
  <2>1. CASE UNCHANGED faults
    BY <2>1, Bounds
  <2>2. CASE Fault("db")
    BY <2>2, FaultType
  <2> QED BY <2>1, <2>2 DEF AddAlert, Post, ReadRule, CheckSilence, InsertAlert, ReportFails
<1>4. ReportOnly
  BY DEF AddAlert, Post, ReadRule, CheckSilence, InsertAlert, ReportFails
<1> QED BY <1>1, <1>2, <1>3, <1>4 DEF ReportOnly, TypeInv, TypeOK, TargetKnown, client, monitor

LEMMA MonitorTypes ==
  ASSUME TypeInv, Monitor
  PROVE  TypeInv'
<1> TypeOK
  BY DEF TypeInv
<1>1. CASE MonitorTick
  <2>1. snapshot' \in [Rules -> {"gone", "", "stopped", "running"}] /\ todo' \subseteq Rules
    BY <1>1 DEF MonitorTick, TypeOK, Rows
  <2> QED BY <1>1, <2>1 DEF MonitorTick, TypeInv, TypeOK, TargetKnown, client
<1>2. CASE MonitorWrite
  <2>1. faults' \in 0..MaxFaults
    BY <1>2, FaultType, Bounds DEF MonitorWrite
  <2>2. write.rule \in Rules /\ write.status \in {"stopped", "running"}
    BY <1>2 DEF MonitorWrite, TypeOK
  <2>3. row' \in [Rules -> Rows]
    <3>1. CASE SetStatus(write.rule, write.status)
      BY <3>1, <2>2, SetStatusTypes
    <3>2. CASE UNCHANGED row
      BY <3>2 DEF TypeOK
    <3> QED BY <1>2, <3>1, <3>2 DEF MonitorWrite
  <2> QED BY <1>2, <2>1, <2>3 DEF MonitorWrite, TypeInv, TypeOK, TargetKnown, client
<1>3. ASSUME NEW r \in Rules, MonitorAsk(r) PROVE TypeInv'
  <2>1. faults' \in 0..MaxFaults
    BY <1>3, FaultType, Bounds DEF MonitorAsk
  <2>2. write' \in [rule : Rules, status : {"stopped", "running"}] \cup {NoWrite}
    <3>1. rule[r] \in RuleStates
      BY DEF TypeOK
    <3> QED BY <1>3, <3>1, Names DEF MonitorAsk, OutOfDate
  <2>3. snapshot' \in [Rules -> {"gone", "", "stopped", "running"}]
    BY <1>3 DEF MonitorAsk, TypeOK
  <2> QED BY <1>3, <2>1, <2>2, <2>3 DEF MonitorAsk, TypeInv, TypeOK, TargetKnown, client
<1> QED BY <1>1, <1>2, <1>3 DEF Monitor

LEMMA OtherTypes ==
  ASSUME TypeInv, TimePasses \/ Restart \/ \E r \in Rules : AddAlertRule(r) \/ RuleDies(r)
  PROVE  TypeInv'
<1> TypeOK
  BY DEF TypeInv
<1>1. CASE TimePasses
  <2>1. now' \in 0..MaxTime
    BY <1>1, Bounds, Numbers DEF TimePasses
  <2> QED BY <1>1, <2>1 DEF TimePasses, TypeInv, TypeOK, TargetKnown, client, monitor
<1>2. CASE Restart
  <2>1. faults' \in 0..MaxFaults
    BY <1>2, FaultType DEF Restart
  <2>2. ClientTypes'
    BY <1>2, Names, Records DEF Restart, ClientTypes, TargetKnown
  <2>3. report' \in [Rules -> [at : {"idle", "read", "check", "insert"}, row : Rows]]
    BY <1>2, Records DEF Restart
  <2> QED BY <1>2, <2>1, <2>2, <2>3 DEF Restart, TypeInv, TypeOK, ClientTypes
<1>3. ASSUME NEW r \in Rules, AddAlertRule(r) PROVE TypeInv'
  <2>1. requests' \in 0..MaxRequests
    <3>1. requests < MaxRequests /\ requests' = requests + 1
      BY <1>3 DEF AddAlertRule
    <3> QED BY <3>1, Bounds, Numbers
  <2>2. [status |-> "", cond |-> "none", silence |-> 0] \in Rows
    BY Numbers, Names DEF Rows
  <2>3. row' \in [Rules -> Rows] /\ life' \in [Rules -> {"new", "issued", "erased"}]
    BY <1>3, <2>2 DEF AddAlertRule, TypeOK
  <2> QED BY <1>3, <2>1, <2>3 DEF AddAlertRule, TypeInv, TypeOK, TargetKnown, client, monitor
<1>4. ASSUME NEW r \in Rules, RuleDies(r) PROVE TypeInv'
  <2>1. faults' \in 0..MaxFaults
    BY <1>4, FaultType DEF RuleDies
  <2>2. rule' \in [Rules -> RuleStates]
    BY <1>4, Names DEF RuleDies, TypeOK
  <2> QED BY <1>4, <2>1, <2>2 DEF RuleDies, TypeInv, TypeOK, TargetKnown, client, monitor
<1> QED BY <1>1, <1>2, <1>3, <1>4

LEMMA TypeStep == TypeInv /\ [Next]_vars => TypeInv'
<1> SUFFICES ASSUME TypeInv, [Next]_vars PROVE TypeInv'
  OBVIOUS
<1>1. CASE UNCHANGED vars
  BY <1>1 DEF vars, TypeInv, TypeOK, TargetKnown
<1> QED BY <1>1, BeginTypes, StepTypes, AddAlertTypes, MonitorTypes, OtherTypes DEF Next

\* Every variable keeps its type: rows, eKuiper's rules, alerts, reports, requests and
\* what the monitor has read (alertapp.go, alertcentreapp/monitor.go).
THEOREM TypeCorrect == Spec => []TypeOK
<1>1. TypeInv => TypeOK
  BY DEF TypeInv
<1> QED BY <1>1, TypeInit, TypeStep, PTL DEF Spec

(***************************************************************************)
(* The silence time                                                        *)
(*                                                                         *)
(* Whatever becomes of the rule: between the check and the insertion of a  *)
(* report no other alert of its rule comes, and the clock does not go      *)
(* back, so that the check still holds when the alert is added.            *)
(***************************************************************************)
TimeInv ==
  \A r \in Rules :
    alerts[r] # <<>> =>
      /\ LastAlert(r).created <= now
      /\ report[r].at = "insert" => LastAlert(r).created + report[r].row.silence <= now

SilenceInv == TimeInv /\ SilenceIsKept

LEMMA SilenceInit == Init => SilenceInv
<1> SUFFICES ASSUME Init PROVE SilenceInv
  OBVIOUS
<1>1. \A r \in Rules : alerts[r] = <<>>
  BY DEF Init
<1>2. \A r \in Rules : 2..Len(alerts[r]) = {}
  BY <1>1
<1> QED BY <1>1, <1>2 DEF SilenceInv, TimeInv, SilenceIsKept

\* The numbers of a rule's last alert and of the report at work on it.
LEMMA AlertTypes ==
  ASSUME TypeOK, NEW r \in Rules
  PROVE  /\ alerts[r] \in Seq([created : 0..MaxTime, silence : Times])
         /\ Len(alerts[r]) \in Nat
         /\ alerts[r] # <<>> => Len(alerts[r]) > 0 /\ LastAlert(r).created \in Nat
         /\ report[r].row.silence \in Nat
         /\ now \in Nat
<1>1. alerts[r] \in Seq([created : 0..MaxTime, silence : Times])
  BY DEF TypeOK
<1>2. Len(alerts[r]) \in Nat /\ (alerts[r] # <<>> => Len(alerts[r]) > 0)
  BY <1>1, EmptySeq, LenProperties
<1>3. ASSUME alerts[r] # <<>> PROVE LastAlert(r).created \in Nat
  <2>1. Len(alerts[r]) \in 1..Len(alerts[r])
    BY <1>2, <1>3
  <2>2. LastAlert(r) \in [created : 0..MaxTime, silence : Times]
    BY <1>1, <2>1, ElementOfSeq DEF LastAlert
  <2> QED BY <2>2, Numbers
<1>4. report[r].row.silence \in Times
  BY DEF TypeOK, Rows
<1>5. now \in Nat
  BY Bounds, Numbers
<1> QED BY <1>1, <1>2, <1>3, <1>4, <1>5, Numbers

LEMMA ReportMoves ==
  ASSUME TypeOK, NEW r \in Rules, NEW at, NEW found, ReportAt(r, at, found)
  PROVE  /\ report'[r].at = at /\ report'[r].row = found
         /\ \A q \in Rules : q # r => report'[q] = report[q]
BY DEF TypeOK, ReportAt

\* A step that adds no alert, and brings no report to its insertion.
LEMMA SilenceRests ==
  ASSUME TypeOK, SilenceInv, UNCHANGED alerts, now' \in Nat, now' >= now,
         \A r \in Rules : report'[r].at = "insert" => report'[r] = report[r]
  PROVE  SilenceInv'
<1>1. SilenceIsKept'
  BY DEF SilenceInv, SilenceIsKept
<1>2. ASSUME NEW r \in Rules, alerts[r] # <<>>
      PROVE  /\ LastAlert(r).created <= now'
             /\ report'[r].at = "insert" => LastAlert(r).created + report'[r].row.silence <= now'
  <2>1. /\ LastAlert(r).created \in Nat /\ now \in Nat /\ report[r].row.silence \in Nat
        /\ LastAlert(r).created <= now
        /\ report[r].at = "insert" => LastAlert(r).created + report[r].row.silence <= now
    BY <1>2, AlertTypes DEF SilenceInv, TimeInv
  <2>2. CASE report'[r].at = "insert"
    <3>1. report'[r] = report[r]
      BY <2>2
    <3> QED BY <2>1, <2>2, <3>1
  <2>3. CASE report'[r].at # "insert"
    BY <2>1, <2>3
  <2> QED BY <2>2, <2>3
<1>3. TimeInv'
  BY <1>2 DEF TimeInv, LastAlert
<1> QED BY <1>1, <1>3 DEF SilenceInv

LEMMA SilenceChecked ==
  ASSUME TypeOK, SilenceInv, NEW r \in Rules, CheckSilence(r)
  PROVE  SilenceInv'
<1>1. UNCHANGED <<alerts, now>>
  BY DEF CheckSilence, ReportOnly
<1>2. SilenceIsKept'
  BY <1>1 DEF SilenceInv, SilenceIsKept
<1>3. ASSUME NEW q \in Rules, alerts[q] # <<>>
      PROVE  /\ LastAlert(q).created <= now
             /\ report'[q].at = "insert" => LastAlert(q).created + report'[q].row.silence <= now
  <2>1. /\ LastAlert(q).created \in Nat /\ now \in Nat /\ report[q].row.silence \in Nat
        /\ LastAlert(q).created <= now
        /\ report[q].at = "insert" => LastAlert(q).created + report[q].row.silence <= now
    BY <1>3, AlertTypes DEF SilenceInv, TimeInv
  <2>2. CASE q # r
    <3>1. report'[q] = report[q]
      BY <2>2, ReportMoves DEF CheckSilence
    <3> QED BY <2>1, <3>1
  <2>3. CASE q = r /\ InSilence(r)
    <3>1. report'[q].at = "idle"
      BY <2>3, ReportMoves DEF CheckSilence
    <3> QED BY <2>1, <3>1
  <2>4. CASE q = r /\ ~InSilence(r)
    <3>1. report'[q].row = report[q].row
      BY <2>4, ReportMoves DEF CheckSilence
    <3>2. ~(report[q].row.silence > 0) \/ ~(LastAlert(q).created + report[q].row.silence > now)
      BY <1>3, <2>4 DEF InSilence
    <3>3. LastAlert(q).created + report[q].row.silence <= now
      BY <2>1, <3>2
    <3> QED BY <2>1, <3>1, <3>3
  <2> QED BY <2>2, <2>3, <2>4
<1>4. TimeInv'
  BY <1>1, <1>3 DEF TimeInv, LastAlert
<1> QED BY <1>2, <1>4 DEF SilenceInv

LEMMA SilenceInsertion ==
  ASSUME TypeOK, SilenceInv, NEW r \in Rules, InsertAlert(r)
  PROVE  SilenceInv'
<1> DEFINE A == [created : 0..MaxTime, silence : Times]
           alert == [created |-> now, silence |-> report[r].row.silence]
<1>1. /\ now \in Nat /\ report[r].row.silence \in Nat
      /\ report[r].at = "insert"
      /\ now' = now
  BY AlertTypes DEF InsertAlert, ReportOnly
<1>2. alert \in A /\ alerts[r] \in Seq(A)
  BY DEF TypeOK, Rows
<1>3. alert.created = now /\ alert.silence = report[r].row.silence
  OBVIOUS
<1>4. alerts'[r] = Append(alerts[r], alert) /\ \A q \in Rules : q # r => alerts'[q] = alerts[q]
  BY DEF InsertAlert, TypeOK
<1>5. report'[r].at = "idle" /\ \A q \in Rules : q # r => report'[q] = report[q]
  BY ReportMoves DEF InsertAlert
<1> HIDE DEF alert, A
<1>6. /\ Len(alerts'[r]) = Len(alerts[r]) + 1
      /\ \A i \in 1..Len(alerts[r]) : alerts'[r][i] = alerts[r][i]
      /\ alerts'[r][Len(alerts[r]) + 1] = alert
  BY <1>2, <1>4, Appended
<1>7. /\ Len(alerts[r]) \in Nat
      /\ Len(alerts[r]) = 0 \/ alerts[r] # <<>>
  BY AlertTypes
<1>8. TimeInv'
  <2>1. ASSUME NEW q \in Rules, alerts'[q] # <<>>
        PROVE  /\ alerts'[q][Len(alerts'[q])].created <= now'
               /\ report'[q].at = "insert" =>
                    alerts'[q][Len(alerts'[q])].created + report'[q].row.silence <= now'
    <3>1. CASE q = r
      BY <1>1, <1>3, <1>5, <1>6, <3>1
    <3>2. CASE q # r
      BY <1>1, <1>4, <1>5, <2>1, <3>2 DEF SilenceInv, TimeInv, LastAlert
    <3> QED BY <3>1, <3>2
  <2> QED BY <2>1 DEF TimeInv, LastAlert
<1>9. SilenceIsKept'
  <2>1. ASSUME NEW i \in 2..Len(alerts'[r])
        PROVE  alerts'[r][i].created >= alerts'[r][i - 1].created + alerts'[r][i].silence
    <3>1. CASE i <= Len(alerts[r])
      <4>1. i \in 2..Len(alerts[r]) /\ i \in 1..Len(alerts[r]) /\ i - 1 \in 1..Len(alerts[r])
        BY <1>7, <2>1, <3>1
      <4>2. alerts'[r][i] = alerts[r][i] /\ alerts'[r][i - 1] = alerts[r][i - 1]
        BY <1>6, <4>1
      <4>3. alerts[r][i].created >= alerts[r][i - 1].created + alerts[r][i].silence
        BY <4>1 DEF SilenceInv, SilenceIsKept
      <4> QED BY <4>2, <4>3
    <3>2. CASE i > Len(alerts[r])
      <4>1. i = Len(alerts[r]) + 1 /\ i - 1 = Len(alerts[r]) /\ i - 1 \in 1..Len(alerts[r])
        BY <1>6, <1>7, <2>1, <3>2
      <4>2. alerts'[r][i] = alert /\ alerts'[r][i - 1] = LastAlert(r)
        BY <1>6, <4>1 DEF LastAlert
      <4>3. alerts[r] # <<>>
        BY <1>7, <4>1
      <4>4. LastAlert(r).created \in Nat /\ LastAlert(r).created + report[r].row.silence <= now
        BY <1>1, <4>3, AlertTypes DEF SilenceInv, TimeInv
      <4> QED BY <1>1, <1>3, <4>2, <4>4
    <3> QED BY <1>6, <1>7, <2>1, <3>1, <3>2
  <2>2. ASSUME NEW q \in Rules, q # r, NEW i \in 2..Len(alerts'[q])
        PROVE  alerts'[q][i].created >= alerts'[q][i - 1].created + alerts'[q][i].silence
    BY <1>4, <2>2 DEF SilenceInv, SilenceIsKept
  <2> QED BY <2>1, <2>2 DEF SilenceIsKept
<1> QED BY <1>8, <1>9 DEF SilenceInv

LEMMA SilenceStep == TypeInv /\ SilenceInv /\ [Next]_vars => SilenceInv'
<1> SUFFICES ASSUME TypeOK, SilenceInv, [Next]_vars PROVE SilenceInv'
  BY DEF TypeInv
<1>0. now \in Nat
  BY Bounds, Numbers
<1>1. CASE UNCHANGED <<alerts, report, now>>
  BY <1>0, <1>1, SilenceRests
<1>2. ASSUME NEW r \in Rules, Post(r) \/ ReadRule(r) \/ ReportFails(r)
      PROVE  SilenceInv'
  <2>1. UNCHANGED <<alerts, now>>
    BY <1>2 DEF Post, ReadRule, ReportFails, ReportOnly
  <2>2. \A q \in Rules : report'[q].at = "insert" => report'[q] = report[q]
    BY <1>2, ReportMoves DEF Post, ReadRule, ReportFails
  <2> QED BY <1>0, <2>1, <2>2, SilenceRests
<1>3. CASE TimePasses
  <2>1. UNCHANGED <<alerts, report>> /\ now' \in Nat /\ now' >= now
    BY <1>0, <1>3 DEF TimePasses
  <2> QED BY <2>1, SilenceRests
<1>4. CASE Restart
  <2>1. UNCHANGED <<alerts, now>> /\ \A q \in Rules : report'[q].at = "idle"
    BY <1>4 DEF Restart, NoReport
  <2> QED BY <1>0, <2>1, SilenceRests
<1>5. ASSUME NEW c \in Clients, Step(c) \/ \E r \in Rules : Begin(c, r)
      PROVE  UNCHANGED <<alerts, report, now>>
  BY <1>5 DEF Step, Begin, StoreField, RuleExist, CreateRule, UpdateRule, StoreRule, StartRule,
    RestartRule, MarkStart, StopRule, MarkStop, DropRule, Erase, CallFails, Call, LastWrite,
    UpdateAlertField, UpdateAlertRule, AlertRulesStart, AlertRulesRestart, AlertRulesStop,
    AlertRulesDelete, Request
<1>6. ASSUME Monitor \/ \E r \in Rules : AddAlertRule(r) \/ RuleDies(r)
      PROVE  UNCHANGED <<alerts, report, now>>
  BY <1>6 DEF Monitor, MonitorTick, MonitorWrite, MonitorAsk, AddAlertRule, RuleDies
<1>7. CASE UNCHANGED vars
  BY <1>1, <1>7 DEF vars
<1> QED BY <1>1, <1>2, <1>3, <1>4, <1>5, <1>6, <1>7, SilenceChecked, SilenceInsertion
    DEF Next, AddAlert

\* However many rules, clients, edits, crashes and failing calls there are: no alert is
\* added within the silence time after the one before it (AddAlert), as long as the
\* reports of a rule come one at a time.
THEOREM SilenceKept == Spec => []SilenceIsKept
<1>1. SilenceInv => SilenceIsKept
  BY DEF SilenceInv
<1> QED BY <1>1, TypeInit, TypeStep, SilenceInit, SilenceStep, PTL DEF Spec

(***************************************************************************)
(* What becomes of a report                                                *)
(*                                                                         *)
(* A row is there only while its rule's life says so, and a client works   *)
(* on a rule that has been listed once.                                    *)
(***************************************************************************)
ListedInv ==
  /\ \A r \in Rules : row[r] # Gone => life[r] = "issued"
  /\ \A c \in Clients : pc[c] # "idle" => life[target[c]] # "new"

InHand == {r \in Rules : report[r].at \in {"check", "insert"}}

\* A write of a row, by what it does to those that are there.
LEMMA RowsLeft ==
  ASSUME TypeOK, NEW r \in Rules, NEW new, SetRow(r, new)
  PROVE  \A q \in Rules : row'[q] # Gone => row[q] # Gone
BY DEF TypeOK, SetRow

LEMMA ListedInit == Init => ListedInv
BY DEF Init, ListedInv

\* A step of a request, by what it does to the rows that are there and the clients at work.
LEMMA ListedWork ==
  ASSUME TypeInv, ListedInv, NEW c \in Clients, Answer(c) \/ \E to : GoTo(c, to),
         pc[c] # "idle", UNCHANGED life, \A q \in Rules : row'[q] # Gone => row[q] # Gone
  PROVE  ListedInv'
<1>1. \A d \in Clients : pc'[d] # "idle" => pc[d] # "idle" /\ target'[d] = target[d]
  BY DEF GoTo, Answer, TypeInv, TypeOK
<1> QED BY <1>1 DEF ListedInv

LEMMA ListedStep == TypeInv /\ ListedInv /\ [Next]_vars => ListedInv'
<1> SUFFICES ASSUME TypeInv, ListedInv, [Next]_vars PROVE ListedInv'
  OBVIOUS
<1>1. CASE UNCHANGED <<row, life, pc, target>>
  BY <1>1 DEF ListedInv
<1>2. ASSUME NEW c \in Clients, NEW r \in Rules, Begin(c, r) PROVE ListedInv'
  <2>1. PICK edit, to : Request(c, r, edit, to)
    BY <1>2 DEF Begin, UpdateAlertField, UpdateAlertRule, AlertRulesStart, AlertRulesRestart,
      AlertRulesStop, AlertRulesDelete
  <2>2. UNCHANGED <<row, life>> /\ life[r] = "issued"
    BY <2>1 DEF Request, ListedInv
  <2>3. \A d \in Clients : IF d = c THEN target'[d] = r ELSE pc'[d] = pc[d] /\ target'[d] = target[d]
    BY <2>1 DEF Request, TypeInv, TypeOK
  <2> QED BY <2>2, <2>3 DEF ListedInv
<1>3. ASSUME NEW c \in Clients, Step(c) PROVE ListedInv'
  <2>0. pc[c] # "idle" /\ target[c] \in Rules
    BY <1>3 DEF Step, StoreField, RuleExist, CreateRule, UpdateRule, StoreRule, StartRule, RestartRule,
      MarkStart, StopRule, MarkStop, DropRule, Erase, CallFails, Call, LastWrite, TypeInv, TargetKnown
  <2>1. Answer(c) \/ \E to : GoTo(c, to)
    BY <1>3 DEF Step, StoreField, RuleExist, CreateRule, UpdateRule, StoreRule, StartRule, RestartRule,
      MarkStart, StopRule, MarkStop, DropRule, Erase, CallFails, Call, LastWrite
  <2>2. CASE Erase(c)
    <3>1. /\ row' = [row EXCEPT ![target[c]] = Gone]
          /\ life' = [life EXCEPT ![target[c]] = "erased"]
      BY <2>2 DEF Erase
    <3>2. \A q \in Rules : IF q = target[c] THEN row'[q] = Gone /\ life'[q] = "erased"
                                            ELSE row'[q] = row[q] /\ life'[q] = life[q]
      BY <3>1 DEF TypeInv, TypeOK
    <3>3. \A d \in Clients : pc'[d] # "idle" => pc[d] # "idle" /\ target'[d] = target[d]
      BY <2>1, <2>0 DEF GoTo, Answer, TypeInv, TypeOK
    <3>4. \A d \in Clients : pc[d] # "idle" => target[d] \in Rules
      BY DEF TypeInv, TargetKnown
    <3> QED BY <3>2, <3>3, <3>4 DEF ListedInv
  <2>3. CASE StoreField(c) \/ StoreRule(c) \/ MarkStart(c) \/ MarkStop(c)
    <3>1. UNCHANGED life /\ \E new : SetRow(target[c], new)
      BY <2>3 DEF StoreField, StoreRule, MarkStart, MarkStop, SetStatus
    <3>2. \A q \in Rules : row'[q] # Gone => row[q] # Gone
      BY <2>0, <3>1, RowsLeft DEF TypeInv
    <3> QED BY <2>0, <2>1, <3>1, <3>2, ListedWork
  <2>4. CASE UNCHANGED <<row, life>>
    BY <2>0, <2>1, <2>4, ListedWork
  <2>5. Erase(c) \/ StoreField(c) \/ StoreRule(c) \/ MarkStart(c) \/ MarkStop(c) \/ UNCHANGED <<row, life>>
    BY <1>3 DEF Step, RuleExist, CreateRule, UpdateRule, StartRule, RestartRule, StopRule, DropRule,
      CallFails, Call
  <2> QED BY <2>2, <2>3, <2>4, <2>5
<1>4. ASSUME NEW r \in Rules, AddAlertRule(r) PROVE ListedInv'
  <2>1. UNCHANGED client /\ \A q \in Rules : IF q = r THEN life'[q] = "issued"
                                             ELSE row'[q] = row[q] /\ life'[q] = life[q]
    BY <1>4 DEF AddAlertRule, TypeInv, TypeOK
  <2>2. \A c \in Clients : pc[c] # "idle" => target[c] \in Rules
    BY DEF TypeInv, TargetKnown
  <2> QED BY <2>1, <2>2 DEF ListedInv, client
<1>5. CASE MonitorWrite
  <2>1. UNCHANGED <<life, client>>
    BY <1>5 DEF MonitorWrite
  <2>2. \A q \in Rules : row'[q] # Gone => row[q] # Gone
    <3>1. CASE UNCHANGED row
      BY <3>1
    <3>2. CASE SetStatus(write.rule, write.status)
      <4>1. write.rule \in Rules
        BY <1>5 DEF MonitorWrite, TypeInv, TypeOK
      <4> QED BY <3>2, <4>1, RowsLeft DEF SetStatus, TypeInv
    <3> QED BY <1>5, <3>1, <3>2 DEF MonitorWrite
  <2> QED BY <2>1, <2>2 DEF ListedInv, client
<1>6. CASE Restart
  BY <1>6 DEF Restart, ListedInv
<1>7. ASSUME MonitorTick \/ TimePasses \/ \E r \in Rules : AddAlert(r) \/ RuleDies(r) \/ MonitorAsk(r)
      PROVE  UNCHANGED <<row, life, pc, target>>
  BY <1>7 DEF MonitorTick, TimePasses, AddAlert, Post, ReadRule, CheckSilence, InsertAlert, ReportFails,
    ReportOnly, RuleDies, MonitorAsk, client
<1>8. CASE UNCHANGED vars
  BY <1>1, <1>8 DEF vars
<1> QED BY <1>1, <1>2, <1>3, <1>4, <1>5, <1>6, <1>7, <1>8 DEF Next, Monitor

LEMMA ReportFound ==
  ASSUME TypeInv, ListedInv, NEW r \in Rules, ReadRule(r)
  PROVE  [TA!Next]_(TA!vars)
<1>1. report[r].at = "read" /\ UNCHANGED <<life, alerts, now>>
  BY DEF ReadRule, ReportOnly
<1>2. CASE Found(r)
  <2>1. report'[r].at = "check" /\ \A q \in Rules : q # r => report'[q] = report[q]
    BY <1>2, ReportMoves DEF ReadRule, TypeInv
  <2>2. r \notin InHand /\ InHand' = InHand \cup {r}
    BY <1>1, <2>1 DEF InHand
  <2>3. life[r] = "issued"
    BY <1>2 DEF Found, ListedInv
  <2>4. TA!Find(r)
    BY <1>1, <2>2, <2>3 DEF TA!Find, InHand
  <2> QED BY <2>4 DEF TA!Next
<1>3. CASE ~Found(r)
  <2>1. report'[r].at = "idle" /\ \A q \in Rules : q # r => report'[q] = report[q]
    BY <1>3, ReportMoves DEF ReadRule, TypeInv
  <2>2. InHand' = InHand
    BY <1>1, <2>1 DEF InHand
  <2> QED BY <1>1, <2>2 DEF TA!vars, InHand
<1> QED BY <1>2, <1>3

\* Reports that leave the hands of AddAlert, and those that stay.
LEMMA ReportForgotten ==
  ASSUME InHand' \subseteq InHand, UNCHANGED <<life, alerts, now>>
  PROVE  TA!Next
<1>1. InHand' = InHand \ (InHand \ InHand') /\ InHand \ InHand' \in SUBSET InHand
  OBVIOUS
<1>2. \E some \in SUBSET InHand : InHand' = InHand \ some
  BY <1>1
<1>3. TA!Forget
  BY <1>2 DEF TA!Forget, InHand
<1> QED BY <1>3 DEF TA!Next

LEMMA AlertRaised ==
  ASSUME TypeInv, SilenceInv, NEW r \in Rules, InsertAlert(r)
  PROVE  TA!Next
<1> DEFINE s == report[r].row.silence
<1>1. report[r].at = "insert" /\ UNCHANGED <<life, now>>
      /\ alerts' = [alerts EXCEPT ![r] = Append(@, [created |-> now, silence |-> s])]
  BY DEF InsertAlert, ReportOnly
<1>2. report'[r].at = "idle" /\ \A q \in Rules : q # r => report'[q] = report[q]
  BY ReportMoves DEF InsertAlert, TypeInv
<1>3. r \in InHand /\ InHand' = InHand \ {r}
  BY <1>1, <1>2 DEF InHand
<1>4. s \in Times
  BY DEF TypeInv, TypeOK, Rows
<1> HIDE DEF s
<1>5. TA!Passed(r, s)
  BY <1>1 DEF SilenceInv, TimeInv, LastAlert, TA!Passed, s
<1>6. \E t \in Times :
        /\ TA!Passed(r, t)
        /\ alerts' = [alerts EXCEPT ![r] = Append(@, [created |-> now, silence |-> t])]
  BY <1>1, <1>4, <1>5
<1>7. TA!Raise(r)
  BY <1>1, <1>3, <1>6 DEF TA!Raise, InHand
<1> QED BY <1>7 DEF TA!Next

LEMMA RuleListed ==
  ASSUME NEW r \in Rules, AddAlertRule(r)
  PROVE  TA!Next
<1>1. TA!List(r)
  BY DEF AddAlertRule, TA!List, TA!Becomes
<1> QED BY <1>1 DEF TA!Next

LEMMA RuleUnlisted ==
  ASSUME TypeInv, ListedInv, NEW c \in Clients, Erase(c)
  PROVE  [TA!Next]_(TA!vars)
<1>1. PICK r \in Rules : r = target[c]
  BY DEF Erase, LastWrite, TypeInv, TargetKnown
<1>2. /\ life[r] # "new" /\ life' = [life EXCEPT ![r] = "erased"]
      /\ UNCHANGED <<report, alerts, now>>
  BY <1>1 DEF Erase, LastWrite, ListedInv
<1>3. CASE life[r] = "erased"
  <2>1. life' = life
    BY <1>2, <1>3 DEF TypeInv, TypeOK
  <2> QED BY <1>2, <2>1 DEF TA!vars
<1>4. CASE life[r] = "issued"
  <2>1. TA!Unlist(r)
    BY <1>2, <1>4 DEF TA!Unlist, TA!Becomes
  <2> QED BY <2>1 DEF TA!Next
<1>5. life[r] \in {"new", "issued", "erased"}
  BY DEF TypeInv, TypeOK
<1> QED BY <1>2, <1>3, <1>4, <1>5

LEMMA NextThrottled ==
  ASSUME TypeInv, SilenceInv, ListedInv, [Next]_vars
  PROVE  [TA!Next]_(TA!vars)
<1>1. ASSUME UNCHANGED <<life, report, alerts, now>> PROVE UNCHANGED TA!vars
  BY <1>1 DEF TA!vars
<1>2. ASSUME NEW c \in Clients, Step(c) \/ \E r \in Rules : Begin(c, r)
      PROVE  Erase(c) \/ UNCHANGED <<life, report, alerts, now>>
  BY <1>2 DEF Step, Begin, StoreField, RuleExist, CreateRule, UpdateRule, StoreRule, StartRule,
    RestartRule, MarkStart, StopRule, MarkStop, DropRule, CallFails, Call, LastWrite,
    UpdateAlertField, UpdateAlertRule, AlertRulesStart, AlertRulesRestart, AlertRulesStop,
    AlertRulesDelete, Request
<1>3. ASSUME Monitor \/ UNCHANGED vars \/ \E r \in Rules : RuleDies(r)
      PROVE  UNCHANGED <<life, report, alerts, now>>
  BY <1>3 DEF Monitor, MonitorTick, MonitorWrite, MonitorAsk, RuleDies, vars
<1>4. ASSUME NEW r \in Rules, Post(r) \/ CheckSilence(r) \/ ReportFails(r)
      PROVE  TA!Next
  <2>1. UNCHANGED <<life, alerts, now>>
    BY <1>4 DEF Post, CheckSilence, ReportFails, ReportOnly
  <2>2. /\ report'[r].at \in {"check", "insert"} => report[r].at \in {"check", "insert"}
        /\ \A q \in Rules : q # r => report'[q] = report[q]
    BY <1>4, ReportMoves DEF Post, CheckSilence, ReportFails, TypeInv
  <2>3. InHand' \subseteq InHand
    BY <2>2 DEF InHand
  <2> QED BY <2>1, <2>3, ReportForgotten
<1>5. ASSUME Restart PROVE TA!Next
  <2>1. InHand' \subseteq InHand
    BY <1>5 DEF Restart, InHand, NoReport
  <2> QED BY <1>5, <2>1, ReportForgotten DEF Restart
<1>6. ASSUME TimePasses PROVE TA!Next
  <2>1. TA!Tick
    BY <1>6 DEF TimePasses, TA!Tick
  <2> QED BY <2>1 DEF TA!Next
<1> QED BY <1>1, <1>2, <1>3, <1>4, <1>5, <1>6, ReportFound, AlertRaised, RuleListed, RuleUnlisted
    DEF Next, AddAlert

\* However many rules, clients, edits, crashes and failing calls there are: the list of
\* alerts is what ThrottledAlerts promises, one alert at most for each report that has
\* found its rule, none for a rule that is gone when its report comes, none too soon.
THEOREM ImplementsThrottledAlerts == Spec => ThrottledSpec
<1>1. Init => TA!Init
  <2> SUFFICES ASSUME Init PROVE TA!Init
    OBVIOUS
  <2>1. {r \in Rules : report[r].at \in {"check", "insert"}} = {}
    BY DEF Init, NoReport
  <2> QED BY <2>1 DEF Init, TA!Init
<1> QED BY <1>1, TypeInit, TypeStep, SilenceInit, SilenceStep, ListedInit, ListedStep, NextThrottled, PTL
    DEF Spec, ThrottledSpec, TA!Spec

(***************************************************************************)
(* Reports and conditions                                                  *)
(*                                                                         *)
(* A row loses its condition only to an UpdateAlertField that had read it  *)
(* without one, and its rule is lost then.  A rule is started only when    *)
(* its row has a condition, and a deleted row does not come back.          *)
(***************************************************************************)
Editing == {"lookup", "create", "replace", "store"}

\* An id nobody has drawn is nowhere.
LifeInv ==
  \A r \in Rules :
    /\ row[r] # Gone => life[r] = "issued"
    /\ life[r] = "new" =>
         /\ rule[r] = "absent"
         /\ report[r].at = "idle"
         /\ \A c \in Clients : target[c] # r

\* What an edit of the rule will write has a condition.
EditInv == \A c \in Clients : pc[c] \in Editing => asked[c].cond # "none"

\* A rule that is not lost, and runs, is being started or reports, has a condition, or
\* no row.
CondInv ==
  \A r \in Rules \ lost :
    \/ row[r] = Gone
    \/ row[r].cond # "none"
    \/ /\ rule[r] # "running"
       /\ report[r].at # "read"
       /\ \A c \in Clients : target[c] = r => pc[c] \notin {"startRule", "restartRule"}

ReportInv == LifeInv /\ EditInv /\ CondInv /\ ReportsFindConditions

LEMMA ReportInit == Init => ReportInv
BY NoRuleAssumption DEF Init, NoReport, Editing, ReportInv, LifeInv, EditInv, CondInv, ReportsFindConditions

LEMMA ReportBegin ==
  ASSUME ClientTypes, ReportInv, NEW c \in Clients, NEW r \in Rules, NEW edit, NEW to \in Steps,
         Request(c, r, edit, to),
         to \in Editing => edit.cond # "none",
         to \in {"startRule", "restartRule"} => row[r].cond # "none"
  PROVE  ReportInv'
<1>1. /\ UNCHANGED <<row, lost, life, rule, report>>
      /\ pc'[c] = to /\ target'[c] = r /\ asked'[c] = edit /\ seen'[c] = row[r]
      /\ \A d \in Clients : d # c => /\ pc'[d] = pc[d] /\ target'[d] = target[d]
                                     /\ asked'[d] = asked[d] /\ seen'[d] = seen[d]
      /\ row[r] # Gone
  BY DEF Request, ClientTypes
<1>2. life[r] = "issued"
  BY <1>1 DEF ReportInv, LifeInv
<1>3. LifeInv'
  BY <1>1, <1>2 DEF ReportInv, LifeInv
<1>4. EditInv'
  BY <1>1 DEF ReportInv, EditInv
<1>5. CondInv'
  BY <1>1 DEF ReportInv, CondInv
<1>6. ReportsFindConditions'
  BY <1>1 DEF ReportInv, ReportsFindConditions
<1> QED BY <1>3, <1>4, <1>5, <1>6 DEF ReportInv

\* The request of c goes on, or is answered, without a change of the rows.
LEMMA ReportMovesOn ==
  ASSUME ClientTypes, ReportInv, NEW c \in Clients, NEW to \in Steps,
         UNCHANGED <<row, lost, life, report>>,
         GoTo(c, to) \/ (to = "idle" /\ Answer(c)),
         to \notin {"startRule", "restartRule"},
         to \in Editing => pc[c] \in Editing,
         \A r \in Rules : life[r] = "new" => rule'[r] = "absent",
         \A r \in Rules \ lost : rule'[r] = "running" =>
           rule[r] = "running" \/ row[r] = Gone \/ row[r].cond # "none"
  PROVE  ReportInv'
<1>1. /\ pc'[c] = to
      /\ \A d \in Clients : d # c => /\ pc'[d] = pc[d] /\ target'[d] = target[d]
                                     /\ asked'[d] = asked[d] /\ seen'[d] = seen[d]
      /\ to # "idle" => target'[c] = target[c] /\ asked'[c] = asked[c] /\ seen'[c] = seen[c]
      /\ target'[c] \in {target[c], NoRule}
  BY DEF GoTo, Answer, ClientTypes
<1>2. LifeInv'
  BY <1>1, NoRuleAssumption DEF ReportInv, LifeInv
<1>3. EditInv'
  BY <1>1 DEF ReportInv, EditInv, Editing
<1>4. CondInv'
  BY <1>1 DEF ReportInv, CondInv
<1>5. ReportsFindConditions'
  BY DEF ReportInv, ReportsFindConditions
<1> QED BY <1>2, <1>3, <1>4, <1>5 DEF ReportInv

LEMMA ReportCall ==
  ASSUME TypeInv, ReportInv, NEW c \in Clients, NEW at \in Steps \ {"idle"}, NEW accepted,
         NEW outcomes, NEW to \in Steps, Call(c, at, accepted, outcomes, to),
         to \notin {"startRule", "restartRule"},
         to \in Editing => at \in Editing,
         "running" \in outcomes =>
           rule[target[c]] = "running" \/ at \in {"startRule", "restartRule"}
  PROVE  ReportInv'
<1> ClientTypes
  BY TypesOfClients
<1>1. /\ target[c] \in Rules
      /\ pc[c] = at
      /\ UNCHANGED <<row, lost, life, report>>
      /\ GoTo(c, to) \/ Answer(c)
      /\ \A r \in Rules : r # target[c] => rule'[r] = rule[r]
      /\ rule'[target[c]] \in outcomes \cup {rule[target[c]]}
  BY DEF ClientTypes, TargetKnown, Call, TypeInv, TypeOK
<1>2. \A r \in Rules : life[r] = "new" => rule'[r] = "absent"
  BY <1>1 DEF ReportInv, LifeInv
<1>3. ASSUME NEW r \in Rules \ lost, rule'[r] = "running"
      PROVE  rule[r] = "running" \/ row[r] = Gone \/ row[r].cond # "none"
  BY <1>1, <1>3 DEF ReportInv, CondInv
<1>4. CASE GoTo(c, to)
  BY <1>1, <1>2, <1>3, <1>4, ReportMovesOn
<1>5. CASE Answer(c)
  BY <1>1, <1>2, <1>3, <1>5, ReportMovesOn, Names DEF Editing
<1> QED BY <1>1, <1>4, <1>5

\* A write to a row that keeps its condition, gives it one, erases it or loses it.
LEMMA ReportWrite ==
  ASSUME TypeInv, ReportInv, NEW c \in Clients, pc[c] # "idle", Answer(c),
         UNCHANGED <<rule, report>>,
         \A r \in Rules : r # target[c] => row'[r] = row[r] /\ life'[r] = life[r],
         life'[target[c]] \in {life[target[c]], "erased"}, lost \subseteq lost',
         \/ row'[target[c]] = Gone
         \/ /\ row[target[c]] # Gone
            /\ UNCHANGED life
            /\ \/ row'[target[c]].cond = row[target[c]].cond
               \/ row'[target[c]].cond # "none"
               \/ target[c] \in lost'
  PROVE  ReportInv'
<1> ClientTypes
  BY TypesOfClients
<1>1. /\ target[c] \in Rules
      /\ pc'[c] = "idle" /\ target'[c] = NoRule
      /\ \A d \in Clients : d # c => /\ pc'[d] = pc[d] /\ target'[d] = target[d]
                                     /\ asked'[d] = asked[d] /\ seen'[d] = seen[d]
  BY DEF Answer, ClientTypes, TargetKnown
<1>2. LifeInv'
  <2>1. ASSUME NEW r \in Rules, r = target[c]
        PROVE  /\ row'[r] # Gone => life'[r] = "issued"
               /\ life'[r] # "new"
    BY <1>1, <2>1 DEF ReportInv, LifeInv
  <2>2. ASSUME NEW r \in Rules, r # target[c]
        PROVE  /\ row'[r] # Gone => life'[r] = "issued"
               /\ life'[r] = "new" => /\ rule'[r] = "absent"
                                      /\ report'[r].at = "idle"
                                      /\ \A d \in Clients : target'[d] # r
    BY <1>1, <2>2, NoRuleAssumption DEF ReportInv, LifeInv
  <2> QED BY <2>1, <2>2 DEF LifeInv
<1>3. EditInv'
  BY <1>1 DEF ReportInv, EditInv, Editing
<1>4. CondInv'
  <2>1. ASSUME NEW r \in Rules \ lost', r = target[c], row'[r] # Gone, row'[r].cond = "none"
        PROVE  row[r] # Gone /\ row[r].cond = "none"
    BY <2>1
  <2>2. ASSUME NEW r \in Rules \ lost', row[r] # Gone, row[r].cond = "none"
        PROVE  /\ rule'[r] # "running" /\ report'[r].at # "read"
               /\ \A d \in Clients : target'[d] = r => pc'[d] \notin {"startRule", "restartRule"}
    BY <1>1, <2>2 DEF ReportInv, CondInv
  <2>3. ASSUME NEW r \in Rules, r # target[c], row'[r] # Gone, row'[r].cond = "none"
        PROVE  row[r] # Gone /\ row[r].cond = "none"
    BY <2>3
  <2> QED BY <2>1, <2>2, <2>3 DEF CondInv
<1>5. ReportsFindConditions'
  BY DEF ReportInv, ReportsFindConditions
<1> QED BY <1>2, <1>3, <1>4, <1>5 DEF ReportInv

LEMMA StatusKeeps ==
  ASSUME TypeOK, NEW r \in Rules, NEW s, SetStatus(r, s)
  PROVE  /\ \A q \in Rules : q # r => row'[q] = row[q]
         /\ row[r] = Gone => row'[r] = Gone
         /\ row'[r].cond = row[r].cond
<1> DEFINE new == [status |-> s, cond |-> row[r].cond, silence |-> row[r].silence]
<1>1. row' = [row EXCEPT ![r] = IF row[r] = Gone THEN row[r] ELSE new]
  BY DEF SetStatus, SetRow
<1>2. new.cond = row[r].cond
  OBVIOUS
<1>3. row \in [Rules -> Rows]
  BY DEF TypeOK
<1> HIDE DEF new
<1> QED BY <1>1, <1>2, <1>3

LEMMA ReportStep ==
  ASSUME TypeInv, ReportInv, NEW c \in Clients, Step(c)
  PROVE  ReportInv'
<1> ClientTypes
  BY TypesOfClients
<1>1. CASE CreateRule(c) \/ StopRule(c) \/ DropRule(c)
  BY <1>1, ReportCall, Names DEF CreateRule, StopRule, DropRule, Editing
<1>2. CASE UpdateRule(c)
  BY <1>2, ReportCall, Names DEF UpdateRule, Editing
<1>3. CASE StartRule(c) \/ RestartRule(c)
  BY <1>3, ReportCall, Names DEF StartRule, RestartRule, Editing
<1>4. CASE RuleExist(c)
  <2>1. PICK to \in {"replace", "create"} : GoTo(c, to)
    BY <1>4 DEF RuleExist
  <2>2. /\ pc[c] = "lookup" /\ UNCHANGED <<row, lost, life, rule, report>>
        /\ \A r \in Rules : life[r] = "new" => rule'[r] = "absent"
    BY <1>4 DEF RuleExist, ReportInv, LifeInv
  <2> QED BY <2>1, <2>2, ReportMovesOn, Names DEF Editing
<1>5. CASE StoreField(c) \/ StoreRule(c)
  <2>1. /\ pc[c] \in {"store", "storeField"} /\ Answer(c) /\ UNCHANGED <<rule, report, life>>
        /\ target[c] \in Rules /\ lost \subseteq lost'
    BY <1>5 DEF StoreField, StoreRule, LastWrite, ClientTypes, TargetKnown
  <2>2. PICK new : /\ SetRow(target[c], new)
                   /\ new.cond # "none" \/ row[target[c]].cond = new.cond \/ target[c] \in lost'
    <3>1. CASE StoreField(c)
      BY <3>1 DEF StoreField, Undone
    <3>2. CASE StoreRule(c)
      <4>1. asked[c].cond # "none"
        BY <3>2 DEF StoreRule, LastWrite, ReportInv, EditInv, Editing
      <4> QED BY <3>2, <4>1 DEF StoreRule
    <3> QED BY <1>5, <3>1, <3>2
  <2>3. /\ \A r \in Rules : r # target[c] => row'[r] = row[r]
        /\ row'[target[c]] = IF row[target[c]] = Gone THEN Gone ELSE new
    BY <2>1, <2>2 DEF SetRow, TypeInv, TypeOK
  <2> QED BY <2>1, <2>2, <2>3, ReportWrite
<1>6. CASE MarkStart(c) \/ MarkStop(c)
  <2>1. /\ pc[c] \in {"markStart", "markStop"} /\ Answer(c) /\ UNCHANGED <<rule, report, life, lost>>
        /\ target[c] \in Rules
    BY <1>6 DEF MarkStart, MarkStop, LastWrite, ClientTypes, TargetKnown
  <2>2. /\ \A r \in Rules : r # target[c] => row'[r] = row[r]
        /\ \/ row'[target[c]] = Gone
           \/ row[target[c]] # Gone /\ row'[target[c]].cond = row[target[c]].cond
    BY <1>6, <2>1, StatusKeeps DEF MarkStart, MarkStop, TypeInv
  <2> QED BY <2>1, <2>2, ReportWrite
<1>7. CASE Erase(c)
  <2>1. /\ pc[c] = "erase" /\ Answer(c) /\ UNCHANGED <<lost, rule, report>> /\ target[c] \in Rules
    BY <1>7 DEF Erase, LastWrite, ClientTypes, TargetKnown
  <2>2. /\ \A r \in Rules : r # target[c] => row'[r] = row[r] /\ life'[r] = life[r]
        /\ row'[target[c]] = Gone /\ life'[target[c]] = "erased"
    BY <1>7, <2>1 DEF Erase, TypeInv, TypeOK
  <2> QED BY <2>1, <2>2, ReportWrite
<1>8. CASE CallFails(c)
  <2>1. Answer(c) /\ UNCHANGED <<row, lost, life, rule, report>>
    BY <1>8 DEF CallFails
  <2>2. \A r \in Rules : life[r] = "new" => rule'[r] = "absent"
    BY <2>1 DEF ReportInv, LifeInv
  <2> QED BY <2>1, <2>2, ReportMovesOn, Names DEF Editing
<1> QED BY <1>1, <1>2, <1>3, <1>4, <1>5, <1>6, <1>7, <1>8 DEF Step

\* AddAlert for r: it reads a row with a condition, since a rule that runs has one.
LEMMA ReportAddAlert ==
  ASSUME TypeInv, ReportInv, NEW r \in Rules, AddAlert(r)
  PROVE  ReportInv'
<1> TypeOK
  BY DEF TypeInv
<1>1. UNCHANGED <<row, lost, life, rule, pc, target, asked, seen>>
  BY DEF AddAlert, Post, ReadRule, CheckSilence, InsertAlert, ReportFails, ReportOnly, client
<1>2. \A q \in Rules : q # r => report'[q] = report[q]
  BY ReportMoves DEF AddAlert, Post, ReadRule, CheckSilence, InsertAlert, ReportFails
<1>3. /\ report'[r].at # "idle" => life[r] # "new"
      /\ report'[r].at = "read" => rule[r] = "running"
      /\ (r \notin lost /\ report'[r].at \in {"check", "insert"}) => report'[r].row.cond # "none"
  <2>1. CASE Post(r)
    BY <2>1, ReportMoves DEF Post, ReportInv, LifeInv
  <2>2. CASE ReadRule(r)
    BY <2>2, ReportMoves DEF ReadRule, Found, ReportInv, LifeInv, CondInv
  <2>3. CASE CheckSilence(r)
    BY <2>3, ReportMoves DEF CheckSilence, ReportInv, LifeInv, ReportsFindConditions
  <2>4. CASE InsertAlert(r) \/ ReportFails(r)
    BY <2>4, ReportMoves DEF InsertAlert, ReportFails
  <2> QED BY <2>1, <2>2, <2>3, <2>4 DEF AddAlert
<1>4. LifeInv'
  BY <1>1, <1>2, <1>3 DEF ReportInv, LifeInv
<1>5. EditInv'
  BY <1>1 DEF ReportInv, EditInv
<1>6. CondInv'
  BY <1>1, <1>2, <1>3 DEF ReportInv, CondInv
<1>7. ReportsFindConditions'
  BY <1>1, <1>2, <1>3 DEF ReportInv, ReportsFindConditions
<1> QED BY <1>4, <1>5, <1>6, <1>7 DEF ReportInv

LEMMA ReportMonitor ==
  ASSUME TypeInv, ReportInv, MonitorWrite
  PROVE  ReportInv'
<1>1. UNCHANGED <<lost, life, rule, report, pc, target, asked, seen>>
  BY DEF MonitorWrite, client
<1>2. \A r \in Rules : row'[r] = row[r] \/ (row[r] # Gone /\ row'[r].cond = row[r].cond)
  <2>1. CASE SetStatus(write.rule, write.status)
    <3>1. write.rule \in Rules
      BY DEF MonitorWrite, TypeInv, TypeOK
    <3> QED BY <2>1, <3>1, StatusKeeps DEF TypeInv
  <2>2. CASE UNCHANGED row
    BY <2>2
  <2> QED BY <2>1, <2>2 DEF MonitorWrite
<1>3. LifeInv'
  BY <1>1, <1>2 DEF ReportInv, LifeInv
<1>4. EditInv'
  <2>1. \A c \in Clients : pc[c] # "idle" => target[c] \in Rules
    BY DEF TypeInv, TargetKnown
  <2> QED BY <1>1, <1>2, <2>1 DEF ReportInv, EditInv
<1>5. CondInv'
  BY <1>1, <1>2 DEF ReportInv, CondInv
<1>6. ReportsFindConditions'
  BY <1>1 DEF ReportInv, ReportsFindConditions
<1> QED BY <1>3, <1>4, <1>5, <1>6 DEF ReportInv

LEMMA ReportAdd ==
  ASSUME TypeInv, ReportInv, NEW r \in Rules, AddAlertRule(r)
  PROVE  ReportInv'
<1>1. /\ UNCHANGED <<lost, rule, report, pc, target, asked, seen>>
      /\ life[r] = "new" /\ life'[r] = "issued"
      /\ \A q \in Rules : q # r => row'[q] = row[q] /\ life'[q] = life[q]
  BY DEF AddAlertRule, client, TypeInv, TypeOK
<1>2. rule[r] = "absent" /\ report[r].at = "idle" /\ \A c \in Clients : target[c] # r
  BY <1>1 DEF ReportInv, LifeInv
<1>3. LifeInv'
  BY <1>1, <1>2 DEF ReportInv, LifeInv
<1>4. EditInv'
  <2>1. \A c \in Clients : pc[c] # "idle" => target[c] \in Rules
    BY DEF TypeInv, TargetKnown
  <2> QED BY <1>1, <1>2, <2>1 DEF ReportInv, EditInv
<1>5. CondInv'
  BY <1>1, <1>2 DEF ReportInv, CondInv
<1>6. ReportsFindConditions'
  BY <1>1 DEF ReportInv, ReportsFindConditions
<1> QED BY <1>3, <1>4, <1>5, <1>6 DEF ReportInv

LEMMA ReportNext ==
  TypeInv /\ ReportInv /\ [Next]_vars => ReportInv'
<1> SUFFICES ASSUME TypeInv, ReportInv, [Next]_vars PROVE ReportInv'
  OBVIOUS
<1> ClientTypes
  BY TypesOfClients
<1>1. ASSUME NEW c \in Clients, NEW r \in Rules, Begin(c, r) PROVE ReportInv'
  <2>1. CASE UpdateAlertField(c, r)
    BY <2>1, ReportBegin, Names DEF UpdateAlertField, Editing
  <2>2. CASE UpdateAlertRule(c, r)
    <3>1. PICK cond \in {"data", "other"}, silence \in Silences :
            Request(c, r, [cond |-> cond, silence |-> silence], "lookup")
      BY <2>2 DEF UpdateAlertRule
    <3>2. [cond |-> cond, silence |-> silence].cond # "none"
      OBVIOUS
    <3> QED BY <2>2, <3>1, <3>2, ReportBegin, Names
  <2>3. CASE AlertRulesStart(c, r) \/ AlertRulesRestart(c, r)
    BY <2>3, ReportBegin, Names DEF AlertRulesStart, AlertRulesRestart, Complete, Editing
  <2>4. CASE AlertRulesStop(c, r) \/ AlertRulesDelete(c, r)
    BY <2>4, ReportBegin, Names DEF AlertRulesStop, AlertRulesDelete, Editing
  <2> QED BY <1>1, <2>1, <2>2, <2>3, <2>4 DEF Begin
<1>2. CASE UNCHANGED <<row, lost, life, rule, report, pc, target, asked, seen>>
  <2>1. LifeInv' /\ EditInv' /\ CondInv' /\ ReportsFindConditions'
    BY <1>2 DEF ReportInv, LifeInv, EditInv, CondInv, ReportsFindConditions
  <2> QED BY <2>1 DEF ReportInv
<1>3. ASSUME TimePasses \/ MonitorTick \/ \E r \in Rules : MonitorAsk(r)
      PROVE  ReportInv'
  BY <1>2, <1>3 DEF TimePasses, MonitorTick, MonitorAsk, client
<1>4. ASSUME NEW r \in Rules, RuleDies(r) PROVE ReportInv'
  <2>1. /\ UNCHANGED <<row, lost, life, report, pc, target, asked, seen>>
        /\ rule[r] = "running" /\ rule'[r] = "stopped"
        /\ \A q \in Rules : q # r => rule'[q] = rule[q]
    BY <1>4 DEF RuleDies, client, TypeInv, TypeOK
  <2>2. LifeInv' /\ EditInv' /\ CondInv' /\ ReportsFindConditions'
    BY <2>1 DEF ReportInv, LifeInv, EditInv, CondInv, ReportsFindConditions
  <2> QED BY <2>2 DEF ReportInv
<1>5. CASE Restart
  <2>1. /\ UNCHANGED <<row, lost, life, rule>>
        /\ \A r \in Rules : report'[r].at = "idle"
        /\ \A c \in Clients : pc'[c] = "idle" /\ target'[c] = NoRule
    BY <1>5 DEF Restart, NoReport
  <2>2. LifeInv' /\ EditInv' /\ CondInv' /\ ReportsFindConditions'
    BY <2>1, NoRuleAssumption DEF ReportInv, LifeInv, EditInv, CondInv, ReportsFindConditions, Editing
  <2> QED BY <2>2 DEF ReportInv
<1>6. CASE UNCHANGED vars
  BY <1>2, <1>6 DEF vars
<1> QED BY <1>1, <1>3, <1>4, <1>5, <1>6, ReportStep, ReportAddAlert, ReportMonitor, ReportAdd
    DEF Next, Monitor

\* However many clients edit and operate the rules, through crashes, failing calls and
\* lost replies: the row that AddAlert reads for a report has a condition, whose
\* SubRule[0] it takes without a look (alertapp.go:776), unless an UpdateAlertField that
\* had read the row without one has undone it.
THEOREM ConditionsFound == Spec => []ReportsFindConditions
<1>1. ReportInv => ReportsFindConditions
  BY DEF ReportInv
<1> QED BY <1>1, TypeInit, TypeStep, ReportInit, ReportNext, PTL DEF Spec
=============================================================================
