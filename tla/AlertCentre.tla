---------------------------- MODULE AlertCentre ------------------------------
(***************************************************************************)
(* alertapp.go and alertcentreapp/monitor.go: alert rules and the alerts   *)
(* they raise.  A rule is a row in the database and a rule in eKuiper,     *)
(* another process, which posts a report to AddAlert whenever a device     *)
(* meets the rule's condition.  AddAlert reads the row, looks whether the  *)
(* rule's last alert is recent, and adds one to the list.  Requests change *)
(* both stores meanwhile, and a goroutine copies what eKuiper says to the  *)
(* rows.                                                                   *)
(*                                                                         *)
(* A condition is a trigger on data, which AlertRulesRestart restarts in   *)
(* eKuiper, or another one, which it does not.  Products and devices stay. *)
(***************************************************************************)
EXTENDS Naturals, Sequences

CONSTANTS
  Clients,     \* the HTTP clients, each with one request at a time
  Rules,       \* rule ids
  Silences,    \* the silence times that edits ask for, 0 among them
  Faults,      \* what may go wrong: some of "crash", "call" (to eKuiper), "db", "rule"
  MaxRequests, \* bound: the requests in a behaviour
  MaxFaults,   \* bound: the faults in a behaviour
  MaxTime,     \* bound: the clock
  MaxAlerts    \* bound: the alerts of a rule

ASSUME AlertCentreAssumption ==
  /\ Silences \subseteq Nat
  /\ Faults \subseteq {"crash", "call", "db", "rule"}
  /\ {MaxRequests, MaxFaults, MaxTime, MaxAlerts} \subseteq Nat

NoRule == "no rule"
ASSUME NoRuleAssumption == NoRule \notin Rules

VARIABLES
  row,     \* the alert_rule table: status, condition and silence time
  lost,    \* the rules whose condition an edit of an older row has undone (history)
  life,    \* whether an id has been drawn for a rule, and the rule deleted since
  rule,    \* eKuiper: what the rule of that id does
  alerts,  \* the alert_list table: each rule's alerts, the newest last
  report,  \* AddAlert for each rule: where it is, and the row it has read
  pc,      \* where each client's request is,
  target,  \* the rule it is about,
  asked,   \* the silence time an edit asks for,
  seen,    \* and the row it has read
  todo, snapshot, write,  \* the monitor, as in RuleSync
  now, requests, faults   \* the time, and how many requests and faults there have been

vars == <<row, lost, life, rule, alerts, report, pc, target, asked, seen, todo, snapshot, write,
          now, requests, faults>>
client  == <<pc, target, asked, seen>>
monitor == <<todo, snapshot, write>>

Conditions == {"none", "data", "other"}
Times == Silences \cup {0}
Gone == [status |-> "gone", cond |-> "none", silence |-> 0]
Rows == [status : {"gone", "", "stopped", "running"}, cond : Conditions, silence : Times]
RuleStates == {"absent", "stopped", "running"}
Steps == {"idle", "lookup", "create", "replace", "store", "storeField", "startRule",
          "restartRule", "markStart", "stopRule", "markStop", "dropRule", "erase"}
NoReport == [at |-> "idle", row |-> Gone]
NoWrite == [rule |-> NoRule, status |-> "stopped"]

TypeOK ==
  /\ row \in [Rules -> Rows]
  /\ lost \subseteq Rules
  /\ life \in [Rules -> {"new", "issued", "erased"}]
  /\ rule \in [Rules -> RuleStates]
  /\ alerts \in [Rules -> Seq([created : 0..MaxTime, silence : Times])]
  /\ report \in [Rules -> [at : {"idle", "read", "check", "insert"}, row : Rows]]
  /\ pc \in [Clients -> Steps]
  /\ target \in [Clients -> Rules \cup {NoRule}]
  /\ asked \in [Clients -> [cond : Conditions, silence : Times]]
  /\ seen \in [Clients -> Rows]
  /\ todo \subseteq Rules
  /\ snapshot \in [Rules -> {"gone", "", "stopped", "running"}]
  /\ write \in [rule : Rules, status : {"stopped", "running"}] \cup {NoWrite}
  /\ now \in 0..MaxTime
  /\ requests \in 0..MaxRequests
  /\ faults \in 0..MaxFaults

NoEdit == [cond |-> "none", silence |-> 0]

\* The bounded environment: a fault of kind f uses up one.
Fault(f) == f \in Faults /\ faults < MaxFaults /\ faults' = faults + 1

\* Writes of a row, or of its status; for a row that is gone they do nothing.
SetRow(r, new) == row' = [row EXCEPT ![r] = IF @ = Gone THEN @ ELSE new]
SetStatus(r, status) == SetRow(r, [status |-> status, cond |-> row[r].cond, silence |-> row[r].silence])

\* A handler's first step reads the row of r.  Requests it refuses there are no steps.
Request(c, r, edit, to) ==
  /\ pc[c] = "idle"
  /\ requests < MaxRequests
  /\ row[r] # Gone
  /\ requests' = requests + 1
  /\ pc' = [pc EXCEPT ![c] = to]
  /\ target' = [target EXCEPT ![c] = r]
  /\ asked' = [asked EXCEPT ![c] = edit]
  /\ seen' = [seen EXCEPT ![c] = row[r]]
  /\ UNCHANGED <<row, lost, life, rule, alerts, report, monitor, now, faults>>

\* The request of c goes on at step `to', or is answered.
GoTo(c, to) == pc' = [pc EXCEPT ![c] = to] /\ UNCHANGED <<target, asked, seen>>
Answer(c) ==
  /\ pc' = [pc EXCEPT ![c] = "idle"]
  /\ target' = [target EXCEPT ![c] = NoRule]
  /\ asked' = [asked EXCEPT ![c] = NoEdit]
  /\ seen' = [seen EXCEPT ![c] = Gone]

\* A call to eKuiper at step `at', which sets the rule to one of outcomes; eKuiper
\* refuses unless accepted, and the reply of a call that did its work may be lost.
Call(c, at, accepted, outcomes, to) ==
  /\ pc[c] = at
  /\ \/ /\ accepted
        /\ \E outcome \in outcomes : rule' = [rule EXCEPT ![target[c]] = outcome]
        /\ \/ GoTo(c, to) /\ UNCHANGED faults
           \/ Answer(c) /\ Fault("call")
     \/ ~accepted /\ Answer(c) /\ UNCHANGED <<rule, faults>>
  /\ UNCHANGED <<row, lost, life, alerts, report, monitor, now, requests>>

Known(c) == rule[target[c]] # "absent"

\* A write to the database at step `at', the last one of a request.
LastWrite(c, at) ==
  /\ pc[c] = at
  /\ Answer(c)
  /\ UNCHANGED <<rule, alerts, report, monitor, now, requests, faults>>

(***************************************************************************)
(* AddAlertRule, UpdateAlertField and UpdateAlertRule                      *)
(***************************************************************************)

\* One write: no condition, no status.
AddAlertRule(r) ==
  /\ requests < MaxRequests
  /\ life[r] = "new"
  /\ life' = [life EXCEPT ![r] = "issued"]
  /\ row' = [row EXCEPT ![r] = [status |-> "", cond |-> "none", silence |-> 0]]
  /\ requests' = requests + 1
  /\ UNCHANGED <<lost, rule, alerts, report, client, monitor, now, faults>>

\* Name, level or description: the row that was read is written back.
UpdateAlertField(c, r) == Request(c, r, NoEdit, "storeField")

\* The condition that another edit has stored since.
Undone(c) == {r \in {target[c]} : row[r].cond # "none" /\ seen[c].cond = "none"}

StoreField(c) ==
  /\ LastWrite(c, "storeField")
  /\ SetRow(target[c], seen[c])
  /\ lost' = lost \cup Undone(c)
  /\ UNCHANGED life

\* Once device, product, notifications and condition have passed the checks.
UpdateAlertRule(c, r) ==
  \E cond \in {"data", "other"}, silence \in Silences :
    Request(c, r, [cond |-> cond, silence |-> silence], "lookup")

RuleExist(c) ==
  /\ pc[c] = "lookup"
  /\ GoTo(c, IF Known(c) THEN "replace" ELSE "create")
  /\ UNCHANGED <<row, lost, life, rule, alerts, report, monitor, now, requests, faults>>

\* Rules are created with Triggered false; an updated one keeps running, or stops.
CreateRule(c) == Call(c, "create", ~Known(c), {"stopped"}, "store")
UpdateRule(c) == Call(c, "replace", Known(c), {rule[target[c]], "stopped"}, "store")

\* ReplaceRuleModelFields on the row that was read; no silence time leaves the old one.
StoreRule(c) ==
  /\ LastWrite(c, "store")
  /\ SetRow(target[c], [status  |-> seen[c].status,
                        cond    |-> asked[c].cond,
                        silence |-> IF asked[c].silence > 0 THEN asked[c].silence
                                    ELSE seen[c].silence])
  /\ UNCHANGED <<lost, life>>

(***************************************************************************)
(* AlertRulesStart, AlertRulesRestart, AlertRulesStop, AlertRulesDelete    *)
(***************************************************************************)

\* Mutant: a rule without a condition passes the checks.
AnyRule(r) == row[r] # Gone

\* checkAlertRuleParam, for products and devices that stay.
Complete(r) == row[r].cond # "none"

AlertRulesStart(c, r) ==
  /\ row[r].status # "running"
  /\ Complete(r)
  /\ Request(c, r, NoEdit, "startRule")

\* EkuiperRule: only a condition on data is one.
AlertRulesRestart(c, r) ==
  /\ Complete(r)
  /\ Request(c, r, NoEdit, IF row[r].cond = "data" THEN "restartRule" ELSE "markStart")

AlertRulesStop(c, r)   == Request(c, r, NoEdit, "stopRule")
AlertRulesDelete(c, r) == Request(c, r, NoEdit, "dropRule")

StartRule(c)   == Call(c, "startRule", Known(c), {"running"}, "markStart")
RestartRule(c) == Call(c, "restartRule", Known(c), {"running"}, "markStart")
StopRule(c)    == Call(c, "stopRule", Known(c), {"stopped"}, "markStop")

\* Dropping a rule that is not there succeeds.
DropRule(c) == Call(c, "dropRule", TRUE, {"absent"}, "erase")

MarkStart(c) == LastWrite(c, "markStart") /\ SetStatus(target[c], "running") /\ UNCHANGED <<lost, life>>
MarkStop(c)  == LastWrite(c, "markStop") /\ SetStatus(target[c], "stopped") /\ UNCHANGED <<lost, life>>

Erase(c) ==
  /\ LastWrite(c, "erase")
  /\ row' = [row EXCEPT ![target[c]] = Gone]
  /\ life' = [life EXCEPT ![target[c]] = "erased"]
  /\ UNCHANGED lost

\* A call to eKuiper or to the database fails before it does anything, and the
\* handler returns its error.
CallFails(c) ==
  /\ \/ /\ pc[c] \in {"lookup", "create", "replace", "startRule", "restartRule", "stopRule",
                      "dropRule"}
        /\ Fault("call")
     \/ pc[c] \in {"store", "storeField", "markStart", "markStop", "erase"} /\ Fault("db")
  /\ Answer(c)
  /\ UNCHANGED <<row, lost, life, rule, alerts, report, monitor, now, requests>>

(***************************************************************************)
(* AddAlert                                                                *)
(***************************************************************************)
ReportAt(r, at, found) == report' = [report EXCEPT ![r] = [at |-> at, row |-> found]]
ReportOnly == UNCHANGED <<row, lost, life, rule, client, monitor, now, requests>>

\* eKuiper's sink posts one report at a time (runAsync is false) and waits for the
\* answer.
Post(r) ==
  /\ rule[r] = "running"
  /\ report[r] = NoReport
  /\ ReportAt(r, "read", Gone)
  /\ ReportOnly /\ UNCHANGED <<alerts, faults>>

\* Mutant: the error is not looked at.
FoundOrNot(r) == TRUE

Found(r) == row[r] # Gone

\* The report of a rule whose row is gone is answered with an error.  SubRule[0] of
\* the row is looked at next.
ReadRule(r) ==
  /\ report[r].at = "read"
  /\ IF Found(r) THEN ReportAt(r, "check", row[r]) ELSE ReportAt(r, "idle", Gone)
  /\ ReportOnly /\ UNCHANGED <<alerts, faults>>

\* Mutant: the oldest alert is looked at.
FirstAlert(r) == Head(alerts[r])

\* AlertListLastSend
LastAlert(r) == alerts[r][Len(alerts[r])]

\* "within the silence time: not sent" (alertapp.go:813)
InSilence(r) ==
  /\ report[r].row.silence > 0
  /\ alerts[r] # <<>>
  /\ LastAlert(r).created + report[r].row.silence > now

CheckSilence(r) ==
  /\ report[r].at = "check"
  /\ IF InSilence(r) THEN ReportAt(r, "idle", Gone) ELSE ReportAt(r, "insert", report[r].row)
  /\ ReportOnly /\ UNCHANGED <<alerts, faults>>

\* The alert, with the silence time it was checked for.
InsertAlert(r) ==
  /\ report[r].at = "insert"
  /\ Len(alerts[r]) < MaxAlerts
  /\ alerts' = [alerts EXCEPT ![r] = Append(@, [created |-> now, silence |-> report[r].row.silence])]
  /\ ReportAt(r, "idle", Gone)
  /\ ReportOnly /\ UNCHANGED faults

ReportFails(r) ==
  /\ report[r] # NoReport
  /\ Fault("db")
  /\ ReportAt(r, "idle", Gone)
  /\ ReportOnly /\ UNCHANGED alerts

(***************************************************************************)
(* The monitor, eKuiper, the clock and the process                         *)
(***************************************************************************)

\* Every five seconds checkRuleStatus reads all rows, and leaves out those without a
\* condition.
MonitorTick ==
  /\ todo = {}
  /\ write = NoWrite
  /\ todo' = {r \in Rules : row[r].cond # "none"}
  /\ snapshot' = [r \in Rules |-> row[r].status]
  /\ UNCHANGED <<row, lost, life, rule, alerts, report, client, write, now, requests, faults>>

\* The rule's status differs from the row's as it was read.
OutOfDate(r) == rule[r] # "absent" /\ rule[r] # snapshot[r]

\* GetRuleStats for one of them; an error moves on to the next.
MonitorAsk(r) ==
  /\ r \in todo
  /\ write = NoWrite
  /\ todo' = todo \ {r}
  /\ snapshot' = [snapshot EXCEPT ![r] = "gone"]
  /\ \/ OutOfDate(r) /\ write' = [rule |-> r, status |-> rule[r]] /\ UNCHANGED faults
     \/ ~OutOfDate(r) /\ UNCHANGED <<write, faults>>
     \/ Fault("call") /\ UNCHANGED write
  /\ UNCHANGED <<row, lost, life, rule, alerts, report, client, now, requests>>

\* AlertRuleStart or AlertRuleStop in the database, whose error nobody looks at.
MonitorWrite ==
  /\ write # NoWrite
  /\ \/ SetStatus(write.rule, write.status) /\ UNCHANGED faults
     \/ Fault("db") /\ UNCHANGED row
  /\ write' = NoWrite
  /\ UNCHANGED <<lost, life, rule, alerts, report, client, todo, snapshot, now, requests>>

\* eKuiper ends a rule that fails.
RuleDies(r) ==
  /\ rule[r] = "running"
  /\ Fault("rule")
  /\ rule' = [rule EXCEPT ![r] = "stopped"]
  /\ UNCHANGED <<row, lost, life, alerts, report, client, monitor, now, requests>>

TimePasses ==
  /\ now < MaxTime
  /\ now' = now + 1
  /\ UNCHANGED <<row, lost, life, rule, alerts, report, client, monitor, requests, faults>>

\* The process dies and starts; eKuiper and the database are others.
Restart ==
  /\ Fault("crash")
  /\ report' = [r \in Rules |-> NoReport]
  /\ pc' = [c \in Clients |-> "idle"]
  /\ target' = [c \in Clients |-> NoRule]
  /\ asked' = [c \in Clients |-> NoEdit]
  /\ seen' = [c \in Clients |-> Gone]
  /\ todo' = {}
  /\ snapshot' = [r \in Rules |-> "gone"]
  /\ write' = NoWrite
  /\ UNCHANGED <<row, lost, life, rule, alerts, now, requests>>

(***************************************************************************)
(* Specification                                                           *)
(***************************************************************************)

Init ==
  /\ row = [r \in Rules |-> Gone]
  /\ lost = {}
  /\ life = [r \in Rules |-> "new"]
  /\ rule = [r \in Rules |-> "absent"]
  /\ alerts = [r \in Rules |-> <<>>]
  /\ report = [r \in Rules |-> NoReport]
  /\ pc = [c \in Clients |-> "idle"]
  /\ target = [c \in Clients |-> NoRule]
  /\ asked = [c \in Clients |-> NoEdit]
  /\ seen = [c \in Clients |-> Gone]
  /\ todo = {}
  /\ snapshot = [r \in Rules |-> "gone"]
  /\ write = NoWrite
  /\ now = 0
  /\ requests = 0
  /\ faults = 0

Begin(c, r) ==
  \/ UpdateAlertField(c, r) \/ UpdateAlertRule(c, r)
  \/ AlertRulesStart(c, r) \/ AlertRulesRestart(c, r)
  \/ AlertRulesStop(c, r) \/ AlertRulesDelete(c, r)

Step(c) ==
  \/ StoreField(c)
  \/ RuleExist(c) \/ CreateRule(c) \/ UpdateRule(c) \/ StoreRule(c)
  \/ StartRule(c) \/ RestartRule(c) \/ MarkStart(c)
  \/ StopRule(c) \/ MarkStop(c) \/ DropRule(c) \/ Erase(c)
  \/ CallFails(c)

AddAlert(r) == Post(r) \/ ReadRule(r) \/ CheckSilence(r) \/ InsertAlert(r) \/ ReportFails(r)

Monitor == MonitorTick \/ MonitorWrite \/ \E r \in Rules : MonitorAsk(r)

Next ==
  \/ \E c \in Clients : Step(c) \/ \E r \in Rules : Begin(c, r)
  \/ \E r \in Rules : AddAlertRule(r) \/ AddAlert(r) \/ RuleDies(r)
  \/ Monitor
  \/ TimePasses
  \/ Restart

Spec == Init /\ [][Next]_vars

(***************************************************************************)
(* Properties                                                              *)
(***************************************************************************)

\* However many clients edit and operate the rules, through crashes, failing calls and
\* lost replies: the row that AddAlert reads for a report has a condition, whose
\* SubRule[0] it takes without a look (alertapp.go:776), but for a rule whose first
\* condition was stored while an UpdateAlertField was on its way, and undone by it.  No
\* start, restart or update of a rule in eKuiper, before its row has a condition, and
\* no other write of a whole row lets a report find none.
ReportsFindConditions ==
  \A r \in Rules \ lost : report[r].at \in {"check", "insert"} => report[r].row.cond # "none"

\* While a rule's reports come one at a time: no alert is added within the silence
\* time after the one before, with the silence time as the report found it, though
\* the check and the insertion are steps apart and edits change the silence time.
SilenceIsKept ==
  \A r \in Rules : \A i \in 2..Len(alerts[r]) :
    alerts[r][i].created >= alerts[r][i - 1].created + alerts[r][i].silence

\* What the alert centre promises of its alerts (ThrottledAlerts), though a report is
\* dealt with in three steps and its rule may be edited, stopped, deleted or made again
\* in eKuiper between them: one alert at most for a report, none for a report that
\* finds its rule deleted, and none too soon (AddAlert).
TA == INSTANCE ThrottledAlerts WITH
  Rule <- Rules, Silence <- Times, inHand <- {r \in Rules : report[r].at \in {"check", "insert"}}
ThrottledSpec == TA!Spec
=============================================================================
