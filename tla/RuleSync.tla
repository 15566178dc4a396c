------------------------------ MODULE RuleSync -------------------------------
(***************************************************************************)
(* ruleengineapp.go, ruleengine/monitor.go and dataresource.go: rules that *)
(* forward data to a resource outside.  A rule is a row in the database    *)
(* and a rule in eKuiper, another process; the resource is a row with a    *)
(* mark, set by a check of its health, that a rule needs to start.  No     *)
(* transaction spans two of these.  Each request runs in a goroutine of    *)
(* its own, and another one copies what eKuiper says to the rows.          *)
(*                                                                         *)
(* All rules here use one resource.                                        *)
(***************************************************************************)
EXTENDS Naturals

CONSTANTS
  Clients,      \* the HTTP clients, each with one request at a time
  Rules,        \* rule ids
  Faults,       \* what may go wrong: some of "crash", "call" (to eKuiper), "db", "rule"
  MaxRequests,  \* bound: the requests in a behaviour
  MaxFaults     \* bound: the faults in a behaviour

ASSUME RuleSyncAssumption ==
  /\ Faults \subseteq {"crash", "call", "db", "rule"}
  /\ MaxRequests \in Nat
  /\ MaxFaults \in Nat

NoRule == "no rule"
ASSUME NoRuleAssumption == NoRule \notin Rules

VARIABLES
  row,       \* the rule_engine table: the status of each rule's row, or "gone"
  life,      \* whether an id has been drawn for a rule, and the rule deleted since
  rule,      \* eKuiper: what the rule of that id does
  resource,  \* the resource's row: which edit of its options it holds, and its mark
  checked,   \* the edits that a check found healthy (history),
  misled,    \* and those a check marked that had looked at another (history)
  edits,     \* how many edits there have been
  pc,        \* where each client's request is,
  target,    \* the rule it is about,
  seen,      \* and the rows it has read
  todo,      \* the monitor: the rules it has still to ask eKuiper about,
  snapshot,  \* the statuses it read with them,
  write,     \* and the status it is about to write
  requests, faults  \* how many requests and faults there have been

vars == <<row, life, rule, resource, checked, misled, edits, pc, target, seen, todo,
          snapshot, write, requests, faults>>
table   == <<row, life>>
history == <<checked, misled>>
source  == <<resource, checked, misled, edits>>
client  == <<pc, target, seen>>
monitor == <<todo, snapshot, write>>
bounds  == <<requests, faults>>

Statuses == {"stopped", "running", "gone"}
Lives == {"new", "issued", "erased"}
RuleStates == {"absent", "stopped", "running"}
Steps == {"idle", "create", "insert", "lookup", "replace", "store", "check", "startRule",
          "markStart", "stopRule", "markStop", "dropRule", "erase",
          "search", "edit", "searchDrop", "drop", "probe", "markHealthy"}
Resources == [there : BOOLEAN, edit : Nat, healthy : BOOLEAN]
NoResource == [there |-> FALSE, edit |-> 0, healthy |-> FALSE]
Nothing == [status |-> "gone", resource |-> NoResource]
NoWrite == [rule |-> NoRule, status |-> "stopped"]

TypeOK ==
  /\ row \in [Rules -> Statuses]
  /\ life \in [Rules -> Lives]
  /\ rule \in [Rules -> RuleStates]
  /\ resource \in Resources
  /\ checked \subseteq Nat /\ misled \subseteq Nat /\ edits \in Nat
  /\ pc \in [Clients -> Steps]
  /\ target \in [Clients -> Rules \cup {NoRule}]
  /\ seen \in [Clients -> [status : Statuses, resource : Resources]]
  /\ todo \subseteq Rules
  /\ snapshot \in [Rules -> Statuses]
  /\ write \in [rule : Rules \cup {NoRule}, status : {"stopped", "running"}]
  /\ requests \in 0..MaxRequests
  /\ faults \in 0..MaxFaults

\* The bounded environment: a fault of kind f uses up one.
Fault(f) == f \in Faults /\ faults < MaxFaults /\ faults' = faults + 1

\* A write of status to the row of r; for a row that is gone it does nothing.
SetStatus(r, status) == row' = [row EXCEPT ![r] = IF @ = "gone" THEN @ ELSE status]

\* A handler's first step, at a rule or at the resource; what it reads is kept.
\* Requests it refuses there are no steps.
Request(c, r, to) ==
  /\ pc[c] = "idle"
  /\ requests < MaxRequests
  /\ requests' = requests + 1
  /\ pc' = [pc EXCEPT ![c] = to]
  /\ target' = [target EXCEPT ![c] = r]
  /\ UNCHANGED <<row, rule, source, monitor, faults>>

Reads(c, status, found) == seen' = [seen EXCEPT ![c] = [status |-> status, resource |-> found]]

\* The request of c goes on at step `to', or is answered.
GoTo(c, to) == pc' = [pc EXCEPT ![c] = to] /\ UNCHANGED <<target, seen>>
Answer(c) ==
  /\ pc' = [pc EXCEPT ![c] = "idle"]
  /\ target' = [target EXCEPT ![c] = NoRule]
  /\ Reads(c, "gone", NoResource)

\* The reply of a call that did its work may be lost: the handler returns an error.
Proceed(c, to) ==
  \/ GoTo(c, to) /\ UNCHANGED faults
  \/ Answer(c) /\ Fault("call")

\* A call to eKuiper about the rule of c's request, which sets it to one of outcomes
\* and goes on at `to'; eKuiper refuses unless accepted.
Call(c, accepted, outcomes, to) ==
  /\ \/ /\ accepted
        /\ \E outcome \in outcomes : rule' = [rule EXCEPT ![target[c]] = outcome]
        /\ Proceed(c, to)
     \/ ~accepted /\ Answer(c) /\ UNCHANGED <<rule, faults>>
  /\ UNCHANGED <<table, source, monitor, requests>>

(***************************************************************************)
(* AddRuleEngine and UpdateRuleEngine                                      *)
(***************************************************************************)

\* The new rule's id is a random number.
AddRuleEngine(c, r) ==
  /\ resource.there
  /\ life[r] = "new"
  /\ life' = [life EXCEPT ![r] = "issued"]
  /\ Request(c, r, "create")
  /\ UNCHANGED seen

\* eKuiper makes the rule with Triggered false.
CreateRule(c) ==
  /\ pc[c] = "create"
  /\ Call(c, rule[target[c]] = "absent", {"stopped"}, "insert")

InsertRow(c) ==
  /\ pc[c] = "insert"
  /\ row' = [row EXCEPT ![target[c]] = "stopped"]
  /\ Answer(c)
  /\ UNCHANGED <<life, rule, source, monitor, bounds>>

UpdateRuleEngine(c, r) ==
  /\ resource.there
  /\ life[r] # "new"
  /\ Request(c, r, "lookup")
  /\ UNCHANGED <<life, seen>>

\* The row, and the resource with it (Preload).
LookUpRow(c) ==
  LET r == target[c]
  IN /\ pc[c] = "lookup"
     /\ \/ /\ row[r] # "gone"
           /\ pc' = [pc EXCEPT ![c] = "replace"]
           /\ Reads(c, row[r], resource)
           /\ UNCHANGED target
        \/ row[r] = "gone" /\ Answer(c)
     /\ UNCHANGED <<table, rule, source, monitor, bounds>>

\* Mutant: a rule that eKuiper does not know is made.
ReplaceOrCreate(c) ==
  LET r == target[c]
  IN /\ pc[c] = "replace"
     /\ Call(c, TRUE, {IF rule[r] = "absent" THEN "stopped" ELSE rule[r]}, "store")

\* eKuiper keeps an updated rule running, or stops it for Triggered false.
UpdateRule(c) ==
  LET r == target[c]
  IN pc[c] = "replace" /\ Call(c, rule[r] # "absent", {rule[r], "stopped"}, "store")

\* All columns of the row that was read are written back.  gorm saves the resource
\* that was read with it as well, where none of that id is in its table.
StoreRow(c) ==
  /\ pc[c] = "store"
  /\ SetStatus(target[c], seen[c].status)
  /\ resource' = IF ~resource.there /\ seen[c].resource.there THEN seen[c].resource ELSE resource
  /\ Answer(c)
  /\ UNCHANGED <<life, rule, history, edits, monitor, bounds>>

(***************************************************************************)
(* RuleEngineStart, RuleEngineStop and RuleEngineDelete                    *)
(***************************************************************************)

\* Mutant: nobody looks for the row.
OnAnyId(c, r, to) == Request(c, r, to) /\ UNCHANGED <<life, seen>>

OnRow(c, r, to) ==
  /\ row[r] # "gone"
  /\ Request(c, r, to)
  /\ UNCHANGED <<life, seen>>

RuleEngineStart(c, r)  == OnRow(c, r, "check")
RuleEngineStop(c, r)   == OnRow(c, r, "stopRule")
RuleEngineDelete(c, r) == OnRow(c, r, "dropRule")

\* "invalid resource configuration, please check the resource configuration"
CheckResource(c) ==
  /\ pc[c] = "check"
  /\ \/ /\ resource.there /\ resource.healthy
        /\ pc' = [pc EXCEPT ![c] = "startRule"]
        /\ Reads(c, "gone", resource)
        /\ UNCHANGED target
     \/ ~(resource.there /\ resource.healthy) /\ Answer(c)
  /\ UNCHANGED <<table, rule, source, monitor, bounds>>

StartRule(c) ==
  pc[c] = "startRule" /\ Call(c, rule[target[c]] # "absent", {"running"}, "markStart")

StopRule(c) ==
  pc[c] = "stopRule" /\ Call(c, rule[target[c]] # "absent", {"stopped"}, "markStop")

\* Dropping a rule that is not there succeeds.
DropRule(c) == pc[c] = "dropRule" /\ Call(c, TRUE, {"absent"}, "erase")

Mark(c, at, status) ==
  /\ pc[c] = at
  /\ SetStatus(target[c], status)
  /\ Answer(c)
  /\ UNCHANGED <<life, rule, source, monitor, bounds>>

MarkStart(c) == Mark(c, "markStart", "running")
MarkStop(c)  == Mark(c, "markStop", "stopped")

Erase(c) ==
  /\ pc[c] = "erase"
  /\ row' = [row EXCEPT ![target[c]] = "gone"]
  /\ life' = [life EXCEPT ![target[c]] = "erased"]
  /\ Answer(c)
  /\ UNCHANGED <<rule, source, monitor, bounds>>

(***************************************************************************)
(* The resource                                                            *)
(***************************************************************************)
AddDataResource(c) ==
  /\ pc[c] = "idle"
  /\ requests < MaxRequests
  /\ resource = NoResource
  /\ resource' = [there |-> TRUE, edit |-> edits + 1, healthy |-> FALSE]
  /\ edits' = edits + 1
  /\ requests' = requests + 1
  /\ UNCHANGED <<table, rule, history, client, monitor, faults>>

OnResource(c, to) ==
  /\ resource.there
  /\ Request(c, NoRule, to)
  /\ Reads(c, "gone", resource)
  /\ UNCHANGED life

UpdateDataResource(c) == OnResource(c, "search")

\* This handler does not read the resource first, and deletes one that is gone.
DelDataResource(c) ==
  /\ Request(c, NoRule, "searchDrop")
  /\ UNCHANGED <<life, seen>>

DataResourceHealth(c) == OnResource(c, "probe")

\* "please stop this rule engine before editing it"
SearchRules(c) ==
  /\ pc[c] \in {"search", "searchDrop"}
  /\ \/ \E r \in Rules : row[r] = "running" /\ Answer(c)
     \/ (\A r \in Rules : row[r] # "running")
        /\ GoTo(c, IF pc[c] = "search" THEN "edit" ELSE "drop")
  /\ UNCHANGED <<table, rule, source, monitor, bounds>>

\* Mutant: an edited resource keeps its mark.
KeepsMark(c) == [there |-> TRUE, edit |-> edits + 1, healthy |-> seen[c].resource.healthy]

\* All columns of the row that was read, with new options and without the mark.
Edited(c) == [there |-> TRUE, edit |-> edits + 1, healthy |-> FALSE]

EditResource(c) ==
  /\ pc[c] = "edit"
  /\ resource' = IF resource.there THEN Edited(c) ELSE resource
  /\ edits' = edits + 1
  /\ Answer(c)
  /\ UNCHANGED <<table, rule, history, monitor, bounds>>

DropResource(c) ==
  /\ pc[c] = "drop"
  /\ resource' = [there |-> FALSE, edit |-> resource.edit, healthy |-> FALSE]
  /\ Answer(c)
  /\ UNCHANGED <<table, rule, history, edits, monitor, bounds>>

\* The check of the options that were read, which may fail.
Probe(c) ==
  /\ pc[c] = "probe"
  /\ \/ checked' = checked \cup {seen[c].resource.edit} /\ GoTo(c, "markHealthy")
     \/ Answer(c) /\ UNCHANGED checked
  /\ UNCHANGED <<table, rule, resource, misled, edits, monitor, bounds>>

\* The options marked by a check that has looked at others.
Misled(c) == IF resource.there THEN {resource.edit} \ {seen[c].resource.edit} ELSE {}

MarkHealthy(c) ==
  /\ pc[c] = "markHealthy"
  /\ resource' = [there |-> resource.there, edit |-> resource.edit, healthy |-> resource.there]
  /\ misled' = misled \cup Misled(c)
  /\ Answer(c)
  /\ UNCHANGED <<table, rule, checked, edits, monitor, bounds>>

\* A call to eKuiper or to the database fails before it does anything, and the
\* handler returns its error.
CallFails(c) ==
  /\ \/ pc[c] \in {"create", "replace", "startRule", "stopRule", "dropRule"} /\ Fault("call")
     \/ /\ pc[c] \in {"insert", "lookup", "store", "check", "markStart", "markStop", "erase",
                      "search", "edit", "searchDrop", "drop", "markHealthy"}
        /\ Fault("db")
  /\ Answer(c)
  /\ UNCHANGED <<table, rule, source, monitor, requests>>

(***************************************************************************)
(* The monitor, eKuiper and the process                                    *)
(***************************************************************************)

\* Every five seconds checkRuleStatus reads all rows.
MonitorTick ==
  /\ todo = {}
  /\ write = NoWrite
  /\ todo' = {r \in Rules : row[r] # "gone"}
  /\ snapshot' = row
  /\ UNCHANGED <<table, rule, source, client, write, bounds>>

\* Mutant: only a rule that runs has a new status.
OnlyRunning(r) == rule[r] = "running" /\ snapshot[r] # "running"

\* The rule's status differs from the row's as it was read.
OutOfDate(r) == rule[r] # "absent" /\ rule[r] # snapshot[r]

\* GetRuleStats for one of them; an error moves on to the next.
MonitorAsk(r) ==
  /\ r \in todo
  /\ write = NoWrite
  /\ todo' = todo \ {r}
  /\ snapshot' = [snapshot EXCEPT ![r] = "gone"]
  /\ \/ OutOfDate(r) /\ write' = [rule |-> r, status |-> rule[r]] /\ UNCHANGED faults
     \/ ~OutOfDate(r) /\ UNCHANGED <<write, faults>>
     \/ Fault("call") /\ UNCHANGED write
  /\ UNCHANGED <<table, rule, source, client, requests>>

\* RuleEngineStart or RuleEngineStop in the database, whose error nobody looks at.
MonitorWrite ==
  /\ write # NoWrite
  /\ \/ SetStatus(write.rule, write.status) /\ UNCHANGED faults
     \/ Fault("db") /\ UNCHANGED row
  /\ write' = NoWrite
  /\ UNCHANGED <<life, rule, source, client, todo, snapshot, requests>>

\* eKuiper ends a rule that fails.
RuleDies(r) ==
  /\ rule[r] = "running"
  /\ Fault("rule")
  /\ rule' = [rule EXCEPT ![r] = "stopped"]
  /\ UNCHANGED <<table, source, client, monitor, requests>>

\* The process dies and starts; eKuiper and the database are others.
Restart ==
  /\ Fault("crash")
  /\ pc' = [c \in Clients |-> "idle"]
  /\ target' = [c \in Clients |-> NoRule]
  /\ seen' = [c \in Clients |-> Nothing]
  /\ todo' = {}
  /\ snapshot' = [r \in Rules |-> "gone"]
  /\ write' = NoWrite
  /\ UNCHANGED <<table, rule, source, requests>>

(***************************************************************************)
(* Specification                                                           *)
(***************************************************************************)

Init ==
  /\ row = [r \in Rules |-> "gone"]
  /\ life = [r \in Rules |-> "new"]
  /\ rule = [r \in Rules |-> "absent"]
  /\ resource = NoResource
  /\ checked = {} /\ misled = {} /\ edits = 0
  /\ pc = [c \in Clients |-> "idle"]
  /\ target = [c \in Clients |-> NoRule]
  /\ seen = [c \in Clients |-> Nothing]
  /\ todo = {}
  /\ snapshot = [r \in Rules |-> "gone"]
  /\ write = NoWrite
  /\ requests = 0
  /\ faults = 0

Begin(c) ==
  \/ \E r \in Rules :
       \/ AddRuleEngine(c, r) \/ UpdateRuleEngine(c, r)
       \/ RuleEngineStart(c, r) \/ RuleEngineStop(c, r) \/ RuleEngineDelete(c, r)
  \/ AddDataResource(c) \/ UpdateDataResource(c)
  \/ DelDataResource(c) \/ DataResourceHealth(c)

Step(c) ==
  \/ CreateRule(c) \/ InsertRow(c)
  \/ LookUpRow(c) \/ UpdateRule(c) \/ StoreRow(c)
  \/ CheckResource(c) \/ StartRule(c) \/ MarkStart(c)
  \/ StopRule(c) \/ MarkStop(c)
  \/ DropRule(c) \/ Erase(c)
  \/ SearchRules(c) \/ EditResource(c) \/ DropResource(c)
  \/ Probe(c) \/ MarkHealthy(c)
  \/ CallFails(c)

Monitor == MonitorTick \/ MonitorWrite \/ \E r \in Rules : MonitorAsk(r)

Next ==
  \/ \E c \in Clients : Begin(c) \/ Step(c)
  \/ Monitor
  \/ \E r \in Rules : RuleDies(r)
  \/ Restart

Spec == Init /\ [][Next]_vars

\* Handlers and the monitor's ticker keep running; nobody has to send a request and
\* nothing has to go wrong.
Fairness ==
  /\ \A c \in Clients : WF_vars(Step(c))
  /\ WF_vars(Monitor)

FairSpec == Spec /\ Fairness

(***************************************************************************)
(* Properties                                                              *)
(***************************************************************************)

\* However many clients, crashes, failing calls and writes, and lost replies: a rule
\* that eKuiper has and the database has not is one whose addition failed or is under
\* way, and does nothing.  So Stop and Delete can reach every rule that forwards data,
\* and no update, start or stop that has read the row before brings a deleted rule back
\* (AddRuleEngine makes the rule before the row, RuleEngineDelete drops it before).
StraysAreNew ==
  \A r \in Rules : rule[r] # "absent" /\ row[r] = "gone" =>
    rule[r] = "stopped" /\ life[r] = "issued"

\* However many clients administer the resource: the options that are in its row when
\* Start reads the mark have been found healthy by a check, or were put there while
\* one was under way, between its reading of the row and its mark (DataResourceHealth).
\* Nothing else, no edit, no edit that meets a start, and no update of a rule that
\* brings a deleted resource back, leaves a mark on options nobody has checked.
StartsAreChecked ==
  \A c \in Clients : pc[c] = "startRule" => seen[c].resource.edit \in checked \cup misled

\* However many clients, crashes, failing calls and rules that die of themselves:
\* once they end, every row comes to show what its rule does.
StatusSettles ==
  <>[](\A r \in Rules : row[r] # "gone" /\ rule[r] # "absent" => row[r] = rule[r])

\* What r does, as a rule of RuleLife: one that eKuiper has not has been dropped, if
\* there is a row for it or there has been one.
Does(r) ==
  IF rule[r] # "absent" THEN rule[r]
  ELSE IF row[r] = "gone" /\ life[r] # "erased" THEN "none" ELSE "dropped"

\* What the rule engine promises of a rule (RuleLife), though its two stores are changed
\* in steps of several requests and any step may fail or be the last: it is made before
\* it is listed, runs only while it is listed, and once dropped never comes back.
RL == INSTANCE RuleLife WITH
  Rule <- Rules, does <- [r \in Rules |-> Does(r)], listed <- {r \in Rules : row[r] # "gone"}
RuleLifeSpec == RL!Spec
=============================================================================
