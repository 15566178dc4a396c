---------------------------- MODULE SceneLinkage -----------------------------
(***************************************************************************)
(* sceneapp.go and scene/monitor.go: scenes, whose rows are in the         *)
(* database.  A started "timer" scene has a job on the cron timer of this  *)
(* process; a "notify" scene has a rule in eKuiper, another process, which *)
(* no request ever starts (see SceneStart).  A request reads the row, then *)
(* changes the timer or the rules, then writes the row: three stores, no   *)
(* transaction.  A goroutine copies the state of the rules to the rows,    *)
(* and the timer is refilled from the rows when the process starts.        *)
(*                                                                         *)
(* The timer is taken as EdgeTimer shows it to be, a set of jobs (JobSet), *)
(* with the one delay a caller sees: DeleteJob returns before the job is   *)
(* gone.                                                                   *)
(***************************************************************************)
EXTENDS Naturals

CONSTANTS
  Scenes,      \* scene ids
  Admins,      \* the HTTP clients, each with one request at a time
  Kinds,       \* Kinds[s]: the condition types that requests ask for, for scene s: some of
               \* "timer", "notify", and "other", anything else
  Patient,     \* whether a client waits for the timer to settle between requests
  Faults,      \* what may go wrong: some of "crash", "call" (to eKuiper), "db"
  MaxRequests, \* bound: the requests in a behaviour
  MaxFaults    \* bound: the faults in a behaviour

ASSUME SceneAssumption ==
  /\ Kinds \in [Scenes -> SUBSET {"timer", "notify", "other"}]
  /\ Patient \in BOOLEAN
  /\ Faults \subseteq {"crash", "call", "db"}
  /\ MaxRequests \in Nat
  /\ MaxFaults \in Nat

NoScene == "no scene"
ASSUME NoSceneAssumption == NoScene \notin Scenes

VARIABLES
  row,       \* the scene table: status, condition type, and which edit it holds
  job,       \* the timer: the edit a scene's job was made from, or 0
  removing,  \* the scene whose job the timer's loop is taking away
  rules,     \* eKuiper: the scenes that have a rule there, stopped
  pc,        \* where each client's request is,
  target,    \* the scene it is about,
  asked,     \* the condition it asks for,
  seen,      \* and the row it has read
  todo,      \* the monitor: the scenes it has still to ask eKuiper about,
  snapshot,  \* the statuses it read with them,
  write,     \* and the scene whose row it is about to mark as stopped
  requests, faults  \* how many requests and faults there have been

vars == <<row, job, removing, rules, pc, target, asked, seen, todo, snapshot, write,
          requests, faults>>
timer   == <<job, removing>>
client  == <<pc, target, asked, seen>>
monitor == <<todo, snapshot, write>>
bounds  == <<requests, faults>>

\* A condition, with the number of the request that set it for a timer's.
None == [kind |-> "none", edit |-> 0]
Conditions == [kind : {"timer", "notify", "other", "none"}, edit : 0..MaxRequests]
Condition(k) == [kind |-> k, edit |-> IF k = "timer" THEN requests + 1 ELSE 0]

Rows == [status : {"", "running", "stopped", "gone"}, cond : Conditions]
Gone == [status |-> "gone", cond |-> None]
Steps == {"idle", "lookup", "create", "replace", "store", "addJob", "markStart",
          "stopJob", "stopRule", "markStop", "dropJob", "dropRule", "erase"}

TypeOK ==
  /\ row \in [Scenes -> Rows]
  /\ job \in [Scenes -> 0..MaxRequests]
  /\ removing \in Scenes \cup {NoScene}
  /\ rules \subseteq Scenes
  /\ pc \in [Admins -> Steps]
  /\ target \in [Admins -> Scenes \cup {NoScene}]
  /\ asked \in [Admins -> Conditions]
  /\ seen \in [Admins -> Rows]
  /\ todo \subseteq Scenes
  /\ snapshot \in [Scenes -> {"", "running", "stopped", "gone"}]
  /\ write \in Scenes \cup {NoScene}
  /\ requests \in 0..MaxRequests
  /\ faults \in 0..MaxFaults

\* The bounded environment: a fault of kind f uses up one.
Fault(f) == f \in Faults /\ faults < MaxFaults /\ faults' = faults + 1

\* A database write of a scene's status; one for a scene that is gone does nothing.
SetStatus(s, status) ==
  row' = IF row[s] = Gone THEN row
         ELSE [row EXCEPT ![s] = [status |-> status, cond |-> row[s].cond]]

\* The request of a goes on at step `to', or is answered.
GoTo(a, to) == pc' = [pc EXCEPT ![a] = to] /\ UNCHANGED <<target, asked, seen>>
Answer(a) ==
  /\ pc' = [pc EXCEPT ![a] = "idle"]
  /\ target' = [target EXCEPT ![a] = NoScene]
  /\ asked' = [asked EXCEPT ![a] = None]
  /\ seen' = [seen EXCEPT ![a] = Gone]

\* A handler's first step reads the row of s.  Requests it refuses there (no such
\* scene, no condition, a missing option) are no steps.
Request(a, s, c, to) ==
  /\ pc[a] = "idle"
  /\ requests < MaxRequests
  /\ Patient => removing = NoScene
  /\ row[s] # Gone
  /\ requests' = requests + 1
  /\ pc' = [pc EXCEPT ![a] = to]
  /\ target' = [target EXCEPT ![a] = s]
  /\ asked' = [asked EXCEPT ![a] = c]
  /\ seen' = [seen EXCEPT ![a] = row[s]]
  /\ UNCHANGED <<row, timer, rules, monitor, faults>>

\* The reply of a call that did its work may be lost: the handler returns an error.
Proceed(a, to) ==
  \/ GoTo(a, to) /\ UNCHANGED faults
  \/ Answer(a) /\ Fault("call")

\* AddScene, one write: no condition, no status.  Ids are random numbers, so one of
\* a scene that is gone may come again.
AddScene(s) ==
  /\ requests < MaxRequests
  /\ row[s] = Gone
  /\ row' = [row EXCEPT ![s] = [status |-> "", cond |-> None]]
  /\ requests' = requests + 1
  /\ UNCHANGED <<timer, rules, client, monitor, faults>>

(***************************************************************************)
(* UpdateScene                                                             *)
(***************************************************************************)

\* The refusal "Please stop this scheduled tasks before editing it."
Editable(s) == row[s].status # "running"

UpdateToTimer(a, s) ==
  /\ "timer" \in Kinds[s]
  /\ Editable(s)
  /\ Request(a, s, Condition("timer"), "store")

UpdateToNotify(a, s) ==
  /\ "notify" \in Kinds[s]
  /\ Request(a, s, Condition("notify"), "lookup")

\* The switch has no default: any other type is stored as it is.
UpdateToOther(a, s) ==
  /\ "other" \in Kinds[s]
  /\ Request(a, s, Condition("other"), "store")

RuleExist(a) ==
  /\ pc[a] = "lookup"
  /\ GoTo(a, IF target[a] \in rules THEN "replace" ELSE "create")
  /\ UNCHANGED <<row, timer, rules, monitor, bounds>>

\* Rules are created with Triggered false; a rule that is there already is an error.
CreateRule(a) ==
  /\ pc[a] = "create"
  /\ \/ /\ target[a] \notin rules
        /\ rules' = rules \cup {target[a]}
        /\ Proceed(a, "store")
     \/ target[a] \in rules /\ Answer(a) /\ UNCHANGED <<rules, faults>>
  /\ UNCHANGED <<row, timer, monitor, requests>>

\* Triggered is false here too: the updated rule stays stopped.
UpdateRule(a) ==
  /\ pc[a] = "replace"
  /\ \/ target[a] \in rules /\ Proceed(a, "store")
     \/ target[a] \notin rules /\ Answer(a) /\ UNCHANGED faults
  /\ UNCHANGED <<row, timer, rules, monitor, requests>>

\* All columns of the row that was read are written back, with the new condition.
StoreScene(a) ==
  LET s == target[a]
  IN /\ pc[a] = "store"
     /\ row' = IF row[s] = Gone THEN row
               ELSE [row EXCEPT ![s] = [status |-> seen[a].status, cond |-> asked[a]]]
     /\ Answer(a)
     /\ UNCHANGED <<timer, rules, monitor, bounds>>

(***************************************************************************)
(* SceneStartById                                                          *)
(***************************************************************************)
\* A notify scene is never started.  checkAlertRuleParam refuses it if it runs; if not,
\* it takes a scene's trigger only when the scene has a number of conditions other than
\* the one that UpdateScene stores, so that the trigger stays empty, no action's code is
\* found, and an empty list of actions is an error as well.  StartRule is not reached.
SceneStart(a, s) == row[s].cond.kind = "timer" /\ Request(a, s, None, "addJob")

\* AddJobToRunQueue: a job that is there, be it on its way out, is left alone; a new
\* one waits for the loop.
AddJob(a) ==
  LET s == target[a]
  IN /\ pc[a] = "addJob"
     /\ \/ job[s] # 0 /\ UNCHANGED job
        \/ job[s] = 0 /\ removing = NoScene /\ job' = [job EXCEPT ![s] = seen[a].cond.edit]
     /\ GoTo(a, "markStart")
     /\ UNCHANGED <<row, removing, rules, monitor, bounds>>

MarkStart(a) ==
  /\ pc[a] = "markStart"
  /\ SetStatus(target[a], "running")
  /\ Answer(a)
  /\ UNCHANGED <<timer, rules, monitor, bounds>>

(***************************************************************************)
(* SceneStopById and DelSceneById                                          *)
(***************************************************************************)

\* For a scene without conditions the handler panics, which ends the request.
SceneStop(a, s) ==
  \/ row[s].cond.kind = "timer" /\ Request(a, s, None, "stopJob")
  \/ row[s].cond.kind = "notify" /\ Request(a, s, None, "stopRule")

DelScene(a, s) ==
  \/ row[s].cond.kind = "none" /\ Request(a, s, None, "erase")
  \/ row[s].cond.kind = "timer" /\ Request(a, s, None, "dropJob")
  \/ row[s].cond.kind = "notify" /\ Request(a, s, None, "dropRule")

\* DeleteJob returns when the loop has taken the id from its channel.
DeleteJob(a) ==
  /\ pc[a] \in {"stopJob", "dropJob"}
  /\ removing = NoScene
  /\ removing' = target[a]
  /\ GoTo(a, IF pc[a] = "stopJob" THEN "markStop" ELSE "erase")
  /\ UNCHANGED <<row, job, rules, monitor, bounds>>

\* Stopping a rule that does not run succeeds.
StopRule(a) ==
  /\ pc[a] = "stopRule"
  /\ \/ target[a] \in rules /\ Proceed(a, "markStop")
     \/ target[a] \notin rules /\ Answer(a) /\ UNCHANGED faults
  /\ UNCHANGED <<row, timer, rules, monitor, requests>>

MarkStop(a) ==
  /\ pc[a] = "markStop"
  /\ SetStatus(target[a], "stopped")
  /\ Answer(a)
  /\ UNCHANGED <<timer, rules, monitor, bounds>>

\* Dropping a rule that is not there succeeds.
DropRule(a) ==
  /\ pc[a] = "dropRule"
  /\ rules' = rules \ {target[a]}
  /\ Proceed(a, "erase")
  /\ UNCHANGED <<row, timer, monitor, requests>>

Erase(a) ==
  /\ pc[a] = "erase"
  /\ row' = [row EXCEPT ![target[a]] = Gone]
  /\ Answer(a)
  /\ UNCHANGED <<timer, rules, monitor, bounds>>

\* A call to eKuiper or a write to the database fails before it does anything, and
\* the handler returns its error.
CallFails(a) ==
  /\ \/ pc[a] \in {"lookup", "create", "replace", "stopRule", "dropRule"}
        /\ Fault("call")
     \/ pc[a] \in {"store", "markStart", "markStop", "erase"} /\ Fault("db")
  /\ Answer(a)
  /\ UNCHANGED <<row, timer, rules, monitor, requests>>

(***************************************************************************)
(* The timer's loop, the monitor, eKuiper and the process                  *)
(***************************************************************************)

\* removeEntry, for the id the loop has received.
LoopRemove ==
  /\ removing # NoScene
  /\ job' = [job EXCEPT ![removing] = 0]
  /\ removing' = NoScene
  /\ UNCHANGED <<row, rules, client, monitor, bounds>>

\* Every nine seconds checkSceneRuleStatus reads all scenes.
MonitorTick ==
  /\ todo = {}
  /\ write = NoScene
  /\ todo' = {s \in Scenes : row[s].cond.kind = "notify"}
  /\ snapshot' = [s \in Scenes |-> IF s \in todo' THEN row[s].status ELSE ""]
  /\ UNCHANGED <<row, timer, rules, client, write, bounds>>

\* Mutant: only a row that says it runs is compared with its rule.
OnlyRunning(s) == s \in rules /\ snapshot[s] = "running"

\* The rule's status, stopped, differs from the row's as it was read.
OutOfDate(s) == s \in rules /\ snapshot[s] # "stopped"

\* GetRuleStats for one of them; an error moves on to the next.
MonitorAsk(s) ==
  /\ s \in todo
  /\ write = NoScene
  /\ todo' = todo \ {s}
  /\ snapshot' = [snapshot EXCEPT ![s] = ""]
  /\ \/ OutOfDate(s) /\ write' = s /\ UNCHANGED faults
     \/ ~OutOfDate(s) /\ UNCHANGED <<write, faults>>
     \/ Fault("call") /\ UNCHANGED write
  /\ UNCHANGED <<row, timer, rules, client, requests>>

\* SceneStop in the database, whose error nobody looks at.
MonitorWrite ==
  /\ write # NoScene
  /\ \/ SetStatus(write, "stopped") /\ UNCHANGED faults
     \/ Fault("db") /\ UNCHANGED row
  /\ write' = NoScene
  /\ UNCHANGED <<timer, rules, client, todo, snapshot, requests>>

\* Mutant: every timer scene is restored.
RestoreAll(s) == row[s].cond.kind = "timer"

Restores(s) == row[s].cond.kind = "timer" /\ row[s].status = "running"

\* The process dies; when it is back, restoreJobs has filled the timer.
Restart ==
  /\ Fault("crash")
  /\ job' = [s \in Scenes |-> IF Restores(s) THEN row[s].cond.edit ELSE 0]
  /\ removing' = NoScene
  /\ pc' = [a \in Admins |-> "idle"]
  /\ target' = [a \in Admins |-> NoScene]
  /\ asked' = [a \in Admins |-> None]
  /\ seen' = [a \in Admins |-> Gone]
  /\ todo' = {}
  /\ snapshot' = [s \in Scenes |-> ""]
  /\ write' = NoScene
  /\ UNCHANGED <<row, rules, requests>>

(***************************************************************************)
(* Specification                                                           *)
(***************************************************************************)

Init ==
  /\ row = [s \in Scenes |-> Gone]
  /\ job = [s \in Scenes |-> 0]
  /\ removing = NoScene
  /\ rules = {}
  /\ pc = [a \in Admins |-> "idle"]
  /\ target = [a \in Admins |-> NoScene]
  /\ asked = [a \in Admins |-> None]
  /\ seen = [a \in Admins |-> Gone]
  /\ todo = {}
  /\ snapshot = [s \in Scenes |-> ""]
  /\ write = NoScene
  /\ requests = 0
  /\ faults = 0

Begin(a) ==
  \E s \in Scenes :
    \/ UpdateToTimer(a, s) \/ UpdateToNotify(a, s) \/ UpdateToOther(a, s)
    \/ SceneStart(a, s) \/ SceneStop(a, s) \/ DelScene(a, s)

Step(a) ==
  \/ RuleExist(a) \/ CreateRule(a) \/ UpdateRule(a) \/ StoreScene(a)
  \/ AddJob(a) \/ MarkStart(a)
  \/ DeleteJob(a) \/ StopRule(a) \/ MarkStop(a)
  \/ DropRule(a) \/ Erase(a) \/ CallFails(a)

Monitor == MonitorTick \/ MonitorWrite \/ \E s \in Scenes : MonitorAsk(s)

Next ==
  \/ \E a \in Admins : Begin(a) \/ Step(a)
  \/ LoopRemove
  \/ Monitor
  \/ \E s \in Scenes : AddScene(s)
  \/ Restart

Spec == Init /\ [][Next]_vars

\* Handlers, the timer's loop and the monitor's ticker keep running; nobody has to
\* send a request and nothing has to go wrong.
Fairness ==
  /\ \A a \in Admins : WF_vars(Step(a))
  /\ WF_vars(LoopRemove)
  /\ WF_vars(Monitor)

FairSpec == Spec /\ Fairness

(***************************************************************************)
(* Properties                                                              *)
(***************************************************************************)

\* For one patient client, scenes that stay timer scenes, crashes at any step and
\* writes that do not fail: a scene nobody is working on has a job exactly when its
\* row says that it runs, and the job does what the row says (SceneStartById,
\* SceneStopById, DelSceneById, restoreJobs).
TimerAgrees ==
  \A s \in Scenes :
    removing # s /\ (\A a \in Admins : target[a] # s) =>
      job[s] = IF Restores(s) THEN row[s].cond.edit ELSE 0

\* However many clients change the condition's type, start, stop and delete, whatever
\* crashes and fails: once they end, the row of every notify scene whose rule is there
\* comes to say that it is stopped, also one that says "running" because its timer was
\* (UpdateScene lets a running scene become a notify scene, and a start may mark the row
\* after that).
StatusSettles ==
  <>[](\A s \in rules : row[s].cond.kind = "notify" => row[s].status = "stopped")
=============================================================================
