------------------------- MODULE SceneLinkageProofs --------------------------
(***************************************************************************)
(* Proofs about SceneLinkage: its type invariant, for every set of scenes  *)
(* and administrators and every kind of fault; and, for one administrator, *)
(* that the timer agrees with the rows.                                    *)
(***************************************************************************)
EXTENDS SceneLinkage, TLAPS

TargetKnown == \A a \in Admins : pc[a] # "idle" => target[a] \in Scenes

TypeInv == TypeOK /\ TargetKnown

(***************************************************************************)
(* Types                                                                   *)
(***************************************************************************)
LEMMA Names ==
  {"idle", "lookup", "create", "replace", "store", "addJob", "markStart",
   "stopJob", "stopRule", "markStop", "dropJob", "dropRule", "erase"} \subseteq Steps
BY DEF Steps

LEMMA Bounds ==
  MaxRequests \in Nat /\ MaxFaults \in Nat /\ 0 \in 0..MaxRequests /\ 0 \in 0..MaxFaults
<1>1. MaxRequests \in Nat /\ MaxFaults \in Nat
  BY SceneAssumption
<1> QED BY <1>1

LEMMA RowTypes ==
  /\ None \in Conditions
  /\ None.kind = "none" /\ None.edit = 0
  /\ Gone \in Rows
  /\ Gone.cond = None
  /\ \A st \in {"", "running", "stopped"}, c \in Conditions :
       [status |-> st, cond |-> c] \in Rows /\ [status |-> st, cond |-> c] # Gone
<1>1. None \in Conditions /\ None.kind = "none" /\ None.edit = 0
  BY Bounds DEF None, Conditions
<1>2. Gone \in Rows /\ Gone.cond = None
  BY <1>1 DEF Gone, Rows
<1>3. ASSUME NEW st \in {"", "running", "stopped"}, NEW c \in Conditions
      PROVE  [status |-> st, cond |-> c] \in Rows /\ [status |-> st, cond |-> c] # Gone
  BY <1>3 DEF Rows, Gone
<1> QED BY <1>1, <1>2, <1>3

LEMMA ConditionTypes ==
  ASSUME TypeOK, requests < MaxRequests, NEW k \in {"timer", "notify", "other"}
  PROVE  Condition(k) \in Conditions
<1>1. requests \in 0..MaxRequests
  BY DEF TypeOK
<1>2. requests + 1 \in 0..MaxRequests /\ 0 \in 0..MaxRequests
  BY <1>1, Bounds
<1>3. [kind |-> k, edit |-> requests + 1] \in Conditions /\ [kind |-> k, edit |-> 0] \in Conditions
  BY <1>2 DEF Conditions
<1> QED BY <1>3 DEF Condition

LEMMA FaultType ==
  ASSUME TypeOK, NEW f, Fault(f)
  PROVE  faults' \in 0..MaxFaults
<1>1. faults \in 0..MaxFaults /\ faults < MaxFaults /\ faults' = faults + 1
  BY DEF TypeOK, Fault
<1> QED BY <1>1, Bounds

LEMMA CountType ==
  ASSUME TypeOK, requests < MaxRequests, requests' = requests + 1
  PROVE  requests' \in 0..MaxRequests
<1>1. requests \in 0..MaxRequests
  BY DEF TypeOK
<1> QED BY <1>1, Bounds

AdminTypes ==
  /\ pc \in [Admins -> Steps]
  /\ target \in [Admins -> Scenes \cup {NoScene}]
  /\ asked \in [Admins -> Conditions]
  /\ seen \in [Admins -> Rows]
  /\ TargetKnown

LEMMA GoToTypes ==
  ASSUME AdminTypes, NEW a \in Admins, NEW to \in Steps, GoTo(a, to), pc[a] # "idle"
  PROVE  AdminTypes'
BY DEF AdminTypes, GoTo, TargetKnown

LEMMA AnswerTypes ==
  ASSUME AdminTypes, NEW a \in Admins, Answer(a)
  PROVE  AdminTypes'
BY Names, RowTypes DEF AdminTypes, Answer, TargetKnown

LEMMA TypeInit == Init => TypeInv
<1> SUFFICES ASSUME Init PROVE TypeInv
  OBVIOUS
<1>1. requests \in 0..MaxRequests /\ faults \in 0..MaxFaults /\ 0 \in 0..MaxRequests
  BY Bounds DEF Init
<1> QED BY <1>1, Names, RowTypes DEF Init, TypeInv, TypeOK, TargetKnown

LEMMA RequestTypes ==
  ASSUME TypeInv, NEW a \in Admins, NEW s \in Scenes, NEW c \in Conditions, NEW to \in Steps,
         Request(a, s, c, to)
  PROVE  TypeInv'
<1>1. requests' \in 0..MaxRequests
  BY CountType DEF TypeInv, Request
<1>2. row[s] \in Rows
  BY DEF TypeInv, TypeOK
<1> QED BY <1>1, <1>2 DEF TypeInv, TypeOK, TargetKnown, Request, timer, monitor

\* What each request's first step reads, asks for and goes to.
LEMMA BeginReads ==
  ASSUME NEW a \in Admins, NEW s \in Scenes,
         \/ UpdateToTimer(a, s) \/ UpdateToNotify(a, s) \/ UpdateToOther(a, s)
         \/ SceneStart(a, s) \/ SceneStop(a, s) \/ DelScene(a, s)
  PROVE  \/ /\ "timer" \in Kinds[s] /\ row[s].status # "running"
            /\ Request(a, s, Condition("timer"), "store")
         \/ "notify" \in Kinds[s] /\ Request(a, s, Condition("notify"), "lookup")
         \/ "other" \in Kinds[s] /\ Request(a, s, Condition("other"), "store")
         \/ /\ row[s].cond.kind = "timer"
            /\ \E to \in {"addJob", "stopJob", "dropJob"} : Request(a, s, None, to)
         \/ /\ row[s].cond.kind = "notify"
            /\ \E to \in {"stopRule", "dropRule"} : Request(a, s, None, to)
         \/ row[s].cond.kind = "none" /\ Request(a, s, None, "erase")
BY DEF UpdateToTimer, UpdateToNotify, UpdateToOther, Editable, SceneStart, SceneStop, DelScene

LEMMA BeginTypes ==
  ASSUME TypeInv, NEW a \in Admins, Begin(a)
  PROVE  TypeInv'
<1>1. PICK s \in Scenes :
        \/ UpdateToTimer(a, s) \/ UpdateToNotify(a, s) \/ UpdateToOther(a, s)
        \/ SceneStart(a, s) \/ SceneStop(a, s) \/ DelScene(a, s)
  BY DEF Begin
<1>2. requests < MaxRequests
  BY <1>1, BeginReads DEF Request
<1>3. /\ None \in Conditions
      /\ \A k \in {"timer", "notify", "other"} : Condition(k) \in Conditions
  BY <1>2, ConditionTypes, RowTypes DEF TypeInv
<1>4. PICK c \in Conditions, to \in Steps : Request(a, s, c, to)
  BY <1>1, <1>3, BeginReads, Names
<1> QED BY <1>4, RequestTypes

LEMMA SetStatusTypes ==
  ASSUME TypeInv, NEW s \in Scenes, NEW st \in {"running", "stopped"}, SetStatus(s, st)
  PROVE  row' \in [Scenes -> Rows]
<1>1. row[s].cond \in Conditions
  BY DEF TypeInv, TypeOK, Rows
<1> QED BY <1>1, RowTypes DEF SetStatus, TypeInv, TypeOK

LEMMA ProceedTypes ==
  ASSUME TypeInv, NEW a \in Admins, NEW to \in Steps, Proceed(a, to), pc[a] # "idle"
  PROVE  AdminTypes' /\ faults' \in 0..MaxFaults
<1> AdminTypes
  BY DEF TypeInv, TypeOK, AdminTypes
<1>1. AdminTypes'
  BY GoToTypes, AnswerTypes DEF Proceed
<1>2. faults' \in 0..MaxFaults
  <2>1. CASE UNCHANGED faults
    BY <2>1 DEF TypeInv, TypeOK
  <2>2. CASE Fault("call")
    BY <2>2, FaultType DEF TypeInv
  <2> QED BY <2>1, <2>2 DEF Proceed
<1> QED BY <1>1, <1>2

LEMMA StepTypes ==
  ASSUME TypeInv, NEW a \in Admins, Step(a)
  PROVE  TypeInv'
<1> AdminTypes
  BY DEF TypeInv, TypeOK, AdminTypes
<1> DEFINE Rest == /\ row' \in [Scenes -> Rows] /\ rules' \subseteq Scenes
                   /\ job' \in [Scenes -> 0..MaxRequests] /\ removing' \in Scenes \cup {NoScene}
                   /\ UNCHANGED monitor
                   /\ requests' \in 0..MaxRequests /\ faults' \in 0..MaxFaults
<1>0. ASSUME Rest, AdminTypes' PROVE TypeInv'
  BY <1>0 DEF TypeInv, TypeOK, AdminTypes, monitor
<1>t. pc[a] # "idle" => target[a] \in Scenes
  BY DEF AdminTypes, TargetKnown
<1>1. CASE RuleExist(a)
  <2>1. AdminTypes'
    BY <1>1, GoToTypes, Names DEF RuleExist
  <2> QED BY <1>0, <1>1, <2>1 DEF RuleExist, TypeInv, TypeOK, timer, monitor, bounds
<1>2. CASE CreateRule(a) \/ UpdateRule(a) \/ StopRule(a) \/ DropRule(a)
  <2>1. target[a] \in Scenes /\ pc[a] # "idle"
    BY <1>2, <1>t DEF CreateRule, UpdateRule, StopRule, DropRule
  <2>2. rules' \subseteq Scenes
    BY <1>2, <2>1, Names DEF CreateRule, UpdateRule, StopRule, DropRule, TypeInv, TypeOK
  <2>3. (UNCHANGED faults /\ Answer(a)) \/ \E to \in Steps : Proceed(a, to)
    BY <1>2, Names DEF CreateRule, UpdateRule, StopRule, DropRule
  <2>4. AdminTypes' /\ faults' \in 0..MaxFaults
    BY <2>1, <2>3, ProceedTypes, AnswerTypes DEF TypeInv, TypeOK
  <2>5. UNCHANGED <<row, timer, monitor, requests>>
    BY <1>2 DEF CreateRule, UpdateRule, StopRule, DropRule
  <2> QED BY <1>0, <2>2, <2>4, <2>5 DEF TypeInv, TypeOK, timer
<1>3. CASE StoreScene(a)
  <2>1. seen[a].status \in {"", "running", "stopped", "gone"} /\ asked[a] \in Conditions
    BY DEF AdminTypes, Rows
  <2>2. [status |-> seen[a].status, cond |-> asked[a]] \in Rows
    BY <2>1 DEF Rows
  <2>3. row' \in [Scenes -> Rows]
    BY <1>3, <2>2 DEF StoreScene, TypeInv, TypeOK
  <2> QED BY <1>0, <1>3, <2>3, AnswerTypes DEF StoreScene, TypeInv, TypeOK, timer, monitor, bounds
<1>4. CASE AddJob(a)
  <2>1. AdminTypes'
    BY <1>4, GoToTypes, Names DEF AddJob
  <2>2. seen[a].cond.edit \in 0..MaxRequests
    BY DEF AdminTypes, Rows, Conditions
  <2>3. job' \in [Scenes -> 0..MaxRequests]
    BY <1>4, <2>2 DEF AddJob, TypeInv, TypeOK
  <2> QED BY <1>0, <1>4, <2>1, <2>3 DEF AddJob, TypeInv, TypeOK, monitor, bounds
<1>5. CASE MarkStart(a) \/ MarkStop(a)
  <2>1. row' \in [Scenes -> Rows]
    BY <1>5, <1>t, SetStatusTypes DEF MarkStart, MarkStop
  <2> QED BY <1>0, <1>5, <2>1, AnswerTypes DEF MarkStart, MarkStop, TypeInv, TypeOK, timer, monitor, bounds
<1>6. CASE DeleteJob(a)
  <2>1. AdminTypes'
    BY <1>6, GoToTypes, Names DEF DeleteJob
  <2>2. removing' \in Scenes
    BY <1>6, <1>t DEF DeleteJob
  <2> QED BY <1>0, <1>6, <2>1, <2>2 DEF DeleteJob, TypeInv, TypeOK, monitor, bounds
<1>7. CASE Erase(a)
  <2>1. row' \in [Scenes -> Rows]
    BY <1>7, RowTypes DEF Erase, TypeInv, TypeOK
  <2> QED BY <1>0, <1>7, <2>1, AnswerTypes DEF Erase, TypeInv, TypeOK, timer, monitor, bounds
<1>8. CASE CallFails(a)
  <2>1. faults' \in 0..MaxFaults
    BY <1>8, FaultType DEF CallFails, TypeInv
  <2> QED BY <1>0, <1>8, <2>1, AnswerTypes DEF CallFails, TypeInv, TypeOK, timer, monitor
<1> QED BY <1>1, <1>2, <1>3, <1>4, <1>5, <1>6, <1>7, <1>8 DEF Step

LEMMA MonitorTypes ==
  ASSUME TypeInv, Monitor
  PROVE  TypeInv'
<1> USE DEF TypeInv, TypeOK, TargetKnown, timer, client, bounds
<1>1. CASE MonitorTick
  <2>1. \A s \in Scenes : row[s].status \in {"", "running", "stopped", "gone"}
    BY DEF Rows
  <2>2. snapshot' \in [Scenes -> {"", "running", "stopped", "gone"}]
    BY <1>1, <2>1 DEF MonitorTick
  <2> QED BY <1>1, <2>2 DEF MonitorTick
<1>2. CASE MonitorWrite
  <2>1. faults' \in 0..MaxFaults
    BY <1>2, FaultType DEF MonitorWrite
  <2>2. write' \in Scenes \cup {NoScene}
    BY <1>2, RowTypes DEF MonitorWrite
  <2>3. row' \in [Scenes -> Rows]
    <3>1. CASE UNCHANGED row
      BY <3>1
    <3>2. CASE SetStatus(write, "stopped")
      <4>1. write \in Scenes
        BY <1>2 DEF MonitorWrite
      <4> QED BY <3>2, <4>1, SetStatusTypes
    <3> QED BY <1>2, <3>1, <3>2 DEF MonitorWrite
  <2> QED BY <1>2, <2>1, <2>2, <2>3 DEF MonitorWrite
<1>3. ASSUME NEW s \in Scenes, MonitorAsk(s) PROVE TypeInv'
  <2>1. faults' \in 0..MaxFaults
    BY <1>3, FaultType DEF MonitorAsk
  <2>2. write' \in Scenes \cup {NoScene}
    BY <1>3 DEF MonitorAsk
  <2>3. snapshot' \in [Scenes -> {"", "running", "stopped", "gone"}] /\ todo' \subseteq Scenes
    BY <1>3 DEF MonitorAsk
  <2>4. UNCHANGED <<row, timer, rules, client, requests>>
    BY <1>3 DEF MonitorAsk
  <2> QED BY <2>1, <2>2, <2>3, <2>4
<1> QED BY <1>1, <1>2, <1>3 DEF Monitor

LEMMA OthersTypes ==
  ASSUME TypeInv, LoopRemove \/ Restart \/ \E s \in Scenes : AddScene(s)
  PROVE  TypeInv'
<1> TypeOK
  BY DEF TypeInv
<1> USE DEF TypeInv, TypeOK, TargetKnown
<1>1. CASE LoopRemove
  BY <1>1, Bounds DEF LoopRemove, client, monitor, bounds
<1>2. CASE Restart
  <2>1. faults' \in 0..MaxFaults
    BY <1>2, FaultType DEF Restart
  <2>2. \A s \in Scenes : row[s].cond.edit \in 0..MaxRequests
    BY DEF Rows, Conditions
  <2>3. job' \in [Scenes -> 0..MaxRequests]
    BY <1>2, <2>2, Bounds DEF Restart
  <2>4. /\ pc' \in [Admins -> Steps] /\ target' \in [Admins -> Scenes \cup {NoScene}]
        /\ asked' \in [Admins -> Conditions] /\ seen' \in [Admins -> Rows] /\ TargetKnown'
    BY <1>2, Names, RowTypes DEF Restart
  <2>5. /\ todo' \subseteq Scenes /\ snapshot' \in [Scenes -> {"", "running", "stopped", "gone"}]
        /\ write' \in Scenes \cup {NoScene}
    BY <1>2, RowTypes DEF Restart
  <2> QED BY <1>2, <2>1, <2>3, <2>4, <2>5 DEF Restart
<1>3. ASSUME NEW s \in Scenes, AddScene(s) PROVE TypeInv'
  <2>1. requests' \in 0..MaxRequests
    BY <1>3, CountType DEF AddScene
  <2>2. [status |-> "", cond |-> None] \in Rows
    <3>1. None \in Conditions /\ "" \in {"", "running", "stopped"}
      BY RowTypes
    <3> QED BY <3>1, RowTypes
  <2>3. row' \in [Scenes -> Rows]
    BY <1>3, <2>2 DEF AddScene
  <2>4. UNCHANGED <<job, removing, rules, pc, target, asked, seen, todo, snapshot, write, faults>>
    BY <1>3 DEF AddScene, timer, client, monitor
  <2> QED BY <2>1, <2>3, <2>4
<1> QED BY <1>1, <1>2, <1>3

LEMMA TypeStep == TypeInv /\ [Next]_vars => TypeInv'
<1> SUFFICES ASSUME TypeInv, [Next]_vars PROVE TypeInv'
  OBVIOUS
<1>1. CASE Next
  BY <1>1, BeginTypes, StepTypes, MonitorTypes, OthersTypes DEF Next
<1>2. CASE UNCHANGED vars
  BY <1>2 DEF vars, TypeInv, TypeOK, TargetKnown
<1> QED BY <1>1, <1>2

\* Every variable keeps its type: the rows, the timer's jobs, eKuiper's rules and what
\* the requests and the monitor have read of them (sceneapp.go, scene/monitor.go).
THEOREM TypeCorrect == Spec => []TypeOK
<1>1. TypeInv => TypeOK
  BY DEF TypeInv
<1> QED BY <1>1, TypeInit, TypeStep, PTL DEF Spec

(***************************************************************************)
(* The kinds of scenes                                                     *)
(***************************************************************************)
OneAdmin == \A a, b \in Admins : a = b

\* A scene's condition is of a kind that some update asked for.
KindsKept ==
  /\ \A s \in Scenes : row[s].cond.kind \in Kinds[s] \cup {"none"}
  /\ \A a \in Admins : pc[a] \in {"lookup", "create", "replace", "store"} =>
       asked[a].kind \in Kinds[target[a]]

LEMMA KindsInit == Init => KindsKept
<1> SUFFICES ASSUME Init PROVE KindsKept
  OBVIOUS
<1>1. \A s \in Scenes : row[s].cond.kind = "none"
  BY RowTypes DEF Init
<1>2. \A a \in Admins : pc[a] = "idle"
  BY DEF Init
<1> QED BY <1>1, <1>2 DEF KindsKept

LEMMA ConditionKind ==
  ASSUME NEW k
  PROVE  Condition(k).kind = k
BY DEF Condition

\* No write changes a condition but an update's.
LEMMA SetStatusCond ==
  ASSUME TypeInv, NEW q \in Scenes, NEW st, SetStatus(q, st)
  PROVE  \A s \in Scenes : row'[s].cond = row[s].cond
BY DEF TypeInv, TypeOK, SetStatus

LEMMA MonitorCond ==
  ASSUME TypeInv, MonitorWrite
  PROVE  \A s \in Scenes : row'[s].cond = row[s].cond
BY SetStatusCond DEF MonitorWrite, TypeInv, TypeOK

\* A step that changes neither conditions nor what a request is at.
LEMMA KindsSame ==
  ASSUME KindsKept, TypeInv, UNCHANGED client, \A s \in Scenes : row'[s].cond = row[s].cond
  PROVE  KindsKept'
BY DEF KindsKept, client, TypeInv, TypeOK, TargetKnown

LEMMA BeginKinds ==
  ASSUME TypeInv, KindsKept, NEW a \in Admins, Begin(a)
  PROVE  KindsKept'
<1>1. PICK s \in Scenes :
        \/ UpdateToTimer(a, s) \/ UpdateToNotify(a, s) \/ UpdateToOther(a, s)
        \/ SceneStart(a, s) \/ SceneStop(a, s) \/ DelScene(a, s)
  BY DEF Begin
<1>2. PICK c, to : /\ Request(a, s, c, to)
                   /\ to \in {"lookup", "create", "replace", "store"} => c.kind \in Kinds[s]
  BY <1>1, BeginReads, ConditionKind
<1> QED BY <1>2 DEF Request, KindsKept, TypeInv, TypeOK, TargetKnown

LEMMA StepKinds ==
  ASSUME TypeInv, KindsKept, NEW a \in Admins, Step(a)
  PROVE  KindsKept'
<1> USE DEF TypeInv, TypeOK, TargetKnown, KindsKept
<1>t. pc[a] # "idle" => target[a] \in Scenes
  OBVIOUS
\* The request goes on or ends, the conditions as they were.
<1>a. ASSUME \A s \in Scenes : row'[s].cond = row[s].cond, Answer(a) PROVE KindsKept'
  BY <1>a DEF Answer
<1>b. ASSUME \A s \in Scenes : row'[s].cond = row[s].cond, NEW to, GoTo(a, to),
             to \in {"lookup", "create", "replace", "store"} =>
               pc[a] \in {"lookup", "create", "replace", "store"}
      PROVE  KindsKept'
  BY <1>b DEF GoTo
<1>1. CASE RuleExist(a)
  BY <1>1, <1>b DEF RuleExist
<1>2. CASE CreateRule(a) \/ UpdateRule(a) \/ StopRule(a) \/ DropRule(a)
  BY <1>2, <1>a, <1>b DEF CreateRule, UpdateRule, StopRule, DropRule, Proceed
<1>3. CASE StoreScene(a)
  BY <1>3 DEF StoreScene, Answer
<1>4. CASE AddJob(a) \/ DeleteJob(a)
  BY <1>4, <1>b DEF AddJob, DeleteJob
<1>5. CASE MarkStart(a) \/ MarkStop(a)
  BY <1>5, <1>a, <1>t, SetStatusCond DEF MarkStart, MarkStop
<1>6. CASE Erase(a)
  BY <1>6, RowTypes DEF Erase, Answer
<1>7. CASE CallFails(a)
  BY <1>7, <1>a DEF CallFails
<1> QED BY <1>1, <1>2, <1>3, <1>4, <1>5, <1>6, <1>7 DEF Step

LEMMA OthersKinds ==
  ASSUME TypeInv, KindsKept,
         LoopRemove \/ Monitor \/ Restart \/ \E s \in Scenes : AddScene(s)
  PROVE  KindsKept'
<1>1. CASE LoopRemove \/ MonitorTick \/ \E s \in Scenes : MonitorAsk(s)
  BY <1>1, KindsSame DEF LoopRemove, MonitorTick, MonitorAsk
<1>2. CASE MonitorWrite
  BY <1>2, KindsSame, MonitorCond DEF MonitorWrite
<1>3. CASE Restart
  BY <1>3 DEF Restart, KindsKept
<1>4. ASSUME NEW s \in Scenes, AddScene(s) PROVE KindsKept'
  BY <1>4, RowTypes DEF AddScene, client, KindsKept, TypeInv, TypeOK, TargetKnown
<1> QED BY <1>1, <1>2, <1>3, <1>4 DEF Monitor

LEMMA KindsStep == TypeInv /\ KindsKept /\ [Next]_vars => KindsKept'
<1> SUFFICES ASSUME TypeInv, KindsKept, [Next]_vars PROVE KindsKept'
  OBVIOUS
<1>1. CASE Next
  BY <1>1, BeginKinds, StepKinds, OthersKinds DEF Next
<1>2. CASE UNCHANGED vars
  BY <1>2, KindsSame DEF vars, client
<1> QED BY <1>1, <1>2

(***************************************************************************)
(* The timer and the rows                                                  *)
(***************************************************************************)

\* A timer scene stays one.
SteadyTimer == \A s \in Scenes : "timer" \in Kinds[s] => Kinds[s] = {"timer"}

\* The client waits for the timer, and no write to the database fails.
Careful == Patient /\ "db" \notin Faults

TimerScenes == {s \in Scenes : "timer" \in Kinds[s]}

Want(s) == IF Restores(s) THEN row[s].cond.edit ELSE 0

\* The timer has nothing of the others, and the monitor nothing of the timer's scenes.
Separate ==
  /\ todo \cap TimerScenes = {}
  /\ write \notin TimerScenes
  /\ \A s \in Scenes \ TimerScenes : removing # s /\ job[s] = 0

\* What a request at a timer scene has read is still so, and the timer as its step needs it.
AtTimerScene(a, s) ==
  /\ row[s] = seen[a]
  /\ row[s] # Gone
  /\ pc[a] \in {"store", "addJob", "markStart", "stopJob", "markStop", "dropJob", "erase"}
  /\ pc[a] \in {"addJob", "markStart"} => row[s].cond.kind = "timer"
  /\ pc[a] = "store" => row[s].status # "running"
  /\ pc[a] \in {"store", "addJob", "stopJob", "dropJob"} => removing = NoScene /\ job[s] = Want(s)
  /\ pc[a] = "markStart" => removing = NoScene /\ job[s] = row[s].cond.edit
  /\ pc[a] \in {"markStop", "erase"} => removing = s \/ job[s] = 0

\* A scene nobody is at: a job that is on its way out is not wanted.
AtRest(s) == IF removing = s THEN Want(s) = 0 ELSE job[s] = Want(s)

TimerInv ==
  /\ Separate
  /\ \A a \in Admins : pc[a] = "idle" <=> target[a] = NoScene
  /\ \A a \in Admins : pc[a] \in {"addJob", "stopJob", "dropJob"} => target[a] \in TimerScenes
  /\ removing # NoScene => \A a \in Admins : target[a] \in {NoScene, removing}
  /\ \A s \in TimerScenes :
       /\ \A a \in Admins : target[a] = s => AtTimerScene(a, s)
       /\ (\A a \in Admins : target[a] # s) => AtRest(s)

LEMMA TimerInit == Init => TimerInv
<1> SUFFICES ASSUME Init PROVE TimerInv
  OBVIOUS
<1>1. ASSUME NEW s \in Scenes PROVE AtRest(s)
  BY RowTypes, NoSceneAssumption DEF Init, AtRest, Want, Restores
<1>2. Separate
  BY RowTypes, NoSceneAssumption DEF Init, Separate, TimerScenes
<1>3. \A a \in Admins : target[a] = NoScene /\ pc[a] = "idle"
  BY DEF Init
<1> QED BY <1>1, <1>2, <1>3, NoSceneAssumption DEF TimerInv, TimerScenes, Init

\* What the invariant is for.
LEMMA TimerFollows ==
  ASSUME TypeInv, KindsKept, TimerInv
  PROVE  TimerAgrees
<1> SUFFICES ASSUME NEW s \in Scenes, removing # s, \A a \in Admins : target[a] # s
             PROVE  job[s] = Want(s)
  BY DEF TimerAgrees, Want
<1>1. CASE s \in TimerScenes
  BY <1>1 DEF TimerInv, AtRest
<1>2. CASE s \notin TimerScenes
  BY <1>2 DEF TimerInv, Separate, TimerScenes, KindsKept, Want, Restores
<1> QED BY <1>1, <1>2

\* A request ends: what matters is the scene it was at.
LEMMA TimerAnswer ==
  ASSUME OneAdmin, TypeInv, TimerInv, NEW a \in Admins, NEW s \in Scenes, target[a] = s,
         Answer(a), UNCHANGED <<timer, monitor>>, \A q \in Scenes : q # s => row'[q] = row[q],
         s \in TimerScenes => AtRest(s)'
  PROVE  TimerInv'
<1>1. \A b \in Admins : b = a
  BY DEF OneAdmin
<1>2. \A b \in Admins : target'[b] = NoScene /\ pc'[b] = "idle"
  BY <1>1 DEF Answer, TypeInv, TypeOK
<1>3. Separate'
  BY DEF TimerInv, Separate, timer, monitor
<1>4. ASSUME NEW q \in TimerScenes, q # s PROVE AtRest(q)'
  <2>1. AtRest(q)
    BY <1>1, <1>4 DEF TimerInv
  <2>2. row'[q] = row[q] /\ job' = job /\ removing' = removing
    BY <1>4 DEF timer, TimerScenes
  <2> QED BY <2>1, <2>2 DEF AtRest, Want, Restores
<1>5. \A q \in TimerScenes : AtRest(q)'
  BY <1>4
<1> QED BY <1>2, <1>3, <1>5, NoSceneAssumption DEF TimerInv, TimerScenes

\* A request goes on: what it leaves at the timer is at its scene only.
LEMMA TimerGoTo ==
  ASSUME OneAdmin, TypeInv, TimerInv, NEW a \in Admins, NEW s \in Scenes, target[a] = s,
         NEW to, GoTo(a, to), to \notin {"idle", "addJob", "stopJob", "dropJob"},
         UNCHANGED <<row, monitor>>, \A q \in Scenes : q # s => job'[q] = job[q],
         removing' = removing \/ (s \in TimerScenes /\ removing' = s /\ removing = NoScene),
         s \in TimerScenes => AtTimerScene(a, s)',
         s \notin TimerScenes => job'[s] = job[s]
  PROVE  TimerInv'
<1>1. \A b \in Admins : b = a
  BY DEF OneAdmin
<1>2. \A b \in Admins : target'[b] = s /\ pc'[b] = to
  BY <1>1 DEF GoTo, TypeInv, TypeOK
<1>3. Separate'
  BY DEF TimerInv, Separate, monitor
<1>4. ASSUME NEW q \in TimerScenes, q # s PROVE AtRest(q)'
  <2>1. AtRest(q) /\ q \in Scenes
    BY <1>1, <1>4 DEF TimerInv, TimerScenes
  <2>2. row' = row /\ job'[q] = job[q] /\ removing' \in {removing, s} /\ removing \in {removing', NoScene}
    BY <1>4 DEF TimerScenes
  <2>3. Want(q)' = Want(q)
    BY <2>2 DEF Want, Restores
  <2> QED BY <1>4, <2>1, <2>2, <2>3, NoSceneAssumption DEF AtRest
<1>5. \A q \in TimerScenes : q # s => AtRest(q)'
  BY <1>4
<1>6. removing' # NoScene => removing' = s
  BY <1>1, NoSceneAssumption DEF TimerInv
<1>7. s \in TimerScenes => \A b \in Admins : AtTimerScene(b, s)'
  BY <1>1
<1>8. \A b \in Admins : ~(pc'[b] = "idle") /\ ~(target'[b] = NoScene)
  BY <1>2, NoSceneAssumption
<1> QED BY <1>2, <1>3, <1>5, <1>6, <1>7, <1>8 DEF TimerInv, TimerScenes

LEMMA TimerBegin ==
  ASSUME OneAdmin, SteadyTimer, Patient, TypeInv, KindsKept, TimerInv,
         NEW a \in Admins, Begin(a)
  PROVE  TimerInv'
<1>1. PICK s \in Scenes :
        \/ UpdateToTimer(a, s) \/ UpdateToNotify(a, s) \/ UpdateToOther(a, s)
        \/ SceneStart(a, s) \/ SceneStop(a, s) \/ DelScene(a, s)
  BY DEF Begin
<1>2. \A b \in Admins : b = a
  BY DEF OneAdmin
<1>3. row[s].cond.kind \in Kinds[s] \cup {"none"}
  BY DEF KindsKept
<1>4. "timer" \in Kinds[s] => Kinds[s] = {"timer"}
  BY DEF SteadyTimer
<1>5. PICK c, to :
        /\ Request(a, s, c, to) /\ to # "idle"
        /\ to \in {"addJob", "stopJob", "dropJob"} => "timer" \in Kinds[s]
        /\ "timer" \in Kinds[s] =>
             \/ to = "store" /\ row[s].status # "running"
             \/ to \in {"addJob", "stopJob", "dropJob"} /\ row[s].cond.kind = "timer"
             \/ to = "erase" /\ row[s].cond.kind = "none"
  BY <1>1, <1>3, <1>4, BeginReads
<1>6. /\ pc[a] = "idle" /\ removing = NoScene /\ row[s] # Gone
      /\ UNCHANGED <<row, timer, monitor>>
      /\ pc' = [pc EXCEPT ![a] = to] /\ target' = [target EXCEPT ![a] = s]
      /\ seen' = [seen EXCEPT ![a] = row[s]]
  BY <1>5 DEF Request
<1>7. \A q \in TimerScenes : AtRest(q) /\ AtRest(q)' /\ q \in Scenes
  BY <1>2, <1>6, NoSceneAssumption DEF TimerInv, TimerScenes, AtRest, Want, Restores, timer
<1>8. Separate'
  BY <1>6 DEF TimerInv, Separate, timer, monitor
<1>9. \A b \in Admins : pc'[b] = to /\ target'[b] = s /\ seen'[b] = row[s]
  BY <1>2, <1>6 DEF TypeInv, TypeOK
<1>10. s \in TimerScenes => job[s] = Want(s) /\ (to = "erase" => job[s] = 0)
  BY <1>5, <1>6, <1>7, NoSceneAssumption DEF AtRest, Want, Restores, TimerScenes
<1>11. ASSUME s \in TimerScenes, NEW b \in Admins PROVE AtTimerScene(b, s)'
  <2>1. row' = row /\ job' = job /\ removing' = NoScene /\ Want(s)' = Want(s)
    BY <1>6 DEF timer, Want, Restores
  <2>2. to \in {"store", "addJob", "stopJob", "dropJob", "erase"}
    BY <1>5, <1>11 DEF TimerScenes
  <2> QED BY <1>5, <1>6, <1>9, <1>10, <1>11, <2>1, <2>2 DEF AtTimerScene, TimerScenes
<1> QED
  <2>1. to \in {"addJob", "stopJob", "dropJob"} => s \in TimerScenes
    BY <1>5 DEF TimerScenes
  <2>2. removing' = NoScene /\ s # NoScene
    BY <1>6, NoSceneAssumption DEF timer
  <2> QED BY <1>5, <1>7, <1>8, <1>9, <1>11, <2>1, <2>2 DEF TimerInv

LEMMA TimerGoesOn ==
  ASSUME OneAdmin, Careful, TypeInv, KindsKept, TimerInv, NEW a \in Admins, Step(a)
  PROVE  TimerInv'
<1>1. PICK s \in Scenes : target[a] = s
  BY DEF Step, RuleExist, CreateRule, UpdateRule, StoreScene, AddJob, MarkStart, DeleteJob,
         StopRule, MarkStop, DropRule, Erase, CallFails, TypeInv, TargetKnown
<1>2. s \in TimerScenes => AtTimerScene(a, s)
  BY <1>1 DEF TimerInv
<1>3. CASE pc[a] \in {"lookup", "create", "replace", "stopRule", "dropRule"}
  <2>1. s \notin TimerScenes
    BY <1>2, <1>3 DEF AtTimerScene
  <2>2. UNCHANGED <<row, timer, monitor>>
    BY <1>3 DEF Step, RuleExist, CreateRule, UpdateRule, StoreScene, AddJob, MarkStart,
                DeleteJob, StopRule, MarkStop, DropRule, Erase, CallFails
  <2>3. Answer(a) \/ \E to \in {"create", "replace", "store", "markStart", "markStop", "erase"} : GoTo(a, to)
    BY <1>3 DEF Step, RuleExist, CreateRule, UpdateRule, StoreScene, AddJob, MarkStart,
                DeleteJob, StopRule, MarkStop, DropRule, Erase, CallFails, Proceed
  <2>4. CASE Answer(a)
    BY <1>1, <2>1, <2>2, <2>4, TimerAnswer
  <2>5. ASSUME NEW to \in {"create", "replace", "store", "markStart", "markStop", "erase"}, GoTo(a, to)
        PROVE  TimerInv'
    BY <1>1, <2>1, <2>2, <2>5, TimerGoTo DEF timer
  <2> QED BY <2>3, <2>4, <2>5
<1>4. ~CallFails(a) \/ pc[a] \in {"lookup", "create", "replace", "stopRule", "dropRule"}
  BY DEF CallFails, Careful, Fault
<1>5. CASE StoreScene(a)
  <2>1. AtRest(s)' \/ s \notin TimerScenes
    <3> SUFFICES ASSUME s \in TimerScenes PROVE AtRest(s)'
      OBVIOUS
    <3>1. row[s] = seen[a] /\ row[s] # Gone /\ row[s].status # "running" /\ removing = NoScene /\ job[s] = Want(s)
      BY <1>2, <1>5 DEF AtTimerScene, StoreScene
    <3>2. row'[s] = [status |-> seen[a].status, cond |-> asked[a]] /\ UNCHANGED timer
      BY <1>1, <1>5, <3>1 DEF StoreScene, TypeInv, TypeOK
    <3>3. job[s] = 0
      BY <3>1 DEF Want, Restores
    <3>4. row'[s].status # "running"
      BY <3>1, <3>2
    <3> QED BY <3>1, <3>2, <3>3, <3>4, NoSceneAssumption DEF AtRest, Want, Restores, timer
  <2>2. \A q \in Scenes : q # s => row'[q] = row[q]
    BY <1>1, <1>5 DEF StoreScene, TypeInv, TypeOK
  <2> QED BY <1>1, <1>5, <2>1, <2>2, TimerAnswer DEF StoreScene
<1>6. CASE AddJob(a)
  <2>1. s \in TimerScenes /\ removing = NoScene /\ job[s] = Want(s) /\ row[s] = seen[a] /\ row[s] # Gone
        /\ row[s].cond.kind = "timer"
    <3>1. s \in TimerScenes
      BY <1>1, <1>6 DEF AddJob, TimerInv
    <3> QED BY <1>2, <1>6, <3>1 DEF AtTimerScene, AddJob
  <2>2. /\ UNCHANGED <<row, removing, monitor>> /\ GoTo(a, "markStart")
        /\ \A q \in Scenes : q # s => job'[q] = job[q]
    BY <1>1, <1>6 DEF AddJob, TypeInv, TypeOK
  <2>3. job'[s] = row[s].cond.edit
    <3>1. CASE job[s] # 0
      BY <1>1, <1>6, <2>1, <3>1 DEF AddJob, Want, Restores
    <3>2. CASE job[s] = 0
      BY <1>1, <1>6, <2>1, <3>2 DEF AddJob, TypeInv, TypeOK
    <3> QED BY <3>1, <3>2
  <2>4. AtTimerScene(a, s)'
    BY <2>1, <2>2, <2>3 DEF AtTimerScene, GoTo, TypeInv, TypeOK
  <2> QED BY <1>1, <2>1, <2>2, <2>4, TimerGoTo
<1>7. CASE DeleteJob(a)
  <2>1. s \in TimerScenes
    BY <1>1, <1>7 DEF DeleteJob, TimerInv
  <2>2. /\ removing = NoScene /\ removing' = s /\ UNCHANGED <<row, job, monitor>>
        /\ GoTo(a, "markStop") \/ GoTo(a, "erase")
    BY <1>1, <1>7 DEF DeleteJob
  <2>3. row[s] = seen[a] /\ row[s] # Gone
    BY <1>2, <2>1 DEF AtTimerScene
  <2>4. AtTimerScene(a, s)'
    BY <2>2, <2>3, NoSceneAssumption DEF AtTimerScene, GoTo, TypeInv, TypeOK
  <2> QED BY <1>1, <2>1, <2>2, <2>4, TimerGoTo
<1>8. CASE MarkStart(a) \/ MarkStop(a)
  <2>1. PICK st \in {"running", "stopped"} : SetStatus(s, st) /\ (st = "running" <=> MarkStart(a))
    BY <1>1, <1>8 DEF MarkStart, MarkStop
  <2>2. UNCHANGED timer
    BY <1>8 DEF MarkStart, MarkStop
  <2>3. AtRest(s)' \/ s \notin TimerScenes
    <3> SUFFICES ASSUME s \in TimerScenes PROVE AtRest(s)'
      OBVIOUS
    <3>1. row'[s] = [status |-> st, cond |-> row[s].cond]
      BY <1>2, <2>1 DEF AtTimerScene, SetStatus, TypeInv, TypeOK
    <3>2. CASE MarkStart(a)
      <4>1. removing = NoScene /\ job[s] = row[s].cond.edit /\ row[s].cond.kind = "timer"
        BY <1>2, <3>2 DEF MarkStart, AtTimerScene
      <4>2. Want(s)' = row[s].cond.edit
        BY <2>1, <3>1, <3>2, <4>1 DEF Want, Restores
      <4> QED BY <2>2, <4>1, <4>2, NoSceneAssumption DEF AtRest, timer
    <3>3. CASE MarkStop(a)
      <4>1. removing = s \/ job[s] = 0
        BY <1>2, <3>3 DEF MarkStop, AtTimerScene
      <4>2. st # "running"
        BY <1>8, <2>1, <3>3 DEF MarkStart, MarkStop
      <4>3. Want(s)' = 0
        BY <3>1, <4>2 DEF Want, Restores
      <4> QED BY <2>2, <4>1, <4>3 DEF AtRest, timer
    <3> QED BY <1>8, <3>2, <3>3
  <2>4. \A q \in Scenes : q # s => row'[q] = row[q]
    BY <2>1 DEF SetStatus, TypeInv, TypeOK
  <2> QED BY <1>1, <1>8, <2>3, <2>4, TimerAnswer DEF MarkStart, MarkStop
<1>9. CASE Erase(a)
  <2>1. AtRest(s)' \/ s \notin TimerScenes
    <3> SUFFICES ASSUME s \in TimerScenes PROVE AtRest(s)'
      OBVIOUS
    <3>1. removing = s \/ job[s] = 0
      BY <1>2, <1>9 DEF Erase, AtTimerScene
    <3>2. row'[s] = Gone /\ UNCHANGED timer
      BY <1>1, <1>9 DEF Erase, TypeInv, TypeOK
    <3>3. Want(s)' = 0
      BY <3>2, RowTypes DEF Want, Restores
    <3> QED BY <3>1, <3>2, <3>3 DEF AtRest, timer
  <2>2. \A q \in Scenes : q # s => row'[q] = row[q]
    BY <1>1, <1>9 DEF Erase, TypeInv, TypeOK
  <2> QED BY <1>1, <1>9, <2>1, <2>2, TimerAnswer DEF Erase
<1> QED BY <1>3, <1>4, <1>5, <1>6, <1>7, <1>8, <1>9
        DEF Step, RuleExist, CreateRule, UpdateRule, StopRule, DropRule

\* A step elsewhere, the timer scenes' rows and their requests as they were.
LEMMA TimerSame ==
  ASSUME TypeInv, TimerInv, UNCHANGED <<timer, client>>, Separate',
         \A s \in TimerScenes : row'[s] = row[s]
  PROVE  TimerInv'
<1>1. ASSUME NEW s \in TimerScenes, AtRest(s) PROVE AtRest(s)'
  BY <1>1 DEF AtRest, Want, Restores, timer
<1>2. ASSUME NEW s \in TimerScenes, NEW a \in Admins, AtTimerScene(a, s) PROVE AtTimerScene(a, s)'
  BY <1>2 DEF AtTimerScene, Want, Restores, timer, client
<1> QED BY <1>1, <1>2 DEF TimerInv, timer, client

LEMMA TimerOthers ==
  ASSUME SteadyTimer, TypeInv, KindsKept, TimerInv,
         LoopRemove \/ Monitor \/ Restart \/ \E s \in Scenes : AddScene(s)
  PROVE  TimerInv'
<1>1. CASE LoopRemove
  <2>1. /\ removing \in Scenes /\ removing' = NoScene /\ job'[removing] = 0
        /\ \A q \in Scenes : q # removing => job'[q] = job[q]
        /\ UNCHANGED <<row, client, monitor>>
    BY <1>1 DEF LoopRemove, TypeInv, TypeOK
  <2>2. removing \in TimerScenes
    BY <2>1 DEF TimerInv, Separate
  <2>3. Separate'
    BY <2>1, <2>2, NoSceneAssumption DEF TimerInv, Separate, monitor
  <2>4. ASSUME NEW s \in TimerScenes, AtRest(s) PROVE AtRest(s)'
    BY <2>1, <2>4, NoSceneAssumption DEF AtRest, Want, Restores, TimerScenes
  <2>5. ASSUME NEW s \in TimerScenes, NEW a \in Admins, target[a] = s, AtTimerScene(a, s)
        PROVE  AtTimerScene(a, s)'
    <3>1. s = removing /\ pc[a] \in {"markStop", "erase"}
      BY <2>1, <2>5, NoSceneAssumption DEF TimerInv, AtTimerScene, TimerScenes
    <3> QED BY <2>1, <2>5, <3>1 DEF AtTimerScene, client
  <2> QED BY <2>1, <2>3, <2>4, <2>5 DEF TimerInv, client
<1>2. CASE MonitorTick
  <2>1. \A s \in TimerScenes : row[s].cond.kind # "notify"
    BY DEF TimerScenes, KindsKept, SteadyTimer
  <2>2. Separate'
    BY <1>2, <2>1 DEF MonitorTick, TimerInv, Separate, timer
  <2> QED BY <1>2, <2>2, TimerSame DEF MonitorTick
<1>3. ASSUME NEW s \in Scenes, MonitorAsk(s) PROVE TimerInv'
  <2>1. s \notin TimerScenes
    BY <1>3 DEF MonitorAsk, TimerInv, Separate
  <2>2. write' \notin TimerScenes /\ todo' \subseteq todo
    <3>1. write' = write \/ write' = s
      BY <1>3 DEF MonitorAsk
    <3>2. write \notin TimerScenes /\ todo' \subseteq todo
      BY <1>3 DEF MonitorAsk, TimerInv, Separate
    <3> QED BY <2>1, <3>1, <3>2
  <2>3. Separate'
    BY <1>3, <2>2 DEF MonitorAsk, TimerInv, Separate, timer
  <2> QED BY <1>3, <2>3, TimerSame DEF MonitorAsk
<1>4. CASE MonitorWrite
  <2>1. write \notin TimerScenes
    BY DEF TimerInv, Separate
  <2>2. \A s \in TimerScenes : row'[s] = row[s]
    BY <1>4, <2>1 DEF MonitorWrite, SetStatus, TimerScenes, TypeInv, TypeOK
  <2>3. write' \notin TimerScenes
    BY <1>4, RowTypes, NoSceneAssumption DEF MonitorWrite, TimerScenes
  <2>4. Separate'
    BY <1>4, <2>3 DEF MonitorWrite, TimerInv, Separate, timer
  <2> QED BY <1>4, <2>2, <2>4, TimerSame DEF MonitorWrite
<1>5. CASE Restart
  <2>1. \A a \in Admins : target'[a] = NoScene /\ pc'[a] = "idle"
    BY <1>5 DEF Restart
  <2>2. row' = row /\ removing' = NoScene /\ job' = [s \in Scenes |-> Want(s)]
    BY <1>5 DEF Restart, Want
  <2>3. ASSUME NEW s \in TimerScenes PROVE AtRest(s)'
    BY <2>2, NoSceneAssumption DEF AtRest, Want, Restores, TimerScenes
  <2>4. \A s \in Scenes \ TimerScenes : job'[s] = 0
    BY <2>2 DEF Want, Restores, TimerScenes, KindsKept
  <2>5. todo' = {} /\ write' = NoScene
    BY <1>5 DEF Restart
  <2>6. Separate'
    BY <2>2, <2>4, <2>5, RowTypes, NoSceneAssumption DEF Separate, TimerScenes
  <2> QED BY <2>1, <2>2, <2>3, <2>6, NoSceneAssumption DEF TimerInv, TimerScenes
<1>6. ASSUME NEW s \in Scenes, AddScene(s) PROVE TimerInv'
  <2>1. /\ row[s] = Gone /\ UNCHANGED <<timer, client, monitor>>
        /\ row'[s].cond = None /\ \A q \in Scenes : q # s => row'[q] = row[q]
    BY <1>6 DEF AddScene, TypeInv, TypeOK
  <2>2. Separate'
    BY <2>1 DEF TimerInv, Separate, timer, monitor
  <2>3. ASSUME NEW q \in TimerScenes, AtRest(q) PROVE AtRest(q)'
    <3>1. CASE q = s
      BY <2>1, <2>3, <3>1, RowTypes DEF AtRest, Want, Restores, timer
    <3>2. CASE q # s
      BY <2>1, <2>3, <3>2 DEF AtRest, Want, Restores, timer, TimerScenes
    <3> QED BY <3>1, <3>2
  <2>4. ASSUME NEW q \in TimerScenes, NEW a \in Admins, target[a] = q, AtTimerScene(a, q)
        PROVE  AtTimerScene(a, q)'
    <3>1. q # s
      BY <2>1, <2>4 DEF AtTimerScene
    <3> QED BY <2>1, <2>4, <3>1 DEF AtTimerScene, Want, Restores, timer, client, TimerScenes
  <2> QED BY <2>1, <2>2, <2>3, <2>4 DEF TimerInv, timer, client
<1> QED BY <1>1, <1>2, <1>3, <1>4, <1>5, <1>6 DEF Monitor

LEMMA TimerStep ==
  ASSUME OneAdmin, SteadyTimer, Careful
  PROVE  TypeInv /\ KindsKept /\ TimerInv /\ [Next]_vars => TimerInv'
<1> SUFFICES ASSUME TypeInv, KindsKept, TimerInv, [Next]_vars PROVE TimerInv'
  OBVIOUS
<1>1. CASE Next
  BY <1>1, TimerBegin, TimerGoesOn, TimerOthers DEF Next, Careful
<1>2. CASE UNCHANGED vars
  <2>1. Separate'
    BY <1>2 DEF vars, TimerInv, Separate
  <2> QED BY <1>2, <2>1, TimerSame DEF vars, timer, client
<1> QED BY <1>1, <1>2

\* For one patient administrator, scenes that keep their kind and writes that do not
\* fail, through crashes at any step: the timer has the job of a scene nobody is at
\* exactly when its row says that it runs (SceneStartById, SceneStopById, DelSceneById,
\* restoreJobs).
THEOREM TimerAndRowsAgree ==
  OneAdmin /\ SteadyTimer /\ Careful => (Spec => []TimerAgrees)
<1> SUFFICES ASSUME OneAdmin, SteadyTimer, Careful PROVE Spec => []TimerAgrees
  OBVIOUS
<1>1. TypeInv /\ KindsKept /\ TimerInv /\ [Next]_vars => TimerInv'
  BY TimerStep
<1> QED BY <1>1, TypeInit, TypeStep, KindsInit, KindsStep, TimerInit, TimerFollows, PTL DEF Spec
=============================================================================
