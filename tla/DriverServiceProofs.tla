------------------------ MODULE DriverServiceProofs -------------------------
(***************************************************************************)
(* Proofs about DriverService: its type invariant, that no instance is     *)
(* ever left in progress with nobody at it, and what a deletion can leave, *)
(* for every number of requests at a time, every set of ports and every    *)
(* kind of fault; and that the address is known, for one request at a time.*)
(***************************************************************************)
EXTENDS DriverService, TLAPS

\* A start works on a port it has chosen, an edit writes an address it has read.
PortKept ==
  \A r \in Requesters :
    pc[r] \in {"startMark", "launch", "launched", "refresh", "save", "repoint"} => port[r] \in Ports
EditRead == \A r \in Requesters : pc[r] \in {"editCheck", "edit"} => seen[r] \in Ports

TypeInv == TypeOK /\ PortKept /\ EditRead

\* What a container of a chosen port is.
LEMMA BoxOfPort ==
  ASSUME NEW p \in Ports, NEW s \in {"exited", "running"}
  PROVE  [status |-> s, port |-> p] \in Boxes
BY DEF Boxes

LEMMA HaltedBox ==
  ASSUME NEW b \in Boxes
  PROVE  Halted(b) \in Boxes
<1>1. CASE b = NoBox
  BY <1>1 DEF Halted, Boxes
<1>2. CASE b # NoBox
  BY <1>2 DEF Halted, Boxes
<1> QED BY <1>1, <1>2

LEMMA FaultType ==
  ASSUME TypeOK, NEW f, Fault(f)
  PROVE  faults' \in 0..MaxFaults
BY DriverAssumption DEF TypeOK, Fault

LEMMA Names ==
  /\ {"stopped", "starting", "started", "stopping"} \subseteq States
  /\ {"none", "started", "stopped", "restarted", "edited", "deleted"} \subseteq Goals
  /\ {"idle", "compare", "lookup", "startCheck", "startRead", "startMark", "launch",
      "launched", "refresh", "save", "repoint", "stopRead", "stopMark", "halt", "halted",
      "editCheck", "edit", "delCheck", "delRow", "delBox", "delState"} \subseteq Steps
BY DEF States, Goals, Steps

LEMMA TypeInit == Init => TypeInv
<1> SUFFICES ASSUME Init PROVE TypeInv
  OBVIOUS
<1>1. requests \in 0..MaxRequests /\ faults \in 0..MaxFaults
  BY DriverAssumption DEF Init
<1>2. pc \in [Requesters -> Steps] /\ goal \in [Requesters -> Goals]
  BY Names DEF Init
<1>3. box \in Boxes
  BY DEF Init, Boxes
<1>4. PortKept /\ EditRead
  BY DEF Init, PortKept, EditRead
<1> QED BY <1>1, <1>2, <1>3, <1>4, Names DEF Init, TypeInv, TypeOK

(***************************************************************************)
(* Steps                                                                   *)
(***************************************************************************)
RequestTypes ==
  /\ pc \in [Requesters -> Steps]
  /\ goal \in [Requesters -> Goals]
  /\ seen \in [Requesters -> Ports \cup {Gone}]
  /\ port \in [Requesters -> Ports \cup {Gone}]
  /\ PortKept
  /\ EditRead

LEMMA GoToTypes ==
  ASSUME RequestTypes, NEW r \in Requesters, NEW to \in Steps, GoTo(r, to),
         to \in {"startMark", "launch", "launched", "refresh", "save", "repoint"} => port[r] \in Ports,
         to \in {"editCheck", "edit"} => seen[r] \in Ports
  PROVE  RequestTypes'
BY DEF RequestTypes, GoTo, PortKept, EditRead

LEMMA AnswerTypes ==
  ASSUME RequestTypes, NEW r \in Requesters, Answer(r)
  PROVE  RequestTypes'
BY Names DEF RequestTypes, Answer, PortKept, EditRead

LEMMA BeginTypes ==
  ASSUME TypeInv, NEW r \in Requesters, NEW g \in Goals, NEW to \in Steps,
         to \in {"compare", "stopRead", "delCheck"} \/ (to = "editCheck" /\ row \in Ports),
         Request(r, g, to)
  PROVE  TypeInv'
<1>1. requests' \in 0..MaxRequests
  BY DriverAssumption DEF TypeInv, TypeOK, Request
<1>2. RequestTypes'
  BY DEF TypeInv, TypeOK, RequestTypes, PortKept, EditRead, Request
<1> QED BY <1>1, <1>2 DEF TypeInv, TypeOK, RequestTypes, Request, monitor

LEMMA FaultsAreBounded ==
  ASSUME TypeInv,
         UNCHANGED faults \/ \E f \in {"docker", "db", "ping", "box", "crash"} : Fault(f)
  PROVE  faults' \in 0..MaxFaults
BY DriverAssumption DEF TypeInv, TypeOK, Fault

\* Every step of a request.
LEMMA StepTypes ==
  ASSUME TypeInv, NEW r \in Requesters, Step(r)
  PROVE  TypeInv'
<1> RequestTypes
  BY DEF TypeInv, TypeOK, RequestTypes
<1> DEFINE Rest == /\ row' \in Ports \cup {Gone} /\ state' \in States /\ box' \in Boxes
                   /\ mapped' \in BOOLEAN
                   /\ mon' \in {"wait", "probe", "check", "report", "sending", "none"}
                   /\ pinged' \in Ports \cup {Gone} /\ alive' \in BOOLEAN
                   /\ requests' \in 0..MaxRequests /\ faults' \in 0..MaxFaults
<1>0. ASSUME Rest, RequestTypes' PROVE TypeInv'
  BY <1>0 DEF TypeInv, TypeOK, RequestTypes
<1>1. CASE Compare(r)
  <2>1. RequestTypes'
    BY <1>1, GoToTypes, AnswerTypes, Names DEF Compare
  <2>2. Rest
    BY <1>1, Names, FaultsAreBounded DEF Compare, TypeInv, TypeOK, monitor, bounds
  <2> QED BY <1>0, <2>1, <2>2
<1>2. CASE Lookup(r)
  <2>1. RequestTypes'
    BY <1>2, GoToTypes, AnswerTypes, Names DEF Lookup
  <2>2. Rest
    BY <1>2, Names, FaultsAreBounded DEF Lookup, TypeInv, TypeOK, monitor, bounds, Found, NotFound
  <2> QED BY <1>0, <2>1, <2>2
<1>3. CASE StartCheck(r)
  <2>1. RequestTypes'
    BY <1>3, GoToTypes, AnswerTypes, Names DEF StartCheck
  <2>2. Rest
    BY <1>3, Names, FaultsAreBounded DEF StartCheck, TypeInv, TypeOK, monitor, bounds
  <2> QED BY <1>0, <2>1, <2>2
<1>4. CASE StartRead(r)
  <2>1. RequestTypes'
    BY <1>4, GoToTypes, AnswerTypes, Names DEF StartRead, StartFails, SetState, RequestTypes, PortKept, EditRead
  <2>2. Rest
    BY <1>4, Names, FaultsAreBounded DEF StartRead, TypeInv, TypeOK, monitor, bounds, StartFails, SetState, Found, NotFound
  <2> QED BY <1>0, <2>1, <2>2
<1>5. CASE StartMark(r)
  <2>1. RequestTypes'
    BY <1>5, GoToTypes, Names DEF StartMark, RequestTypes, PortKept, EditRead
  <2>2. Rest
    BY <1>5, Names, FaultsAreBounded DEF StartMark, TypeInv, TypeOK, monitor, bounds, SetState
  <2> QED BY <1>0, <2>1, <2>2
<1>6. CASE StartInstance(r)
  <2>1. RequestTypes'
    BY <1>6, GoToTypes, AnswerTypes, Names DEF StartInstance, StartFails, RequestTypes, PortKept, EditRead
  <2>2. Rest
    BY <1>6, Names, FaultsAreBounded DEF StartInstance, TypeInv, TypeOK, monitor, bounds, StartFails, SetState, Boxes, PortKept, EditRead, NoBox
  <2> QED BY <1>0, <2>1, <2>2
<1>7. CASE Started(r)
  <2>1. RequestTypes'
    BY <1>7, GoToTypes, AnswerTypes, Names DEF Started, RequestTypes, PortKept, EditRead
  <2>2. Rest
    BY <1>7, Names, FaultsAreBounded DEF Started, TypeInv, TypeOK, monitor, bounds, SetState
  <2> QED BY <1>0, <2>1, <2>2
<1>8. CASE Refresh(r)
  <2>1. RequestTypes'
    BY <1>8, GoToTypes, AnswerTypes, Names DEF Refresh, StartFails, RequestTypes, PortKept, EditRead
  <2>2. Rest
    BY <1>8, Names, FaultsAreBounded DEF Refresh, TypeInv, TypeOK, monitor, bounds, StartFails, SetState, Found, NotFound
  <2> QED BY <1>0, <2>1, <2>2
<1>9. CASE Save(r)
  <2>1. RequestTypes'
    BY <1>9, GoToTypes, AnswerTypes, Names DEF Save, StartFails, RequestTypes, PortKept, EditRead
  <2>2. Rest
    BY <1>9, Names, FaultsAreBounded DEF Save, TypeInv, TypeOK, monitor, bounds, StartFails, SetState
  <2> QED BY <1>0, <2>1, <2>2
<1>10. CASE Repoint(r)
  <2>1. RequestTypes'
    BY <1>10, GoToTypes, AnswerTypes, Names DEF Repoint
  <2>2. Rest
    BY <1>10, Names, FaultsAreBounded DEF Repoint, TypeInv, TypeOK, monitor, bounds, Repointed
  <2> QED BY <1>0, <2>1, <2>2
<1>11. CASE StopRead(r)
  <2>1. RequestTypes'
    BY <1>11, GoToTypes, AnswerTypes, Names DEF StopRead
  <2>2. Rest
    BY <1>11, Names, FaultsAreBounded DEF StopRead, TypeInv, TypeOK, monitor, bounds, Found, NotFound
  <2> QED BY <1>0, <2>1, <2>2
<1>12. CASE StopMark(r)
  <2>1. RequestTypes'
    BY <1>12, GoToTypes, AnswerTypes, Names DEF StopMark
  <2>2. Rest
    BY <1>12, Names, FaultsAreBounded DEF StopMark, TypeInv, TypeOK, monitor, bounds, SetState
  <2> QED BY <1>0, <2>1, <2>2
<1>13. CASE StopInstance(r)
  <2>1. RequestTypes'
    BY <1>13, GoToTypes, AnswerTypes, Names DEF StopInstance
  <2>2. Rest
    BY <1>13, Names, FaultsAreBounded, HaltedBox DEF StopInstance, TypeInv, TypeOK, monitor, bounds
  <2> QED BY <1>0, <2>1, <2>2
<1>14. CASE Stopped(r)
  <2>1. RequestTypes'
    BY <1>14, GoToTypes, AnswerTypes, Names DEF Stopped
  <2>2. Rest
    BY <1>14, Names, FaultsAreBounded DEF Stopped, TypeInv, TypeOK, monitor, bounds, SetState
  <2> QED BY <1>0, <2>1, <2>2
<1>15. CASE EditCheck(r)
  <2>1. RequestTypes'
    BY <1>15, GoToTypes, AnswerTypes, Names DEF EditCheck, RequestTypes, PortKept, EditRead
  <2>2. Rest
    BY <1>15, Names, FaultsAreBounded DEF EditCheck, TypeInv, TypeOK, monitor, bounds
  <2> QED BY <1>0, <2>1, <2>2
<1>16. CASE Edit(r)
  <2>1. RequestTypes'
    BY <1>16, GoToTypes, AnswerTypes, Names DEF Edit
  <2>2. Rest
    BY <1>16, Names, FaultsAreBounded DEF Edit, TypeInv, TypeOK, monitor, bounds
  <2> QED BY <1>0, <2>1, <2>2
<1>17. CASE DelCheck(r)
  <2>1. RequestTypes'
    BY <1>17, GoToTypes, AnswerTypes, Names DEF DelCheck
  <2>2. Rest
    BY <1>17, Names, FaultsAreBounded DEF DelCheck, TypeInv, TypeOK, monitor, bounds
  <2> QED BY <1>0, <2>1, <2>2
<1>18. CASE DelRow(r)
  <2>1. RequestTypes'
    BY <1>18, GoToTypes, AnswerTypes, Names DEF DelRow
  <2>2. Rest
    BY <1>18, Names, FaultsAreBounded DEF DelRow, TypeInv, TypeOK, monitor, bounds
  <2> QED BY <1>0, <2>1, <2>2
<1>19. CASE DeleteInstance(r)
  <2>1. RequestTypes'
    BY <1>19, GoToTypes, AnswerTypes, Names DEF DeleteInstance
  <2>2. Rest
    BY <1>19, Names, FaultsAreBounded DEF DeleteInstance, TypeInv, TypeOK, monitor, bounds, RemoveBox, Boxes
  <2> QED BY <1>0, <2>1, <2>2
<1>20. CASE DelState(r)
  <2>1. RequestTypes'
    BY <1>20, GoToTypes, AnswerTypes, Names DEF DelState
  <2>2. Rest
    BY <1>20, Names, FaultsAreBounded DEF DelState, TypeInv, TypeOK, monitor, bounds, SetState
  <2> QED BY <1>0, <2>1, <2>2
<1> QED BY <1>1, <1>2, <1>3, <1>4, <1>5, <1>6, <1>7, <1>8, <1>9, <1>10, <1>11, <1>12, <1>13, <1>14, <1>15, <1>16, <1>17, <1>18, <1>19, <1>20 DEF Step

\* The monitor, the container and the process.
LEMMA OtherTypes ==
  ASSUME TypeInv, Monitor \/ BoxDies \/ Restart
  PROVE  TypeInv'
<1>1. CASE MonitorGet
  BY <1>1, FaultsAreBounded DEF MonitorGet, Found, NotFound, TypeInv, TypeOK, PortKept, EditRead, request
<1>2. CASE MonitorPing
  BY <1>2, FaultsAreBounded DEF MonitorPing, TypeInv, TypeOK, PortKept, EditRead, request
<1>3. CASE MonitorCheck
  BY <1>3 DEF MonitorCheck, TypeInv, TypeOK, PortKept, EditRead, request, bounds
<1>4. CASE MonitorReport
  BY <1>4, Names DEF MonitorReport, Report, SetState, TypeInv, TypeOK, PortKept, EditRead, request, bounds
<1>5. CASE BoxDies
  BY <1>5, FaultsAreBounded, HaltedBox DEF BoxDies, TypeInv, TypeOK, PortKept, EditRead, request, monitor
<1>6. CASE Restart
  <2>1. faults' \in 0..MaxFaults
    BY <1>6, FaultsAreBounded DEF Restart
  <2>2. box' \in Boxes
    BY <1>6, HaltedBox DEF Restart, TypeInv, TypeOK
  <2>3. pc' \in [Requesters -> Steps] /\ goal' \in [Requesters -> Goals]
    BY <1>6, Names DEF Restart
  <2>4. PortKept' /\ EditRead'
    BY <1>6 DEF Restart, PortKept, EditRead
  <2> QED BY <1>6, <2>1, <2>2, <2>3, <2>4, Names DEF Restart, TypeInv, TypeOK
<1> QED BY <1>1, <1>2, <1>3, <1>4, <1>5, <1>6 DEF Monitor

LEMMA TypeStep == TypeInv /\ [Next]_vars => TypeInv'
<1> SUFFICES ASSUME TypeInv, [Next]_vars PROVE TypeInv'
  OBVIOUS
<1>1. ASSUME NEW r \in Requesters, Begin(r) PROVE TypeInv'
  BY <1>1, BeginTypes, Names DEF Begin, UpdateRunStatus, Upgrade, Update, Del, TypeInv, TypeOK
<1>2. CASE UNCHANGED vars
  BY <1>2 DEF vars, TypeInv, TypeOK, PortKept, EditRead
<1> QED BY <1>1, <1>2, StepTypes, OtherTypes DEF Next

\* Types, for every instance of the constants.
THEOREM TypeCorrect == Spec => []TypeOK
<1>1. TypeInv => TypeOK
  BY DEF TypeInv
<1> QED BY <1>1, TypeInit, TypeStep, PTL DEF Spec

(***************************************************************************)
(* Nobody is stuck                                                         *)
(*                                                                         *)
(* NeverStuck is inductive: a step that leaves the steps between the mark  *)
(* and its end writes another state, whatever has become of the mark, and  *)
(* no step of another request touches where this one is.                   *)
(***************************************************************************)

\* A step keeps NeverStuck if it writes a settled state; or leaves the state alone, and
\* only one request moves, to or from no step in progress.
LEMMA SettledKeeps ==
  ASSUME state' \in {"stopped", "started"}
  PROVE  NeverStuck'
BY DEF NeverStuck

LEMMA OtherPlaceKeeps ==
  ASSUME NeverStuck, UNCHANGED state, NEW r \in Requesters,
         \A q \in Requesters : q # r => pc'[q] = pc[q],
         pc[r] \notin {"launch", "launched", "halt", "halted"}
  PROVE  NeverStuck'
<1>1. ASSUME NEW q \in Requesters, pc[q] \in {"launch", "launched", "halt", "halted"}
      PROVE  pc'[q] = pc[q]
  BY <1>1
<1> QED BY <1>1 DEF NeverStuck

LEMMA OnlyOneMoves ==
  ASSUME TypeInv, NEW r \in Requesters, Begin(r) \/ Step(r)
  PROVE  \A q \in Requesters : q # r => pc'[q] = pc[q]
BY DEF TypeInv, TypeOK, Begin, UpdateRunStatus, Upgrade, Update, Del, Request, Step, Compare,
  Lookup, StartCheck, StartRead, StartMark, StartInstance, StartFails, Started, Refresh, Save,
  Repoint, StopRead, StopMark, StopInstance, Stopped, EditCheck, Edit, DelCheck, DelRow,
  DeleteInstance, DelState, GoTo, Answer, request

LEMMA StepKeeps ==
  ASSUME TypeInv, NeverStuck, NEW r \in Requesters, Step(r)
  PROVE  NeverStuck'
<1> pc \in [Requesters -> Steps]
  BY DEF TypeInv, TypeOK
<1>1. \A q \in Requesters : q # r => pc'[q] = pc[q]
  BY OnlyOneMoves
<1>2. CASE StartMark(r)
  BY <1>2 DEF StartMark, SetState, GoTo, NeverStuck
<1>3. CASE StopMark(r)
  BY <1>3 DEF StopMark, SetState, GoTo, NeverStuck
<1>4. CASE StartInstance(r)
  <2>1. CASE UNCHANGED state /\ GoTo(r, "launched")
    BY <1>1, <1>4, <2>1 DEF StartInstance, GoTo, NeverStuck
  <2>2. CASE StartFails(r)
    BY <2>2, SettledKeeps DEF StartFails, SetState
  <2> QED BY <1>4, <2>1, <2>2 DEF StartInstance
<1>5. CASE StopInstance(r)
  BY <1>1, <1>5 DEF StopInstance, GoTo, NeverStuck
<1>6. CASE Started(r) \/ Stopped(r) \/ DelState(r)
  BY <1>6, SettledKeeps DEF Started, Stopped, DelState, SetState
<1>7. CASE StartRead(r) \/ Refresh(r) \/ Save(r)
  BY <1>1, <1>7, SettledKeeps, OtherPlaceKeeps DEF StartRead, Refresh, Save, StartFails, SetState
<1>8. CASE \/ Compare(r) \/ Lookup(r) \/ StartCheck(r) \/ Repoint(r) \/ StopRead(r)
           \/ EditCheck(r) \/ Edit(r) \/ DelCheck(r) \/ DelRow(r) \/ DeleteInstance(r)
  BY <1>1, <1>8, OtherPlaceKeeps DEF Compare, Lookup, StartCheck, Repoint, StopRead, EditCheck,
    Edit, DelCheck, DelRow, DeleteInstance
<1> QED BY <1>2, <1>3, <1>4, <1>5, <1>6, <1>7, <1>8 DEF Step

LEMMA NeverStuckStep == TypeInv /\ NeverStuck /\ [Next]_vars => NeverStuck'
<1> SUFFICES ASSUME TypeInv, NeverStuck, [Next]_vars PROVE NeverStuck'
  OBVIOUS
<1>1. ASSUME NEW r \in Requesters, Begin(r) PROVE NeverStuck'
  BY <1>1, OnlyOneMoves, OtherPlaceKeeps DEF Begin, UpdateRunStatus, Upgrade, Update, Del, Request
<1>2. CASE MonitorReport
  BY <1>2, SettledKeeps DEF MonitorReport, Report, SetState
<1>3. CASE MonitorGet \/ MonitorPing \/ MonitorCheck \/ BoxDies
  BY <1>3 DEF MonitorGet, MonitorPing, MonitorCheck, BoxDies, request, NeverStuck
<1>4. CASE Restart
  BY <1>4, SettledKeeps DEF Restart
<1>5. CASE UNCHANGED vars
  BY <1>5 DEF vars, NeverStuck
<1> QED BY <1>1, <1>2, <1>3, <1>4, <1>5, StepKeeps DEF Next, Monitor

\* However many requests and monitors meet, whatever fails and whenever the process
\* dies: an instance is "starting" or "stopping" only while a request is at it, so
\* that UpdateRunStatus does not refuse it for ever.
THEOREM InstanceNeverStuck == Spec => []NeverStuck
<1>1. Init => NeverStuck
  BY DEF Init, NeverStuck
<1> QED BY <1>1, TypeInit, TypeStep, NeverStuckStep, PTL DEF Spec

(***************************************************************************)
(* What a deletion leaves                                                  *)
(***************************************************************************)

\* Only a deletion takes the row: a start writes a port it has chosen and an edit an
\* address it has read, and neither brings back a row that is gone.
LEMMA OnlyDeletionTakesTheRow ==
  ASSUME TypeInv, NEW r \in Requesters, Begin(r) \/ Step(r), row' = Gone
  PROVE  row = Gone \/ DelRow(r)
<1>1. CASE Save(r)
  BY <1>1, GoneAssumption DEF Save, StartFails, TypeInv, PortKept
<1>2. CASE Edit(r)
  BY <1>2, GoneAssumption DEF Edit, TypeInv, EditRead
<1> QED BY <1>1, <1>2 DEF Begin, UpdateRunStatus, Upgrade, Update, Del, Request, Step, Compare,
  Lookup, StartCheck, StartRead, StartMark, StartInstance, Started, Refresh,
  Repoint, StopRead, StopMark, StopInstance, Stopped, EditCheck, DelCheck, DeleteInstance, DelState

\* Only StartInstance makes a container.
LEMMA OnlyStartMakesTheBox ==
  ASSUME NEW r \in Requesters, Begin(r) \/ Step(r), box' # NoBox
  PROVE  box # NoBox \/ StartInstance(r)
BY DEF Begin, UpdateRunStatus, Upgrade, Update, Del, Request, Step, Compare,
  Lookup, StartCheck, StartRead, StartMark, Started, Refresh, Save,
  Repoint, StopRead, StopMark, StopInstance, Halted, Stopped, EditCheck, Edit, DelCheck, DelRow,
  DeleteInstance, RemoveBox, DelState

LEMMA OrphanOfRequest ==
  ASSUME TypeInv, NEW r \in Requesters, Begin(r) \/ Step(r), ~Orphan, Orphan'
  PROVE  StartInstance(r) \/ Refused(r)
<1> SUFFICES ASSUME ~StartInstance(r) PROVE Refused(r)
  OBVIOUS
<1>1. row' = Gone /\ box' # NoBox /\ \A q \in Requesters : pc'[q] # "delBox"
  BY DEF Orphan
<1>2. pc \in [Requesters -> Steps]
  BY DEF TypeInv, TypeOK
<1>3. ~DelRow(r)
  BY <1>1, <1>2 DEF DelRow, GoTo
<1>4. row = Gone /\ box # NoBox
  BY <1>1, <1>3, OnlyDeletionTakesTheRow, OnlyStartMakesTheBox
<1>5. PICK q \in Requesters : pc[q] = "delBox"
  BY <1>4 DEF Orphan
<1>6. pc[r] = "delBox"
  BY <1>1, <1>5, OnlyOneMoves
<1>7. DeleteInstance(r)
  BY <1>6 DEF Begin, UpdateRunStatus, Upgrade, Update, Del, Request, Step, Compare,
    Lookup, StartCheck, StartRead, StartMark, StartInstance, Started, Refresh, Save,
    Repoint, StopRead, StopMark, StopInstance, Stopped, EditCheck, Edit, DelCheck, DelRow, DelState
<1>8. UNCHANGED box /\ Fault("docker")
  BY <1>1, <1>7 DEF DeleteInstance, RemoveBox
<1>9. faults' # faults
  BY <1>8, DriverAssumption DEF Fault, TypeInv, TypeOK
<1> QED BY <1>7, <1>8, <1>9 DEF Refused

LEMMA OrphanStep ==
  TypeInv /\ [Next]_vars =>
    (~Orphan /\ Orphan' => Restart \/ \E r \in Requesters : StartInstance(r) \/ Refused(r))
<1> SUFFICES ASSUME TypeInv, [Next]_vars, ~Orphan, Orphan'
             PROVE  Restart \/ \E r \in Requesters : StartInstance(r) \/ Refused(r)
  OBVIOUS
<1>1. ~Monitor
  BY DEF Monitor, MonitorGet, MonitorPing, MonitorCheck, MonitorReport, request, Orphan
<1>2. ~BoxDies
  <2>1. ASSUME BoxDies PROVE box # NoBox
    BY <2>1 DEF BoxDies, NoBox
  <2> QED BY <2>1 DEF BoxDies, request, Orphan
<1>3. ~UNCHANGED vars
  BY DEF vars, Orphan
<1> QED BY <1>1, <1>2, <1>3, OrphanOfRequest DEF Next

\* However many requests meet, whatever the database, Docker and the monitor do and
\* whenever the process ends: a deleted instance is left with a container only by a
\* start that had read the row before the deletion, a Docker that refuses to remove
\* it, or the end of the process between row and container (Del).  No error of the
\* database, no edit and no save of an address does it.
THEOREM DeletionIsComplete == Spec => NoOrphans
<1>1. TypeInv /\ [Next]_vars =>
        [~Orphan /\ Orphan' => Restart \/ \E r \in Requesters : StartInstance(r) \/ Refused(r)]_vars
  BY OrphanStep
<1> QED BY <1>1, TypeInit, TypeStep, PTL DEF Spec, NoOrphans

(***************************************************************************)
(* One request at a time                                                   *)
(*                                                                         *)
(* AddressKnown is about requests that do not overlap, a database that     *)
(* works, a Docker that does what it is told and a process that lives.     *)
(***************************************************************************)
OneRequester == \A r, q \in Requesters : r = q
SafeDelete == "docker" \notin Faults /\ "crash" \notin Faults
SafeStore == SafeDelete /\ "db" \notin Faults

\* Of a row that is gone only its deletion is at work, or a request that will not
\* find it; the container goes with the deletion.
GoneInv ==
  row = Gone =>
    /\ \A r \in Requesters : pc[r] \in {"idle", "compare", "lookup", "delBox", "delState"}
    /\ box = NoBox \/ \E r \in Requesters : pc[r] = "delBox"

\* A deletion has no row, an edit has read the row as it is, a start that repoints
\* the monitor has written its port.
RowInv ==
  \A r \in Requesters :
    /\ pc[r] \in {"delBox", "delState"} => row = Gone
    /\ pc[r] \in {"editCheck", "edit"} => seen[r] = row
    /\ pc[r] = "repoint" => row = port[r]

\* The monitor pings the row's address, or is about to be told of it.
PingInv ==
  row # Gone =>
    /\ mapped
    /\ pinged = row \/ \E r \in Requesters : pc[r] = "repoint"

\* A container that runs has the port of the start that made it until the row has it.
BoxInv ==
  box.status = "running" =>
    /\ \A r \in Requesters :
         pc[r] \in {"launched", "refresh", "save", "repoint"} => box.port = port[r]
    /\ \/ row \in {box.port, Gone}
       \/ \E r \in Requesters : pc[r] \in {"launched", "refresh", "save"}

AddressInv == RowInv /\ PingInv /\ BoxInv

\* What cannot happen under these assumptions.
LEMMA NoRestart ==
  ASSUME OneRequester, SafeDelete
  PROVE  ~Restart
BY DEF OneRequester, SafeDelete, Restart, Fault, MapRace

LEMMA NoFailure ==
  ASSUME SafeStore
  PROVE  ~Fault("docker") /\ ~Fault("db")
BY DEF SafeStore, SafeDelete, Fault

\* The request that moves is the only one.
LEMMA TheOne ==
  ASSUME OneRequester, NEW r \in Requesters
  PROVE  \A q \in Requesters : q = r
BY DEF OneRequester

\* A step that leaves the row and the container alone, and enters no new place.
Requested == pc \in [Requesters -> Steps] /\ seen \in [Requesters -> Ports \cup {Gone}]
             /\ port \in [Requesters -> Ports \cup {Gone}]

LEMMA TypesOfRequests == TypeInv => Requested /\ row \in Ports \cup {Gone} /\ box \in Boxes
BY DEF TypeInv, TypeOK, Requested

LEMMA GoneAnswer ==
  ASSUME OneRequester, Requested, GoneInv, NEW r \in Requesters, Answer(r),
         row' = Gone => box' = NoBox
  PROVE  GoneInv'
<1> \A q \in Requesters : q = r
  BY TheOne
<1>1. \A q \in Requesters : pc'[q] = "idle"
  BY DEF Answer, Requested
<1> QED BY <1>1 DEF GoneInv

LEMMA GoneGoTo ==
  ASSUME OneRequester, Requested, NEW r \in Requesters, NEW to \in Steps, GoTo(r, to),
         row' = Gone => /\ to \in {"idle", "compare", "lookup", "delBox", "delState"}
                        /\ box' = NoBox \/ to = "delBox"
  PROVE  GoneInv'
<1> \A q \in Requesters : q = r
  BY TheOne
<1>1. /\ \A q \in Requesters : pc'[q] = to
      /\ UNCHANGED <<seen, port>>
  BY DEF GoTo, Requested
<1> QED BY <1>1 DEF GoneInv

LEMMA GoneBegin ==
  ASSUME OneRequester, TypeInv, GoneInv, NEW r \in Requesters, Begin(r)
  PROVE  GoneInv'
<1> Requested /\ row \in Ports \cup {Gone}
  BY TypesOfRequests
<1> \A q \in Requesters : q = r
  BY TheOne
<1>1. ASSUME NEW g, NEW to \in {"compare", "stopRead", "editCheck", "delCheck"}, Request(r, g, to),
             row = Gone => to = "compare"
      PROVE  GoneInv'
  <2>1. /\ pc[r] = "idle"
        /\ \A q \in Requesters : pc'[q] = to /\ seen'[q] = row
        /\ UNCHANGED <<row, box, port>>
    BY <1>1 DEF Request, Requested
  <2>2. row = Gone => box = NoBox
    BY <2>1 DEF GoneInv
  <2> QED BY <1>1, <2>1, <2>2 DEF GoneInv
<1> QED BY <1>1 DEF Begin, UpdateRunStatus, Upgrade, Update, Del

LEMMA GoneStart ==
  ASSUME OneRequester, SafeDelete, TypeInv, GoneInv, NEW r \in Requesters,
         \/ StartCheck(r) \/ StartRead(r) \/ StartMark(r) \/ StartInstance(r)
         \/ Started(r) \/ Refresh(r) \/ Save(r) \/ Repoint(r)
  PROVE  GoneInv'
<1> Requested /\ row \in Ports \cup {Gone}
  BY TypesOfRequests
<1> \A q \in Requesters : q = r
  BY TheOne
<1>0. row # Gone
  BY DEF GoneInv, StartCheck, StartRead, StartMark, StartInstance, Started, Refresh,
    Save, Repoint
<1>1. CASE StartCheck(r)
  BY <1>0, <1>1, GoneAnswer, GoneGoTo, Names DEF StartCheck
<1>2. CASE StartRead(r)
  <2>1. CASE StartFails(r)
    BY <1>0, <1>2, <2>1, GoneAnswer DEF StartRead, StartFails
  <2>2. CASE /\ \E p \in Ports : port' = [port EXCEPT ![r] = p]
             /\ pc' = [pc EXCEPT ![r] = "startMark"]
    <3>1. \A q \in Requesters : pc'[q] = "startMark" /\ port'[q] \in Ports
      BY <2>2 DEF Requested
    <3>2. UNCHANGED row
      BY <1>2 DEF StartRead
    <3> QED BY <1>0, <3>1, <3>2 DEF GoneInv
  <2> QED BY <1>2, <2>1, <2>2 DEF StartRead
<1>3. CASE StartMark(r)
  BY <1>0, <1>3, GoneGoTo, Names DEF StartMark
<1>4. CASE StartInstance(r)
  <2>1. ~Fault("docker")
    BY DEF SafeDelete, Fault
  <2> QED BY <1>0, <1>4, <2>1, GoneGoTo, Names DEF StartInstance
<1>5. CASE Started(r)
  BY <1>0, <1>5, GoneGoTo, Names DEF Started
<1>6. CASE Refresh(r)
  <2>1. CASE Answer(r)
    BY <1>0, <1>6, <2>1, GoneAnswer DEF Refresh
  <2>2. CASE GoTo(r, "save")
    BY <1>0, <1>6, <2>2, GoneGoTo, Names DEF Refresh
  <2> QED BY <1>6, <2>1, <2>2 DEF Refresh, StartFails
<1>7. CASE Save(r)
  <2>1. CASE StartFails(r) /\ UNCHANGED row
    BY <1>0, <2>1, GoneAnswer DEF StartFails
  <2>2. CASE row' = port[r] /\ GoTo(r, "repoint")
    <3>1. port[r] \in Ports
      BY <1>7 DEF Save, TypeInv, PortKept
    <3>2. row' # Gone
      BY <2>2, <3>1, GoneAssumption
    <3> QED BY <2>2, <3>1, <3>2, GoneGoTo, Names
  <2> QED BY <1>0, <1>7, <2>1, <2>2 DEF Save
<1>8. CASE Repoint(r)
  BY <1>0, <1>8, GoneAnswer DEF Repoint
<1> QED BY <1>1, <1>2, <1>3, <1>4, <1>5, <1>6, <1>7, <1>8

LEMMA GoneOther ==
  ASSUME OneRequester, SafeDelete, TypeInv, GoneInv, NEW r \in Requesters,
         \/ Compare(r) \/ Lookup(r)
         \/ StopRead(r) \/ StopMark(r) \/ StopInstance(r) \/ Stopped(r)
         \/ EditCheck(r) \/ Edit(r)
         \/ DelCheck(r) \/ DelRow(r) \/ DeleteInstance(r) \/ DelState(r)
  PROVE  GoneInv'
<1> Requested /\ row \in Ports \cup {Gone}
  BY TypesOfRequests
<1> \A q \in Requesters : q = r
  BY TheOne
<1>0. /\ row = Gone => pc[r] \in {"idle", "compare", "lookup", "delBox", "delState"}
      /\ row = Gone /\ pc[r] # "delBox" => box = NoBox
  BY DEF GoneInv
<1>1. CASE Compare(r)
  BY <1>0, <1>1, GoneAnswer, GoneGoTo, Names DEF Compare
<1>2. CASE Lookup(r)
  <2>1. CASE Found /\ GoTo(r, IF goal[r] = "started" THEN "startCheck" ELSE "stopRead")
    BY <1>2, <2>1, GoneGoTo, Names DEF Lookup, Found
  <2>2. CASE Answer(r)
    BY <1>0, <1>2, <2>2, GoneAnswer DEF Lookup
  <2> QED BY <1>2, <2>1, <2>2 DEF Lookup
<1>3. CASE StopRead(r)
  BY <1>0, <1>3, GoneAnswer, GoneGoTo, Names DEF StopRead, Found
<1>4. CASE StopMark(r) \/ StopInstance(r)
  BY <1>0, <1>4, GoneGoTo, Names DEF StopMark, StopInstance
<1>5. CASE Stopped(r)
  <2>1. row # Gone /\ row' = row
    BY <1>0, <1>5 DEF Stopped
  <2>2. CASE Answer(r)
    BY <2>1, <2>2, GoneAnswer
  <2>3. CASE GoTo(r, "startCheck")
    BY <2>1, <2>3, GoneGoTo, Names
  <2> QED BY <1>5, <2>2, <2>3 DEF Stopped
<1>6. CASE EditCheck(r)
  <2>1. row # Gone /\ row' = row /\ seen[r] \in Ports
    BY <1>0, <1>6 DEF EditCheck, TypeInv, EditRead
  <2> QED BY <1>6, <2>1, GoneAnswer, GoneGoTo, Names DEF EditCheck
<1>7. CASE Edit(r)
  <2>1. row # Gone /\ seen[r] \in Ports
    BY <1>0, <1>7 DEF Edit, TypeInv, EditRead
  <2>2. row' # Gone
    BY <1>7, <2>1, GoneAssumption DEF Edit
  <2> QED BY <1>7, <2>2, GoneAnswer DEF Edit
<1>8. CASE DelCheck(r)
  BY <1>0, <1>8, GoneAnswer, GoneGoTo, Names DEF DelCheck
<1>9. CASE DelRow(r)
  BY <1>9, GoneGoTo, Names DEF DelRow
<1>10. CASE DeleteInstance(r)
  <2>1. box' = NoBox
    BY <1>10 DEF DeleteInstance, RemoveBox, SafeDelete, Fault
  <2> QED BY <1>10, <2>1, GoneGoTo, Names DEF DeleteInstance
<1>11. CASE DelState(r)
  BY <1>0, <1>11, GoneAnswer DEF DelState
<1> QED BY <1>1, <1>2, <1>3, <1>4, <1>5, <1>6, <1>7, <1>8, <1>9, <1>10, <1>11

LEMMA GoneStep == OneRequester /\ SafeDelete /\ TypeInv /\ GoneInv /\ [Next]_vars => GoneInv'
<1> SUFFICES ASSUME OneRequester, SafeDelete, TypeInv, GoneInv, [Next]_vars PROVE GoneInv'
  OBVIOUS
<1>1. ASSUME NEW r \in Requesters, Step(r) PROVE GoneInv'
  BY <1>1, GoneStart, GoneOther DEF Step
<1>2. CASE Monitor
  BY <1>2 DEF Monitor, MonitorGet, MonitorPing, MonitorCheck, MonitorReport, request,
    GoneInv
<1>3. CASE BoxDies
  <2>1. box # NoBox
    BY <1>3 DEF BoxDies, NoBox
  <2> QED BY <1>3, <2>1 DEF BoxDies, request, GoneInv
<1>4. CASE UNCHANGED vars
  BY <1>4 DEF vars, GoneInv
<1> QED BY <1>1, <1>2, <1>3, <1>4, GoneBegin, NoRestart DEF Next

LEMMA GoneInit == Init => GoneInv
BY GoneAssumption DEF Init, GoneInv

\* A step of the only request to the place `to', whatever it writes.
LEMMA AddressMoves ==
  ASSUME NEW r \in Requesters, NEW to \in Steps, \A q \in Requesters : q = r, pc'[r] = to,
         to \in {"delBox", "delState"} => row' = Gone,
         to \in {"editCheck", "edit"} => seen'[r] = row',
         to = "repoint" => row' = port'[r],
         row' # Gone => mapped' /\ (pinged' = row' \/ to = "repoint"),
         box'.status = "running" =>
           /\ to \in {"launched", "refresh", "save", "repoint"} => box'.port = port'[r]
           /\ row' \in {box'.port, Gone} \/ to \in {"launched", "refresh", "save"}
  PROVE  AddressInv'
<1>1. \A q \in Requesters : pc'[q] = to /\ seen'[q] = seen'[r] /\ port'[q] = port'[r]
  OBVIOUS
<1>2. RowInv'
  BY <1>1 DEF RowInv
<1>3. PingInv'
  BY <1>1 DEF PingInv
<1>4. BoxInv'
  BY <1>1 DEF BoxInv
<1> QED BY <1>2, <1>3, <1>4 DEF AddressInv

\* What AddressInv says of the only request.
LEMMA AddressOfOne ==
  ASSUME AddressInv, NEW r \in Requesters, \A q \in Requesters : q = r
  PROVE  /\ pc[r] \in {"delBox", "delState"} => row = Gone
         /\ pc[r] \in {"editCheck", "edit"} => seen[r] = row
         /\ pc[r] = "repoint" => row = port[r]
         /\ row # Gone => mapped /\ (pinged = row \/ pc[r] = "repoint")
         /\ box.status = "running" =>
              /\ pc[r] \in {"launched", "refresh", "save", "repoint"} => box.port = port[r]
              /\ row \in {box.port, Gone} \/ pc[r] \in {"launched", "refresh", "save"}
<1>1. \A q \in Requesters : pc[q] = pc[r] /\ port[q] = port[r] /\ seen[q] = seen[r]
  OBVIOUS
<1> QED BY <1>1 DEF AddressInv, RowInv, PingInv, BoxInv

\* A request that is answered, or goes to a place of no interest, while the row, the
\* container and the monitor stay as they are, from a place of no interest.
LEMMA AddressRests ==
  ASSUME Requested, AddressInv, NEW r \in Requesters, \A q \in Requesters : q = r,
         pc[r] \notin {"launched", "refresh", "save", "repoint"},
         UNCHANGED <<row, box, mapped, pinged>>,
         Answer(r) \/ \E to \in Steps \ {"launched", "refresh", "save", "repoint", "delBox",
                                         "delState", "editCheck", "edit"} : GoTo(r, to)
  PROVE  AddressInv'
<1>0. PICK to \in Steps \ {"launched", "refresh", "save", "repoint", "delBox",
                           "delState", "editCheck", "edit"} : pc'[r] = to
  BY Names DEF Answer, GoTo, Requested
<1> QED BY <1>0, AddressMoves, AddressOfOne

LEMMA AddressBegin ==
  ASSUME OneRequester, TypeInv, AddressInv, NEW r \in Requesters, Begin(r)
  PROVE  AddressInv'
<1> Requested
  BY TypesOfRequests
<1> \A q \in Requesters : q = r
  BY TheOne
<1>1. ASSUME NEW g, NEW to \in {"compare", "stopRead", "editCheck", "delCheck"}, Request(r, g, to)
      PROVE  AddressInv'
  <2>1. /\ pc[r] = "idle" /\ pc'[r] = to /\ seen'[r] = row
        /\ UNCHANGED <<row, box, port, mapped, pinged>>
    BY <1>1 DEF Request, Requested, monitor
  <2>2. to \in Steps
    BY Names
  <2> QED BY <2>1, <2>2, AddressMoves, AddressOfOne
<1> QED BY <1>1 DEF Begin, UpdateRunStatus, Upgrade, Update, Del

LEMMA AddressStart ==
  ASSUME OneRequester, SafeStore, TypeInv, GoneInv, AddressInv, NEW r \in Requesters,
         \/ StartCheck(r) \/ StartRead(r) \/ StartMark(r) \/ StartInstance(r)
         \/ Started(r) \/ Refresh(r) \/ Save(r) \/ Repoint(r)
  PROVE  AddressInv'
<1> Requested
  BY TypesOfRequests
<1> \A q \in Requesters : q = r
  BY TheOne
<1>a. row # Gone /\ ~Fault("docker") /\ ~Fault("db")
  BY NoFailure DEF GoneInv, StartCheck, StartRead, StartMark, StartInstance, Started,
    Refresh, Save, Repoint
<1>b. /\ pc[r] = "repoint" => row = port[r]
      /\ mapped /\ (pinged = row \/ pc[r] = "repoint")
      /\ box.status = "running" =>
           /\ pc[r] \in {"launched", "refresh", "save", "repoint"} => box.port = port[r]
           /\ row = box.port \/ pc[r] \in {"launched", "refresh", "save"}
  BY <1>a, AddressOfOne
<1>1. CASE StartCheck(r)
  BY <1>1, AddressRests, Names DEF StartCheck, monitor
<1>2. CASE StartRead(r)
  <2>1. pc[r] = "startRead" /\ pc'[r] = "startMark" /\ UNCHANGED <<row, box, mapped, pinged>>
    BY <1>2, <1>a DEF StartRead, NotFound, Requested, monitor
  <2> QED BY <2>1, <1>b, AddressMoves, Names
<1>3. CASE StartMark(r)
  BY <1>3, AddressRests, Names DEF StartMark, monitor
<1>4. CASE StartInstance(r)
  <2>1. /\ pc[r] = "launch" /\ pc'[r] = "launched" /\ port'[r] = port[r]
        /\ box' = [status |-> "running", port |-> port[r]]
        /\ UNCHANGED <<row, mapped, pinged>>
    BY <1>4, <1>a DEF StartInstance, GoTo, Requested, monitor
  <2>2. box'.port = port[r]
    BY <2>1
  <2> QED BY <2>1, <2>2, <1>b, AddressMoves, Names
<1>5. CASE Started(r)
  <2>1. /\ pc[r] = "launched" /\ pc'[r] = "refresh" /\ port'[r] = port[r]
        /\ UNCHANGED <<row, box, mapped, pinged>>
    BY <1>5 DEF Started, GoTo, Requested, monitor
  <2> QED BY <2>1, <1>b, AddressMoves, Names
<1>6. CASE Refresh(r)
  <2>1. pc[r] = "refresh" /\ UNCHANGED <<row, box, mapped, pinged>>
    BY <1>6 DEF Refresh, monitor
  <2>2. CASE row = port[r] /\ Answer(r)
    <3>1. pc'[r] = "idle"
      BY <2>2 DEF Answer, Requested
    <3> QED BY <2>1, <2>2, <3>1, <1>b, AddressMoves, Names
  <2>3. CASE GoTo(r, "save")
    <3>1. pc'[r] = "save" /\ port'[r] = port[r]
      BY <2>3 DEF GoTo, Requested
    <3> QED BY <2>1, <3>1, <1>b, AddressMoves, Names
  <2> QED BY <1>6, <1>a, <2>2, <2>3 DEF Refresh, NotFound
<1>7. CASE Save(r)
  <2>1. /\ pc[r] = "save" /\ pc'[r] = "repoint" /\ port'[r] = port[r] /\ row' = port[r]
        /\ UNCHANGED <<box, mapped, pinged>>
    BY <1>7, <1>a DEF Save, GoTo, Requested, monitor
  <2> QED BY <2>1, <1>b, AddressMoves, Names
<1>8. CASE Repoint(r)
  <2>1. /\ pc[r] = "repoint" /\ pc'[r] = "idle" /\ pinged' = port[r]
        /\ UNCHANGED <<row, box, mapped>>
    BY <1>8, <1>b DEF Repoint, Repointed, Answer, Requested
  <2> QED BY <2>1, <1>b, AddressMoves, Names
<1> QED BY <1>1, <1>2, <1>3, <1>4, <1>5, <1>6, <1>7, <1>8

LEMMA AddressOther ==
  ASSUME OneRequester, SafeStore, TypeInv, GoneInv, AddressInv, NEW r \in Requesters,
         \/ Compare(r) \/ Lookup(r)
         \/ StopRead(r) \/ StopMark(r) \/ StopInstance(r) \/ Stopped(r)
         \/ EditCheck(r) \/ Edit(r)
         \/ DelCheck(r) \/ DelRow(r) \/ DeleteInstance(r) \/ DelState(r)
  PROVE  AddressInv'
<1> Requested
  BY TypesOfRequests
<1> \A q \in Requesters : q = r
  BY TheOne
<1>a. ~Fault("docker") /\ ~Fault("db")
  BY NoFailure
<1>b. /\ pc[r] \in {"delBox", "delState"} => row = Gone
      /\ pc[r] \in {"editCheck", "edit"} => seen[r] = row
      /\ row # Gone => mapped /\ pinged = row
      /\ box.status = "running" => row \in {box.port, Gone}
      /\ pc[r] \notin {"launched", "refresh", "save", "repoint"}
  BY AddressOfOne DEF Compare, Lookup, StopRead, StopMark, StopInstance, Stopped, EditCheck, Edit,
    DelCheck, DelRow, DeleteInstance, DelState
<1>1. CASE Compare(r)
  BY <1>1, <1>b, AddressRests, Names DEF Compare, monitor
<1>2. CASE Lookup(r)
  BY <1>2, <1>b, AddressRests, Names DEF Lookup, monitor
<1>3. CASE StopRead(r) \/ StopMark(r)
  BY <1>3, <1>b, AddressRests, Names DEF StopRead, StopMark, monitor
<1>4. CASE StopInstance(r)
  <2>1. /\ pc[r] = "halt" /\ pc'[r] = "halted" /\ box' = Halted(box)
        /\ UNCHANGED <<row, mapped, pinged>>
    BY <1>4, <1>a DEF StopInstance, GoTo, Requested, monitor
  <2>2. box'.status # "running"
    BY <2>1, TypesOfRequests DEF Halted, NoBox, Boxes
  <2> QED BY <2>1, <2>2, <1>b, AddressMoves, Names
<1>5. CASE Stopped(r)
  BY <1>5, <1>b, AddressRests, Names DEF Stopped, monitor
<1>6. CASE EditCheck(r)
  <2>1. UNCHANGED <<row, box, mapped, pinged>>
    BY <1>6 DEF EditCheck, monitor
  <2>2. CASE Answer(r)
    BY <2>1, <2>2, <1>b, AddressRests
  <2>3. CASE GoTo(r, "edit")
    <3>1. pc'[r] = "edit" /\ seen'[r] = row
      BY <1>6, <2>3, <1>b DEF EditCheck, GoTo, Requested
    <3> QED BY <2>1, <3>1, <1>b, AddressMoves, Names
  <2> QED BY <1>6, <2>2, <2>3 DEF EditCheck
<1>7. CASE Edit(r)
  <2>1. Answer(r) /\ UNCHANGED <<row, box, mapped, pinged>>
    BY <1>7, <1>a, <1>b DEF Edit, monitor
  <2> QED BY <2>1, <1>b, AddressRests
<1>8. CASE DelCheck(r)
  BY <1>8, <1>b, AddressRests, Names DEF DelCheck, monitor
<1>9. CASE DelRow(r)
  <2>1. pc'[r] = "delBox" /\ row' = Gone
    BY <1>9, <1>a DEF DelRow, GoTo, Requested
  <2> QED BY <2>1, AddressMoves, Names
<1>10. CASE DeleteInstance(r)
  <2>1. pc'[r] = "delState" /\ row' = Gone
    BY <1>10, <1>b DEF DeleteInstance, GoTo, Requested
  <2> QED BY <2>1, AddressMoves, Names
<1>11. CASE DelState(r)
  <2>1. pc'[r] = "idle" /\ row' = Gone
    BY <1>11, <1>b DEF DelState, Answer, Requested
  <2> QED BY <2>1, AddressMoves, Names
<1> QED BY <1>1, <1>2, <1>3, <1>4, <1>5, <1>6, <1>7, <1>8, <1>9, <1>10, <1>11

LEMMA AddressStep ==
  OneRequester /\ SafeStore /\ TypeInv /\ GoneInv /\ AddressInv /\ [Next]_vars => AddressInv'
<1> SUFFICES ASSUME OneRequester, SafeStore, TypeInv, GoneInv, AddressInv, [Next]_vars
             PROVE  AddressInv'
  OBVIOUS
<1>1. ASSUME NEW r \in Requesters, Step(r) PROVE AddressInv'
  BY <1>1, AddressStart, AddressOther DEF Step
<1>2. CASE Monitor
  BY <1>2 DEF Monitor, MonitorGet, MonitorPing, MonitorCheck, MonitorReport, request,
    AddressInv, RowInv, PingInv, BoxInv
<1>3. CASE BoxDies
  <2>1. box'.status # "running"
    BY <1>3, TypesOfRequests DEF BoxDies, Halted, NoBox, Boxes
  <2> QED BY <1>3, <2>1 DEF BoxDies, request, monitor, AddressInv, RowInv, PingInv, BoxInv
<1>4. CASE UNCHANGED vars
  BY <1>4 DEF vars, AddressInv, RowInv, PingInv, BoxInv
<1>5. ~Restart
  BY NoRestart DEF SafeStore
<1> QED BY <1>1, <1>2, <1>3, <1>4, <1>5, AddressBegin DEF Next

LEMMA AddressInit == Init => AddressInv
BY DEF Init, NoBox, AddressInv, RowInv, PingInv, BoxInv

\* With one request at a time, and a Docker and a database that work, containers
\* that die and a monitor that errs: once the request is answered, the port of a
\* container that runs is the one in the row, where commands go, and the one the
\* monitor pings (Start, Update, Del).
THEOREM AddressIsKnown ==
  OneRequester /\ SafeStore => (Spec => []AddressKnown)
<1> SUFFICES ASSUME OneRequester, SafeStore PROVE Spec => []AddressKnown
  OBVIOUS
<1>1. GoneInv /\ AddressInv => AddressKnown
  BY DEF GoneInv, AddressInv, PingInv, BoxInv, AddressKnown, NoBox
<1>2. TypeInv /\ GoneInv /\ [Next]_vars => GoneInv'
  BY GoneStep DEF SafeStore
<1>3. TypeInv /\ GoneInv /\ AddressInv /\ [Next]_vars => AddressInv'
  BY AddressStep
<1> QED BY <1>1, <1>2, <1>3, TypeInit, TypeStep, GoneInit, AddressInit, PTL DEF Spec
=============================================================================
