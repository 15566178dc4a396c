--------------------------- MODULE DriverService ----------------------------
(***************************************************************************)
(* driverserviceapp/servicemanager.go and servicemonitor.go: one driver    *)
(* instance, a Docker container the core starts and stops for the          *)
(* administrators.  Its row is in the database, its run state in the       *)
(* manager's sync.Map, the container in Docker.  Websocket messages run    *)
(* in goroutines of their own and nothing orders two of them; a monitor    *)
(* goroutine pings the container and overwrites the run state.             *)
(*                                                                         *)
(* A key the sync.Map does not have counts as "stopped": GetState stores   *)
(* that, and InProgress is false.                                          *)
(***************************************************************************)
EXTENDS Naturals

CONSTANTS
  Ports,       \* the ports GetAvailablePort may find; a BaseAddress is one of them
  Requesters,  \* the goroutines that serve the administrators
  Faults,      \* what may go wrong: some of "docker", "db", "ping", "box", "crash"
  MaxRequests, \* bound: the requests in a behaviour
  MaxFaults    \* bound: the faults in a behaviour

ASSUME DriverAssumption ==
  /\ Faults \subseteq {"docker", "db", "ping", "box", "crash"}
  /\ MaxRequests \in Nat
  /\ MaxFaults \in Nat

Gone == 0    \* no row, or no address
ASSUME GoneAssumption == Gone \notin Ports /\ Ports # {}

VARIABLES
  row,      \* the BaseAddress in the instance's row, or Gone
  state,    \* driverServiceAppM.state of the instance
  box,      \* its container, and the port it was made for
  pc,       \* where each request is,
  goal,     \* what it is to reach,
  seen,     \* the address it has read,
  port,     \* and the port it has chosen
  mapped,   \* the monitor is in dsMonitor
  mon,      \* where the monitor's goroutine is,
  pinged,   \* its ds.BaseAddress,
  alive,    \* and its last reading of the container
  requests, faults  \* how many requests and faults there have been

vars == <<row, state, box, pc, goal, seen, port, mapped, mon, pinged, alive, requests, faults>>
request == <<pc, goal, seen, port>>
monitor == <<mapped, mon, pinged, alive>>
bounds  == <<requests, faults>>

NoBox == [status |-> "absent", port |-> Gone]
Boxes == [status : {"exited", "running"}, port : Ports] \cup {NoBox}

States == {"stopped", "starting", "started", "stopping"}
Goals == {"none", "started", "stopped", "restarted", "edited", "deleted"}
Steps == {"idle", "compare", "lookup", "startCheck", "startRead", "startMark", "launch",
          "launched", "refresh", "save", "repoint", "stopRead", "stopMark", "halt", "halted",
          "editCheck", "edit", "delCheck", "delRow", "delBox", "delState"}

TypeOK ==
  /\ row \in Ports \cup {Gone}
  /\ state \in States
  /\ box \in Boxes
  /\ pc \in [Requesters -> Steps]
  /\ goal \in [Requesters -> Goals]
  /\ seen \in [Requesters -> Ports \cup {Gone}]
  /\ port \in [Requesters -> Ports \cup {Gone}]
  /\ mapped \in BOOLEAN
  /\ mon \in {"wait", "probe", "check", "report", "sending", "none"}
  /\ pinged \in Ports \cup {Gone}
  /\ alive \in BOOLEAN
  /\ requests \in 0..MaxRequests
  /\ faults \in 0..MaxFaults

\* The bounded environment: a fault of kind f uses up one.
Fault(f) == f \in Faults /\ faults < MaxFaults /\ faults' = faults + 1

InProgress == state \in {"starting", "stopping"}
SetState(s) == state' = s

\* The request of r goes on at step `to', or is answered.
GoTo(r, to) == pc' = [pc EXCEPT ![r] = to] /\ UNCHANGED <<goal, seen, port>>
Answer(r) ==
  /\ pc' = [pc EXCEPT ![r] = "idle"]
  /\ goal' = [goal EXCEPT ![r] = "none"]
  /\ seen' = [seen EXCEPT ![r] = Gone]
  /\ port' = [port EXCEPT ![r] = Gone]

\* The first step of a request for g.
Request(r, g, to) ==
  /\ pc[r] = "idle"
  /\ requests < MaxRequests
  /\ requests' = requests + 1
  /\ pc' = [pc EXCEPT ![r] = to]
  /\ goal' = [goal EXCEPT ![r] = g]
  /\ seen' = [seen EXCEPT ![r] = row]
  /\ UNCHANGED <<row, state, box, port, monitor, faults>>

\* Get finds the row, or does not, or the database fails.
Found == row # Gone /\ UNCHANGED faults
NotFound == \/ row = Gone /\ UNCHANGED faults
            \/ Fault("db")

(***************************************************************************)
(* UpdateRunStatus                                                         *)
(***************************************************************************)

\* An instance in progress is refused: no step.
UpdateRunStatus(r, g) == ~InProgress /\ Request(r, g, "compare")

Compare(r) ==
  /\ pc[r] = "compare"
  /\ IF state = goal[r] THEN Answer(r) ELSE GoTo(r, "lookup")
  /\ UNCHANGED <<row, state, box, monitor, bounds>>

Lookup(r) ==
  /\ pc[r] = "lookup"
  /\ \/ Found /\ GoTo(r, IF goal[r] = "started" THEN "startCheck" ELSE "stopRead")
     \/ NotFound /\ Answer(r)
  /\ UNCHANGED <<row, state, box, monitor, requests>>

(***************************************************************************)
(* Start                                                                   *)
(***************************************************************************)

\* Mutant: a variable that shadows err, which the deferred function looks at.
LeaveState(r) == UNCHANGED state /\ Answer(r)

\* An error return: the deferred function sets the state.
StartFails(r) == SetState("stopped") /\ Answer(r)

\* This one leaves err nil.
StartCheck(r) ==
  /\ pc[r] = "startCheck"
  /\ IF InProgress THEN Answer(r) ELSE GoTo(r, "startRead")
  /\ UNCHANGED <<row, state, box, monitor, bounds>>

\* The instance, its driver library, a port (its own, unless something listens
\* there) and the configuration.
StartRead(r) ==
  /\ pc[r] = "startRead"
  /\ \/ /\ Found
        /\ \E p \in Ports : port' = [port EXCEPT ![r] = p]
        /\ pc' = [pc EXCEPT ![r] = "startMark"]
        /\ UNCHANGED <<goal, seen, state>>
     \/ NotFound /\ StartFails(r)
  /\ UNCHANGED <<row, box, monitor, requests>>

StartMark(r) ==
  /\ pc[r] = "startMark"
  /\ SetState("starting")
  /\ GoTo(r, "launch")
  /\ UNCHANGED <<row, box, monitor, bounds>>

\* StartInstance: a container of that name is removed, a new one made and started,
\* and looked at after a second.  An error may come from any of these.
StartInstance(r) ==
  /\ pc[r] = "launch"
  /\ \/ /\ box' = [status |-> "running", port |-> port[r]]
        /\ GoTo(r, "launched")
        /\ UNCHANGED <<state, faults>>
     \/ /\ Fault("docker")
        /\ box' \in {box, NoBox} \cup [status : {"exited", "running"}, port : {port[r]}]
        /\ StartFails(r)
  /\ UNCHANGED <<row, monitor, requests>>

Started(r) ==
  /\ pc[r] = "launched"
  /\ SetState("started")
  /\ GoTo(r, "refresh")
  /\ UNCHANGED <<row, box, monitor, bounds>>

\* The row is read again; it is written only for a new address.
Refresh(r) ==
  /\ pc[r] = "refresh"
  /\ \/ /\ Found
        /\ IF row = port[r] THEN Answer(r) ELSE GoTo(r, "save")
        /\ UNCHANGED state
     \/ NotFound /\ StartFails(r)
  /\ UNCHANGED <<row, box, monitor, requests>>

\* All columns; a row that is gone stays so.
Save(r) ==
  /\ pc[r] = "save"
  /\ \/ /\ row' = IF row = Gone THEN Gone ELSE port[r]
        /\ GoTo(r, "repoint")
        /\ UNCHANGED <<state, faults>>
     \/ Fault("db") /\ StartFails(r) /\ UNCHANGED row
  /\ UNCHANGED <<box, monitor, requests>>

\* Mutant: the monitor keeps the address it was made with.
KeepPinged(r) == UNCHANGED pinged

Repointed(r) == pinged' = IF mapped THEN port[r] ELSE pinged

Repoint(r) ==
  /\ pc[r] = "repoint"
  /\ Repointed(r)
  /\ Answer(r)
  /\ UNCHANGED <<row, state, box, mapped, mon, alive, bounds>>

(***************************************************************************)
(* Stop and Upgrade                                                        *)
(***************************************************************************)

\* Upgrade restarts an instance that runs, and checks no more than that.
Upgrade(r) == state = "started" /\ row # Gone /\ Request(r, "restarted", "stopRead")

StopRead(r) ==
  /\ pc[r] = "stopRead"
  /\ \/ Found /\ GoTo(r, "stopMark")
     \/ NotFound /\ Answer(r)
  /\ UNCHANGED <<row, state, box, monitor, requests>>

StopMark(r) ==
  /\ pc[r] = "stopMark"
  /\ SetState("stopping")
  /\ GoTo(r, "halt")
  /\ UNCHANGED <<row, box, monitor, bounds>>

\* Mutant: a container that was never made is taken for a stopped one.
Halved(b) == [b EXCEPT !.status = "exited"]

Halted(b) == IF b = NoBox THEN NoBox ELSE [b EXCEPT !.status = "exited"]

\* StopInstance reports no error, though Docker may refuse to stop and to kill.
StopInstance(r) ==
  /\ pc[r] = "halt"
  /\ \/ box' = Halted(box) /\ UNCHANGED faults
     \/ Fault("docker") /\ UNCHANGED box
  /\ GoTo(r, "halted")
  /\ UNCHANGED <<row, state, monitor, requests>>

Stopped(r) ==
  /\ pc[r] = "halted"
  /\ SetState("stopped")
  /\ IF goal[r] = "restarted" THEN GoTo(r, "startCheck") ELSE Answer(r)
  /\ UNCHANGED <<row, box, monitor, bounds>>

(***************************************************************************)
(* Update and Del                                                          *)
(***************************************************************************)
Update(r) == row # Gone /\ Request(r, "edited", "editCheck")

\* "service is running not update"
EditCheck(r) ==
  /\ pc[r] = "editCheck"
  /\ IF state = "started" THEN Answer(r) ELSE GoTo(r, "edit")
  /\ UNCHANGED <<row, state, box, monitor, bounds>>

\* All columns are written as they were read, but for the edited ones.
Edit(r) ==
  /\ pc[r] = "edit"
  /\ \/ row' = (IF row = Gone THEN Gone ELSE seen[r]) /\ UNCHANGED faults
     \/ Fault("db") /\ UNCHANGED row
  /\ Answer(r)
  /\ UNCHANGED <<state, box, monitor, requests>>

Del(r) == row # Gone /\ Request(r, "deleted", "delCheck")

\* "must stop service"
DelCheck(r) ==
  /\ pc[r] = "delCheck"
  /\ IF state # "stopped" THEN Answer(r) ELSE GoTo(r, "delRow")
  /\ UNCHANGED <<row, state, box, monitor, bounds>>

\* Nobody looks at the transaction's error.
DelRow(r) ==
  /\ pc[r] = "delRow"
  /\ \/ row' = Gone /\ UNCHANGED faults
     \/ Fault("db") /\ UNCHANGED row
  /\ GoTo(r, "delBox")
  /\ UNCHANGED <<state, box, monitor, requests>>

\* Mutant: a running container is not removed by force.
RemoveExited == box' = IF box.status = "running" THEN box ELSE NoBox

\* ContainerRemove with Force.
RemoveBox == box' = NoBox

DeleteInstance(r) ==
  /\ pc[r] = "delBox"
  /\ \/ RemoveBox /\ UNCHANGED faults
     \/ Fault("docker") /\ UNCHANGED box
  /\ GoTo(r, "delState")
  /\ UNCHANGED <<row, state, monitor, requests>>

DelState(r) ==
  /\ pc[r] = "delState"
  /\ mapped' = FALSE
  /\ SetState("stopped")
  /\ Answer(r)
  /\ UNCHANGED <<row, box, mon, pinged, alive, bounds>>

(***************************************************************************)
(* The monitor: CheckServiceAvailable, every five seconds                  *)
(***************************************************************************)

\* If Get fails, the goroutine sends on exitChan, from which only it receives.
MonitorGet ==
  /\ mon = "wait"
  /\ \/ Found /\ mon' = "probe"
     \/ NotFound /\ mon' = "sending"
  /\ UNCHANGED <<row, state, box, request, mapped, pinged, alive, requests>>

\* InstanceState: Docker says that the container runs, and its port answers.  It may
\* also be that the container is too new for the one or the other.
MonitorPing ==
  /\ mon = "probe"
  /\ \/ alive' = (box = [status |-> "running", port |-> pinged]) /\ UNCHANGED faults
     \/ Fault("ping") /\ alive' = FALSE
  /\ mon' = "check"
  /\ UNCHANGED <<row, state, box, request, mapped, pinged, requests>>

MonitorCheck ==
  /\ mon = "check"
  /\ mon' = IF InProgress THEN "wait" ELSE "report"
  /\ UNCHANGED <<row, state, box, request, mapped, pinged, alive, bounds>>

\* Mutant: the monitor only reports a container that has died.
ReportDeath == IF alive THEN UNCHANGED state ELSE SetState("stopped")

Report == SetState(IF alive THEN "started" ELSE "stopped")

MonitorReport ==
  /\ mon = "report"
  /\ Report
  /\ mon' = "wait"
  /\ UNCHANGED <<row, box, request, mapped, pinged, alive, bounds>>

(***************************************************************************)
(* The container and the process                                           *)
(***************************************************************************)
BoxDies ==
  /\ box.status = "running"
  /\ Fault("box")
  /\ box' = Halted(box)
  /\ UNCHANGED <<row, state, request, monitor, requests>>

\* dsMonitor is a map without a lock: two goroutines that use it at once, one of
\* them to delete, may end the process.
MapRace ==
  \E r, q \in Requesters : r # q /\ pc[r] = "delState" /\ pc[q] \in {"repoint", "delState"}

\* The process dies, or ends and stops all instances before, and comes back:
\* initMonitor makes a monitor for the row.
Restart ==
  /\ \/ Fault("crash")
     \/ MapRace /\ UNCHANGED faults
  /\ box' \in {box, Halted(box)}
  /\ state' = "stopped"
  /\ pc' = [r \in Requesters |-> "idle"]
  /\ goal' = [r \in Requesters |-> "none"]
  /\ seen' = [r \in Requesters |-> Gone]
  /\ port' = [r \in Requesters |-> Gone]
  /\ mapped' = (row # Gone)
  /\ mon' = IF row = Gone THEN "none" ELSE "wait"
  /\ pinged' = row
  /\ alive' = FALSE
  /\ UNCHANGED <<row, requests>>

(***************************************************************************)
(* Specification                                                           *)
(***************************************************************************)

\* What Add leaves: a row, a monitor, no container.
Init ==
  /\ row \in Ports
  /\ state = "stopped"
  /\ box = NoBox
  /\ pc = [r \in Requesters |-> "idle"]
  /\ goal = [r \in Requesters |-> "none"]
  /\ seen = [r \in Requesters |-> Gone]
  /\ port = [r \in Requesters |-> Gone]
  /\ mapped = TRUE
  /\ mon = "wait"
  /\ pinged = row
  /\ alive = FALSE
  /\ requests = 0
  /\ faults = 0

Begin(r) ==
  \/ \E g \in {"started", "stopped"} : UpdateRunStatus(r, g)
  \/ Upgrade(r) \/ Update(r) \/ Del(r)

Step(r) ==
  \/ Compare(r) \/ Lookup(r)
  \/ StartCheck(r) \/ StartRead(r) \/ StartMark(r) \/ StartInstance(r)
  \/ Started(r) \/ Refresh(r) \/ Save(r) \/ Repoint(r)
  \/ StopRead(r) \/ StopMark(r) \/ StopInstance(r) \/ Stopped(r)
  \/ EditCheck(r) \/ Edit(r)
  \/ DelCheck(r) \/ DelRow(r) \/ DeleteInstance(r) \/ DelState(r)

Monitor == MonitorGet \/ MonitorPing \/ MonitorCheck \/ MonitorReport

Next ==
  \/ \E r \in Requesters : Begin(r) \/ Step(r)
  \/ Monitor
  \/ BoxDies
  \/ Restart

Spec == Init /\ [][Next]_vars

\* Handlers and the monitor's ticker keep running; nobody has to ask for anything,
\* nothing has to go wrong.
Fairness ==
  /\ \A r \in Requesters : WF_vars(Step(r))
  /\ WF_vars(Monitor)

FairSpec == Spec /\ Fairness

(***************************************************************************)
(* Properties                                                              *)
(***************************************************************************)

\* The instance is "starting" or "stopping" only while a request is at it, whoever
\* meets and whatever fails: else UpdateRunStatus would refuse it for ever.
NeverStuck ==
  /\ state = "starting" => \E r \in Requesters : pc[r] \in {"launch", "launched"}
  /\ state = "stopping" => \E r \in Requesters : pc[r] \in {"halt", "halted"}

\* For one request at a time, and a database that works: when none is at work the
\* container's address is the row's, where commands to devices go, and the
\* monitor's, which it pings (Start, 128-139).
AddressKnown ==
  box.status = "running" /\ (\A r \in Requesters : pc[r] = "idle") => row = box.port /\ pinged = box.port

\* Del takes the row first and then the container, and only logs what Docker says.
\* Whoever meets and whatever fails, a deleted instance is left with a container, and
\* nobody about to remove it, only by a start that had read the row before, by a
\* Docker that refuses, or by the end of the process between the two.
Orphan == row = Gone /\ box # NoBox /\ \A r \in Requesters : pc[r] # "delBox"
Refused(r) == DeleteInstance(r) /\ UNCHANGED box /\ faults' # faults

NoOrphans ==
  [][~Orphan /\ Orphan' => Restart \/ \E r \in Requesters : StartInstance(r) \/ Refused(r)]_vars

\* While the port stays the same, and the monitor has met no error: when requests
\* and faults are over, the state shows whether the container runs.
StateSettles ==
  <>[](row # Gone /\ mon # "sending" => state = IF box.status = "running" THEN "started" ELSE "stopped")
=============================================================================
