# A formal model of the Hummingbird IoT core

Hummingbird is a gateway core written in Go (`src/internal/hummingbird`, entry
`src/cmd/iot-core/main.go`). It keeps products, devices, driver instances, scenes,
rules and alerts in SQLite or MySQL, device readings in LevelDB or TDengine, runs
drivers as Docker containers, talks to them by gRPC, hands stream rules to eKuiper
over REST, and serves a React interface by HTTP and websocket.

This directory models the parts of it in which goroutines, other processes and stores
meet. TLC checks the models on small instances, and TLAPS proves the main safety
properties for every value of the constants.

| module | models | proofs |
| --- | --- | --- |
| `JobQueue` | what the cron timer promises, abstractly | |
| `JobSet` | the cron timer as its callers see it, without time | |
| `EdgeTimer` | the cron timer: run loop, mutex, channels, `time.Timer` | `EdgeTimerProofs` |
| `SceneLinkage` | scenes: rows, timer jobs, eKuiper rules, monitor, restart | `SceneLinkageProofs` |
| `AnswerBox` | what a command to a device promises | |
| `DeviceAck` | a command to a device and the driver's answer | `DeviceAckProofs` |
| `DriverService` | a driver instance: row, run state, container, monitor | `DriverServiceProofs` |
| `RuleLife` | what the rule engine promises of a rule | |
| `RuleSync` | the rule engine and the data resource its rules use | `RuleSyncProofs` |
| `ThrottledAlerts` | what the alert centre promises of its alerts | |
| `AlertCentre` | alert rules, eKuiper's reports, alerts and their silence time | `AlertCentreProofs` |
| `WebSocketClass` | the browser's side of the websocket | `MyDriveProofs` |
| `TableRequest` | the hook behind every table of the interface | `MyDriveProofs` |
| `RequestReply` | what a page that asks for one thing at a time promises | |
| `MyDrive` | the page of driver instances: the two above together | `MyDriveProofs` |
| `DriverLog` | the log of a driver: modal, websocket class, hub, log readers | `DriverLogProofs` |
| `MCEdgeTimer`, `MCSceneLinkage`, `MCAlertCentre` | constants and symmetry for TLC | |

Paths below are relative to `src/internal/hummingbird/core/`, unless they begin with
`src/`.

## 1. Inventory

### 1.1 Components with concurrency or several stores

**Cron timer** (`application/timerapp/timerapp.go`). State: the mutex, `jobMap`,
the slice `entries`, `running`, the channels `add`, `rm` and `stop`, and the loop's
local `now` and timer. Operations: `AddJobToRunQueue`, `DeleteJob`, `Stop`, `run`,
`restoreJobs`. Callers are HTTP handlers (through the scenes); the loop is one
goroutine. *Hard:* the mutex is held over a channel send and taken again by the loop;
`running` and `jobMap` are read without it; a stale tick stays in the timer's channel.
*Correct when:* every job fires once for each time of its schedule, not before; the
loop never sleeps through a job; additions and removals return.

**Scenes** (`application/scene/`). State: the row, a job on the cron timer for a
"timer" scene, a rule in eKuiper, which no request can start, for a "notify" scene. Operations: `AddScene`,
`UpdateScene`, `SceneStartById`, `SceneStopById`, `DelSceneById`, `EkuiperNotify`, and
a monitor that copies rule states to rows every nine seconds. *Hard:* three stores and
no transaction; handlers write whole rows they read earlier; `DeleteJob` returns before
the job is gone; a restart refills the timer from the rows. *Correct when:* rows, jobs
and rules agree once nobody is at work.

**Device commands** (`application/deviceapp/deviceaction.go`,
`application/messagestore/`, the response cases of `application/persistence/thinkmodel.go`).
State: the map of acknowledgements, one channel with a mutex and a flag for each
call. *Hard:* answers come before the call has returned, after its deadline, twice or
never. *Correct when:* nobody sends on a closed channel, each call returns, and an
answer that is dropped is a late one.

**Driver instances** (`application/driverserviceapp/`, `application/dmi/docker/`).
State: the row, the run state in a `sync.Map`, the container, and a monitor goroutine
for each instance (every five seconds). Operations: `Add`, `Update`, `Upgrade`,
`UpdateRunStatus` (`Start`, `Stop`), `Del`. *Hard:* "in progress" is tested when a
request comes and set several reads later; the monitor overwrites the state; Docker
and the database fail separately. *Correct when:* no instance stays in progress for
ever, commands go to the container's address, and a deleted instance leaves no
container.

**Rule engine** (`application/ruleengine/`) and **data resources**
(`application/dataresource/`). State: a row and an eKuiper rule for each rule, a row
with a health mark for each resource. Operations: `AddRuleEngine`, `UpdateRuleEngine`,
`RuleEngineStart`, `RuleEngineStop`, `RuleEngineDelete`, and `AddDataResource`,
`UpdateDataResource`, `DelDataResourceById`, `DataResourceHealth`; a monitor as for
scenes. *Hard:* here the eKuiper rule is made before the row; that no started rule uses
a resource is tested and then the resource written; a check of its health ends in a
later write. *Correct when:* no rule runs that no request can reach, rules start on
checked options, and the rows come to show what the rules do.

**Alert centre** (`application/alertcentreapp/`). State: a row and an eKuiper rule for
each alert rule, and the list of alerts. Operations: `AddAlertRule`, `UpdateAlertField`,
`UpdateAlertRule`, `AlertRulesStart`, `Restart`, `Stop` and `Delete`, a monitor, and
`AddAlert`, which eKuiper calls with its reports. *Hard:* whole rows read earlier are
written back; a report reads the rule, then the last alert, then inserts. *Correct
when:* a report finds what it needs in the row, and alerts keep the silence time.

**Driver libraries** (`application/driverapp/`). State: the row of a library, the
operation status in a map. Operations: download, upgrade, delete. *Hard:* the status is
tested and then set; the image is pulled in a goroutine of its own.

**Websocket hub** (`controller/http/websocket/server.go`) and **log readers**
(`deviceservicelog.go`, `src/internal/tools/hpcloudclient/`). State: the clients by id,
an unbuffered send channel and two pumps for each, and a reader of the log file of each
watched instance. *Hard:* a goroutine for each message sends to a client whose pump may
have gone; a stop waits for a reader that waits for a handler that waits for a pump.
*Correct when:* a connection that is gone is forgotten, a stop ends, and lines come in
order.

**Websocket client, tables, driver page and log modal** (`src/cmd/iot-ui/src`:
`utils/web-socket.ts`, `hooks/useTableRequest.ts`, `pages/gateway/MyDrive/`). State: the
socket with a count of attempts, a lock and two timers; a stack of resolvers for each
message code; the page number, rows and overlay of a table. *Hard:* answers are found
by code, not by request; listeners are never removed; calls overlap and are answered in
any order, while rows vanish. *Correct when:* there is one connection, a request ends
with its own answer, a table settles on a page there is, and no overlay stays.

**Devices, products, thing models** (`application/deviceapp/`, `productapp/`,
`thingmodelapp/`). Rows that refer to each other, callbacks to drivers, online and
offline states that are published before they are written. *Correct when:* no device is
without its product, and the bus and the rows end with the same state.

### 1.2 Components without

The cron parser (`src/internal/pkg/timer/jobs/`) is a pure algorithm. The gRPC servers,
the HTTP controllers and the gorm clients adapt between layers and keep no state. Users
and tokens, the system monitor, the home page, templates, units, documents, SDKs and the
AI assistant are single tables or readings. The other pages of the interface render what
they fetch; the files under `src/.history` are an editor's copies of them.
`src/internal/pkg/` holds libraries with unit tests of their own. `PROJECT.json` lists
each with the reason it is not modelled.

### 1.3 How they interact

```
browser --websocket class--> hub --> driver instances, log readers
   \------------HTTP-----------------> applications --gorm--> SQLite
                                       |   |  \--REST--> eKuiper --HTTP--> scenes, alerts
                                       |   \--channels--> cron timer --> scenes --> device commands
                                       \--Docker API--> driver container
device commands --gRPC--> driver container --gRPC reports--> persistence --> ack map
```

On start `NewCronTimer` fills the timer from the rows, and each manager makes the
monitors of its rows. On shutdown all driver instances are stopped. Nothing calls
`EdgeTimer.Stop` or `DeviceServiceMonitor.Stop`.

The hazards that follow from all this stand in `PROJECT.json`, each at its line, with
the properties that would catch it or the reason why none does yet.

## 2. The modules

### 2.1 EdgeTimer, JobQueue and JobSet

`entries` maps addresses to structs, as the slice of pointers does; `alarm` and `tick`
are the runtime's timer and its one-element channel, with the behaviour of Go 1.18, the
version `go.mod` names (neither `Stop` nor `Reset` empties the channel). A caller's
steps are those of `AddJobToRunQueue`: the unlocked test of `jobMap` (`AddCheck`), the
lock and the choice on `running` (`ScheduleDirect`, `ScheduleSend`), the send (`RecvAdd`,
with the mutex still held), the write of `jobMap` (`MarkAdded`); and those of
`DeleteJob`: `DeleteJob`, `RemoveDirect` or `RecvRm`. The loop's steps are `LoopStart`,
`Compute` (sort), `Arm` (set the timer), one action for each case of its `select`, and
`LoopRemove` (`removeEntry`, which needs the mutex). Data races on the map and the slice
end the process (`MapRace`, `SliceRace`): Go detects concurrent map access, and the
slice may be shortened under an index.

`CronNext` stands for the cron library with its documented contract: the next time is
later, or the zero time. `after` and `fires` are history variables for the refinement;
`raced` is one too: the jobs that were added while another addition of them was between
the test of the map and its update (`Adding`), which is the one way to get two entries.

`JobQueue` is the promise: a set of jobs; `Fire` fires some of them, each for one due
time of its schedule it has not fired for; `Add` forgets the times before. `EdgeTimer`
implements it under `scheduled <- {entries[a].job : a \in Live}`, if no two callers share
a job (`OneCallerPerJob`) and a schedule has a next time always or never (`Recurring`).

`JobSet` is the same timer as its callers see it, without time, and what `SceneLinkage`
takes its timer to be: `Add` puts a job on it
that is not there, when nothing is on its way out; `Take` is the return of a `DeleteJob`,
`Leave` the removal after it; `Remove` a deletion before the loop has begun. `EdgeTimer`
implements it with `leaving` the id the loop has in hand (`rmJob`), under
`OneCallerPerJob` and `NeverStopped`: a loop that Stop has ended lets calls go on
without it, but nothing in the core calls Stop.

### 2.2 SceneLinkage

`row`, `job` and `rules` are the three stores. A condition carries the number of the edit
that made it, so that a job shows from which edit it comes. Each handler is split at
its calls: it reads the row in its first step (`seen`), and every later step uses what
it read. `Proceed` gives each eKuiper call the outcome that it did its work and the reply
was lost; `CallFails` lets a call or a write fail before it does anything. The timer is a
set of jobs, with the one delay `EdgeTimer` shows a caller: `DeleteJob` returns when the
loop has taken the id, before the job is gone (`removing`). That the timer is such a set
is what `EdgeTimer` is shown to implement (`JobSetSpec`); the actions on `job` and
`removing` are those of `JobSet` by construction. (With several administrators at one
scene the tie is weaker than the code: two additions of one job at once may both pass
the map, `OneCallerPerJob`.)

`SceneStart` starts timer scenes alone. For a notify scene `SceneStartById` calls
`checkAlertRuleParam` first (`sceneapp.go:146`), which refuses a scene that runs (444);
of one that does not run it reads the trigger only if the scene's conditions are not one
(454), while `UpdateScene` stores exactly one (72), so that no action's code is found
(545), and no action at all is an error as well (506): `StartRule` is not reached. What
eKuiper has of scenes is therefore a set of stopped rules (`rules`), and what a row says
can differ from that by a timer scene that was made a notify scene while it ran, or
while its start was under way. The monitor (`MonitorTick`,
`MonitorAsk`, `MonitorWrite`) works with rows it read at its tick. `Restart` ends all
requests and fills the timer as `restoreJobs` does.

### 2.3 DeviceAck and AnswerBox

Two orders exist in the code: `DeviceInvokeThingService`, `SetDeviceProperty` and
`DeviceEffectivePropertyData` register the channel before they send, `DeviceAction`
after (`SendsFirst`). `Lock`, `CheckOpen`, `TrySend` and `UnlockMu` are the critical
section of `TrySendDataAndCloseChan`; `TryCloseChan` takes the same mutex. Both of a
call's ways to give up are there: the RPC context's deadline, which leaves the channel
open and registered (`Deadline`), and `time.After` (`After`). A report of the driver
looks up the id, sends and deletes the id, in a goroutine of its own.

`AnswerBox` has neither locks nor channels nor ids: a command reaches the driver once at
most, an answer is put into the call's box once at most and only if the driver was asked,
and a call ends once, with what it takes out of its box or with nothing. `DeviceAck`
implements it with `asked` the calls the driver has got, `Box` read from the channel
(empty, an answer in it, taken, or shut) and `Outcome` from where the call is.

### 2.4 DriverService

One instance, since the manager keeps nothing that two instances share but ports. Each
request is split at its reads of the database, its calls to Docker and its writes of the
run state. `Restart` covers a crash, the end of the process (which stops the containers)
and Go's fatal error when two goroutines use `dsMonitor` at once. `mon` follows
`CheckServiceAvailable`; "sending" is the state in which it waits for ever, for it sends
on a channel that only its own goroutine receives from.

### 2.5 RuleSync and RuleLife

`row` and `rule` are the two stores, `resource` the row that all rules use, with the
number of the edit its options come from and the health mark; `life` tells an id that
has been drawn from one whose rule has been deleted. Each handler is split at its calls,
as in `SceneLinkage`. `StoreRow` writes back the status that `LookUpRow` found, and with
it, as gorm does for the association it has loaded, the resource if that has been deleted
meanwhile. `SearchRules` is the test for started rules, `EditResource` and `DropResource`
the writes after it; `Probe` is the check of a resource's health and `MarkHealthy` its
write. Two history variables tell whose mark it is: `checked`, the edits whose options a
check has found healthy, and `misled`, those that were written while a check of others
was under way and got its mark (`Misled`).

`RuleLife` is the life of a rule as if there were one store: made, listed, running and
stopping while it is listed, dropped, taken off the list, never back. `RuleSync`
implements it with `listed` the rules that have a row and `Does` what eKuiper says, where
a rule that eKuiper has not is "dropped" once there has been a row for it.

### 2.6 AlertCentre and ThrottledAlerts

A row has a status, the kind of its condition and a silence time; an alert the time it
was made and the silence time it was tested for. `AddAlertRule` and `UpdateAlertField`
touch the row alone, `UpdateAlertRule` makes or replaces the eKuiper rule first. `Post`,
`ReadRule`, `CheckSilence` and `InsertAlert` are `AddAlert`; eKuiper's sink is
configured with `runAsync` false and waits for each answer, so that a rule has one
report at a time. `TimePasses` may come between any two steps. `lost` is a history
variable: the rules whose condition was stored while an `UpdateAlertField` that had read
the row without one was on its way, and undone by it (`Undone`).

`ThrottledAlerts` is the list of alerts as a user sees it: a report finds its rule among
those that are listed (`Find`) and raises one alert or none, when its silence time has
passed (`Raise`); whatever else may become of a report is `Forget`. `AlertCentre`
implements it with `inHand` the rules whose report is past the read of the row.

### 2.7 WebSocketClass, TableRequest, RequestReply and MyDrive

`WebSocketClass` follows the class method by method, with its sockets numbered in the
order they are made. `bindEvents` and `unbindEvents` bind their handlers afresh, so that
nothing is unbound: the events of every socket reach the class. `lockReconnect` is set by
the first message and reset only by `NewSocket`, which it prevents. `TableRequest` is the
hook: a call remembers the page of the render it was made in, calls overlap and are
answered in any order, and an empty page beyond the first is left for the one before.
Four history variables tell what a settled table is to show: `shownPage`, the page its
rows were asked for; `clean`, whether the last call was alone and did not fail; `stands`,
whether the pagination has stayed as it was when the row action under way was made; and
`behind`, whether the last call is the reload of an action for which it has not: `send`
goes on with the reload of the render it was called in (`MyDrive/index.tsx:37`), which
asks for that render's page, whatever the pagination says by then.

`MyDrive` composes the two: a row action is sent over the websocket, the server handles
each message in a goroutine of its own (`ServerHandles`; a deletion may be answered with
success though the row has stayed, for `Del` looks at no error of its transaction,
`servicemanager.go:323`), `Message` delivers its answer
to the resolver on top of the stack of its code, and the continuation (`Settle`) reloads
the table over HTTP. `RequestReply` is the abstract promise, a variable `waiting` and two
more; `MyDrive` implements it with `waiting` the request whose promise is pending.

### 2.8 DriverLog

The modal (`OpenModal`, `ClickButton`, `Cancel`), on the same websocket class, and the
server: `Handle` registers a connection and starts its pumps, `ReadMessage` starts a
handler for each message, a handler's `Write` is the hand-over to `writePump` through
the unbuffered `send`. The library `hpcloud/tail` is external: a reader offers one line
at a time and dies when it has been told to and is not offering. `Stop` waits for that
(`StopWaits`). `MapRace` is the end of the process by two handlers in the readers' map,
whose mutex each method locks on a copy.

## 3. The runs

All runs set `CHECK_DEADLOCK FALSE`: clocks, requests and faults are bounded and calls
come to an end, so that a behaviour may stop. That nobody waits for ever is stated by the
liveness properties instead.

| run | checks | instance |
| --- | --- | --- |
| `timer_serial` | `NoLostWakeup`, `JobQueueSpec`, `JobSetSpec` | two callers, three jobs (one never due, one with other times than the first), two entries at once, four instants |
| `timer_shared` | `OneEntryPerJob`, `EntriesAreMapped`, `AddReturns`, `DueJobsFire`, `StopEndsLoop` | two callers that add the same job, one also deletes it, the other also stops; two entries, three instants; fairness |
| `timer_deadlock` | refutes `HandlesNewEntries` | two callers, two jobs; fairness |
| `scene_stores` | `TimerAgrees` | one administrator, two timer scenes and a notify scene, eight requests, two faults |
| `scene_status` | `StatusSettles` | two administrators at one scene whose condition changes between "timer", "notify" and others, five requests, two faults of any kind; fairness |
| `device_ack` | `NoPanic`, `LeaksAreUnanswered`, `EveryoneReturns`, `UnknownIsLate`, `AnswerBoxSpec` | a call of each order, two reporters, three reports each; fairness |
| `driver_serial` | `AddressKnown` | one requester, two ports, seven requests, two faults |
| `driver_shared` | `TypeOK`, `NeverStuck`, `NoOrphans`, `StateSettles` | two requesters, three requests, two faults of any kind; fairness |
| `rule_sync` | `StraysAreNew`, `StartsAreChecked`, `StatusSettles`, `RuleLifeSpec` | two clients that both administer the resource, two rules, six requests, two faults of any kind; fairness |
| `alert_centre` | `ReportsFindConditions`, `SilenceIsKept`, `ThrottledSpec` | two clients that both edit, one rule, two silence times, two instants, three alerts, four requests, a fault of any kind; the clients are symmetric |
| `my_drive` | `TypeOK`, `OneConnection`, `KeepsTrying`, `SettledTable`, `DeletedIsGone`, `OwnAnswer`, `OverlaysEnd` | two requests, two rows on two pages, two calls at once, a connection and one more attempt; fairness |
| `driver_log` | `LogInOrder`, `AtMostOneLate`, `StopEnds`, `GoneIsForgotten` | two messages, two lines for each reader, a connection and one more attempt; fairness |

The type invariants that no run lists (of the timer, scenes, device commands, rules,
alerts and the log) are theorems, and what they say is proved for every instance.

**Why the bounds are enough.** The timer's hazards need two callers (one to hold the
mutex while the other is received), two entries (one removed while another waits) and a
job that is fired, rescheduled and fired again; four instants leave room for a stale tick
in between. Eight scene requests are a whole life, added, edited, started, stopped and
deleted, of one scene with three for the others; two faults let a crash meet a lost
reply. Three reports of an answer are the answer, its repetition, and one after the
id has been forgotten. Seven driver requests start, move, stop and delete an instance
with a request to spare. Two requests are enough for each overlap; a third makes a new
start after it. Six requests to the rule engine add a resource, check it, add a rule and
start it, with two to edit, update or delete either in between. Four requests to the
alert centre add a rule, give it a condition and start it, with one to write an old row
back: without the exception of `lost`, TLC finds within these bounds that a report meets a
row without a condition, as it finds, without `raced`, `misled` and `behind`, a job with
two entries, a start on unchecked options, and a table behind its pagination.
Two messages of the log are a start and its stop, two starts, or two stops; two of the
driver page share a code or do not, and the second is made after the first has been lost
with its connection. A reader's lines and a table's pages need two for an order and for
a page beyond the first.

**Fairness.** Handlers, monitors, pumps and the timer's loop are goroutines that the Go
scheduler runs (weak fairness on their steps). The steps that need a mutex or a channel
partner have strong fairness in `EdgeTimer`: `sync.Mutex` hands over to a waiter that
starves, a channel queues its waiters in order, and `select` picks among ready cases at
random. Each wait for a driver's answer has a deadline, so `Deadline` is fair, while
`Receive` and the driver's reports are not: it need not answer. In the browser timers
fire, a connection that is being made or closed comes to an end, an open one delivers,
and an HTTP call is answered or times out (axios has a timeout of 30 s); on the server
each read on a connection has a deadline and the ticker of `writePump` ticks. Nobody has
to send a request and nothing has to go wrong.

**What limits the properties.** They are stated for the conditions under which the code
keeps them:

- `OneEntryPerJob` and `EntriesAreMapped` are for any callers, and except the jobs of
  which two additions met (`raced`): both find the job absent from the map.
- `JobQueueSpec` and `JobSetSpec` need `OneCallerPerJob` for the same reason; the first
  also `Recurring`, for a schedule that runs out stays due for ever (`timerapp.go:197`),
  the second also `NeverStopped`, which the core satisfies.
- `AddReturns`, `DueJobsFire` and `StopEndsLoop` are checked with deletions, and except
  the deadlock below (`Deadlocked`): nothing else keeps an addition from returning, a
  job from firing or the loop from ending. `alarm > MaxTime` stands for the end of the
  bounded clock.
- `TimerAgrees` needs a client that waits for the timer between its requests, scenes
  that stay timer scenes, and writes that do not fail (no "db" fault): a row that is not
  written after the timer has changed leaves the two apart until a restart. A start that
  comes while a job is on its way out adds nothing, and leaves a row that runs without
  its job: that is what `Patient` excludes.
- `UnknownIsLate` is about the calls that register their channel before they send.
- `AddressKnown` is for one request at a time, for the faults of pings and containers. It
  fails with failing Docker or database calls, and with two requests, when a start meets
  an update.
- `NoOrphans` is for any requests and faults, and names the steps that may leave a
  container without a row: a start that had read the row before the deletion, Docker's
  refusal, whose error `Del` ignores, and the end of the process between row and
  container.
- `StateSettles` is about an instance whose port stays, and a monitor that has not met a
  database error. A monitor that has one, or that finds its row deleted, waits for ever
  (`servicemonitor.go:77`).
- `StartsAreChecked` excepts the options that got the mark of a check of others
  (`misled`). It speaks of the options in the row when a start reads the mark, not of
  those that eKuiper then runs with: they may be edited between the two.
- `SilenceIsKept` and `ThrottledSpec` are for a rule's reports one at a time;
  `ReportsFindConditions` is for any clients, and excepts the rules whose first condition
  an older edit has undone (`lost`).
- `SettledTable` excepts the reload of a row action under which the pagination was set
  (`behind`), and `DeletedIsGone` the rows that an announced success has left in the
  database; both the calls that overlapped or failed (`clean`).
- `KeepsTrying` is about connections on which no message has come.
- `OverlaysEnd` and `StopEnds` except connections that end: a request that is lost with
  its connection leaves the overlay on for good, and when the connection that the lines
  go to has ended, their handler waits for ever for a `writePump` that is gone, and the
  stop with it.

## 4. What the runs found

**`timer_deadlock`.** `schedule` holds the mutex while it sends on `add`
(`timerapp.go:236`). If the loop takes a deletion first, it waits for the mutex in
`removeEntry`; neither goes on, nor does any later call. The comment in `run` says that
it still handles new entries.

The models show more that the code does and that no property here is about. Each is a
behaviour of the model as it stands:

- `Reset` does not drain the timer's channel: a tick that came while the last entry was
  being removed wakes the loop, and `et.entries[0]` of the empty slice panics
  (`timerapp.go:182`, `WakeEmpty`).
- Only an update to a "timer" condition is refused while the scene runs; a running timer
  scene can be made a notify scene, and its job goes on (`sceneapp.go:81`).
- `DeviceAction` registers its channel after it has sent the command: an answer that
  comes first is dropped, and the action waits for its whole timeout
  (`deviceaction.go:84`).
- "In progress" is tested when a driver request comes and set several database reads
  later: two requests both go to Docker (`servicemanager.go:394`, `115`, `151`).
- The rule engine's monitor and its requests leave a row "running" whose rule was dropped
  when the row's deletion failed; a resource may be edited under a rule that is about to
  start; an update of a rule may bring a deleted resource back (`ruleengineapp.go:105`).
- A silence time cannot be set back to 0, and a rule on an event or a status that is
  restarted only has its row marked (`alertapp.go:554`). An update that began before a
  rule's deletion can make its eKuiper rule again (`alertapp.go:227`).
- A notify scene can never be started (section 2.2; `sceneapp.go:146`, `443` to `555`).
- A scene that is started while its job is still being removed has its row marked and no
  job (`timerapp.go:269`, `274`).
- When the user searches while a row action is under way, the answer's reload shows the
  page of the old render under the new pagination (`MyDrive/index.tsx:37`). A deletion is
  announced as a success though the row has stayed, when the transaction has failed
  (`servicemanager.go:323`, `346`).
- A check of a data resource that ends after an edit marks the new options as healthy
  (`dataresource.go:166`). An edit of a rule's field that ends after the first
  `UpdateAlertRule` takes its condition away again, and `AddAlert` then indexes an empty
  slice (`alertapp.go:87`, `776`).
- Once a connection has carried a message, the class does not make another
  (`web-socket.ts:116`); a connection that ends without an error is never made again.
- A line of the log that comes while a stop is awaited resolves the stop's promise, for
  both have the code 10004 (`LogModal.tsx:78`).

## 5. What is proved

All proofs are for every set of jobs, scenes, calls, reporters, requesters, ports,
clients, rules, messages and rows, every finite set of timer callers and entry addresses,
and every kind of fault unless said otherwise; the bounds on time, requests, attempts,
reports, lines and faults are arbitrary numbers. Each module proves one inductive
invariant for types, and further ones on top of it. The constants' named assumptions are
those in the modules.

**EdgeTimerProofs.** `TypeCorrect`; `WakeupsKept` (`Spec => []NoLostWakeup`);
`EntriesUnique` and `EntriesMapped`, for any callers; `ImplementsJobQueue`
(`Spec => JobQueueSpec`), under `OneCallerPerJob` and `Recurring`. They assume the named
assumptions of `EdgeTimer`: `CronNext` returns a later time or none
(`CronNextAssumption`), callers and addresses are finitely many (`CallersAssumption`).
Types are not inductive by themselves: `TypeInv` adds that the loop's `now` and the tick
are times of the past, so that `Arm` sets an instant, and that a caller that is not idle
was called with a job. On top of that `NoLostWakeup` is inductive: entries get a next time
only in steps after which the loop goes back to its top. `OneEntryPerJob` and
`EntriesAreMapped` need each other, and that of a job that is not in `raced` one addition
at most is on its way, which still finds the job off the timer (`SharedInv`). For the refinement, each entry's next time
must be one of its job's schedule and later than `after` (`PromiseInv`), so that what
`Wake` fires makes a step of `Fire`; all actions other than an insertion, a removal, a
firing and a tick of the clock are stutters. `ImplementsJobSet` (`Spec => JobSetSpec`),
under `OneCallerPerJob` and `NeverStopped`, needs that the loop has an id in hand exactly
while it is about to remove it (`LeavingInv`): a new entry comes to the loop through its
`select`, where it has none, or before the loop has begun.

**SceneLinkageProofs.** `TypeCorrect`; `TimerAndRowsAgree`, under `OneAdmin`,
`SteadyTimer` (timer scenes stay timer scenes) and `Careful` (a patient client, no failing
writes). The invariant says, for each step of a handler, which stores it has already changed:
between `AddJob` or `DeleteJob` and the write of the row the timer is one request ahead.
A crash in between is made good by `restoreJobs`, which goes by the rows alone.

**DeviceAckProofs.** `TypeCorrect`; `NeverPanics` (`Spec => []NoPanic`);
`OnlyUnansweredLeak` (`Spec => []LeaksAreUnanswered`). Types need `ChannelMade`: a call
has a channel exactly from `GenAckChan` on, and a report only knows calls that have one.
`NoPanic` needs `MutexInv`: a report between `Lock` and `UnlockMu` holds the mutex of its
call, and from `CheckOpen` to `TrySend` the channel stays open, since whoever would close
it needs that mutex. `LeaksAreUnanswered` needs the step before the call returns
(`LeakInv`): while an answer is in the buffer, the report that put it there still has to
delete the id. `UnknownReportsAreLate` (`Spec => UnknownIsLate`) needs to know where an id
may be (`KnownInv`): from its registration on it is in the map until a report has deleted
it, and then the channel is closed for good. `ImplementsAnswerBox`
(`Spec => AnswerBoxSpec`) needs that an open channel is that of a call not yet answered
and that reports are only of calls the driver has got (`BoxInv`); every step with a mutex,
the map or a channel's flag is a stutter.

**DriverServiceProofs.** `TypeCorrect`; `InstanceNeverStuck`
(`Spec => []NeverStuck`), with any number of requests and all faults; `DeletionIsComplete`
(`Spec => NoOrphans`), for the same; `AddressIsKnown` (`AddressKnown`), under
`OneRequester` and `SafeStore` (Docker, database and process do not fail). Types need
that a request that marks, launches or saves the instance has chosen a port (`PortKept`)
and that an edit writes back a row it has read (`EditRead`): that is why no edit, and no
save of an address, makes a row again or leaves an orphan. `NeverStuck` is then inductive: whoever sets "starting" or "stopping" is
at the step that ends it, and every way out of that step sets another state. The invariant of `AddressIsKnown`
says, for each step of the one request there is, which of row, monitor and container are
already the new ones.

**RuleSyncProofs.** `TypeCorrect`; `StraysNeverRun` (`StraysAreNew`), for any number of
clients; `StartedOnChecked` (`StartsAreChecked`), for the same. The first
rests on the order of the calls: a request other than an addition has found the row, a
row is there only for a rule that eKuiper once had, ids are not used twice, and the rule
is dropped before the row, after which no call can make it run. The second on what a
mark means (`MarkInv`): a resource with its mark, in the row or in the hands of a
request that may write it back, holds options in `checked` or `misled`: an edit draws a
new number, so that no earlier mark speaks of it.
`ImplementsRuleLife` (`Spec => RuleLifeSpec`), for any clients and faults, adds to the
first that a rule whose row is about to be inserted is in eKuiper, stopped (`MadeInv`):
nobody who looks for its row gets past that yet.

**AlertCentreProofs.** `TypeCorrect`; `SilenceKept` (`SilenceIsKept`), for every fault
and any number of editors; `ConditionsFound` (`ReportsFindConditions`), for the
same; `ImplementsThrottledAlerts` (`Spec => ThrottledSpec`), for every fault and
any number of editors. The silence time holds since a report past its check compares
with an alert that is still the last one, and the clock only goes on. A row that is
not in `lost` keeps its condition, since what an edit writes back is what it has read or
has a condition; and a rule runs only from a start whose row had one. The refinement needs that invariant
of the silence time, and that a row is there only between its rule's addition and
deletion and a request only about a rule that was added (`ListedInv`), so that a report
that has read the row has found a listed rule, and a second deletion is a stutter.

**MyDriveProofs.** `OneLine` (`OneConnection`), `TriesAgain` (`KeepsTrying`),
`TypeCorrect`, `EachItsOwn` (`Spec => OwnAnswer`), `TableSettles` (`SettledTable`),
`DeletedNotShown` (`DeletedIsGone`). The first two need that an attempt is under way only
for the newest socket, and only while there are attempts left (`SocketInv`). For the
refinement (`AskInv`), one request waits at a time, it is on its way to the server or its
answer on the way back, the only one of its code, and its resolver is on top of the stack,
above those of requests that could not be sent. The table (`TableInv`) has one call in
flight while `clean` holds, of the page that `current` says unless it is `behind`; what it has read, and what is
shown, has no row that the page was told is deleted and that had gone.

**DriverLogProofs.** `LinesInOrder` (`LogInOrder`), `LateAtMostOnce` (`AtMostOneLate`),
`OneLine` (`OneConnection`, as for the page of driver instances: the class is the same,
its user another) and `TypeCorrect`. The lines of a reader that are shown, on their way
in each queue and in the hands of its handler are numbered in a row (`LineInv`), and
lines go over the one connection their start came over. When a stop has been answered
the reader's goroutine is dead, so that its handler holds one line at most (`StopInv`).
Types need all of these and that no number on its way, or shown, exceeds the lines of
the log (`Bounded`), which follows from the line in hand being the next one.

**Only model-checked.** Liveness (`AddReturns`, `DueJobsFire`, `StopEndsLoop`,
`EveryoneReturns`, `StatusSettles` of scenes and rules, `StateSettles`, `OverlaysEnd`,
`StopEnds`, `GoneIsForgotten`), which TLAPS does not prove under fairness. Every other
property that a run checks is a theorem.

## 6. Plan

In the order of importance; what is done is in sections 2 to 5.

1. **AlertList**: the treatment of alerts, several reports of a rule at once, and the
   notification senders.
2. **DriverLibrary**: download, upgrade and deletion of a library, with its operation
   status, and the instances that use it.
3. **Cron schedules**: `Schedule.Next` against a reference definition over bounded
   fields, which also justifies `CronNextAssumption` and tells how far `Recurring` holds.
4. **References** between products, devices and driver instances; the online state on
   the bus and in the rows.

Proofs, next: what `DriverService` promises of an instance, and `DriverLog` of a log,
stated as abstract modules and shown to be implemented, as for the other components; that
the hub's end of a connection keeps the promise `GoneIsForgotten` as far as a step can
(a connection once forgotten is not registered again).

## 7. Not modelled

- What messages, scenes and conditions say: a condition is its kind and the edit it
  comes from, an answer is that it has come. `EkuiperNotify` and `JobRunBySceneId` only
  write the scene log and send commands, each of which is a call in `DeviceAck`.
- Durations. Deadlines, tickers and timeouts may come at any time; only the cron timer
  and the silence time have a clock.
- The choice of a port among several instances (`GetAvailablePort`), statistics of the
  agent, and the containers' logs apart from their reading.
- Rules with different resources; rules that change their resource.
- The forms of the interface. `EditRuleModal.tsx` and `EditScene.tsx`, its longest,
  collect fields and post them: what they refuse the server refuses too
  (`checkAlertRuleParam`, `UpdateScene`), and their state ends with them. The other pages
  render lists through the hook that `TableRequest` models. The files of `src/.history`
  are copies an editor kept of such files, are most of the repository's TypeScript, and
  are not built.
- Searches and other operations that change nothing.
- All of section 1.2.
