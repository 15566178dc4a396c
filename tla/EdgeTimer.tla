----------------------------- MODULE EdgeTimer ------------------------------
(***************************************************************************)
(* timerapp.go: the cron timer that runs the core's timed scenes.  HTTP    *)
(* handlers (Callers) add and delete jobs; one goroutine, the run loop,    *)
(* keeps the entries, sleeps until the earliest one and fires those that   *)
(* are due.  They share a mutex, the job map, the entries, the running     *)
(* flag, and two unbuffered channels, add and rm.                          *)
(*                                                                         *)
(* Time is the whole seconds cron works in.  A time.Timer is `alarm', the  *)
(* instant the runtime will fire it (0: not set, or asleep for 100000      *)
(* hours), and `tick', the one-element buffer of its channel (0: empty).   *)
(* go.mod names Go 1.18, where neither Stop nor Reset empties that buffer. *)
(***************************************************************************)
EXTENDS Integers, FiniteSets

CONSTANTS
  Jobs,      \* job ids; a timed scene's id is its job's id
  Callers,   \* the goroutines that call AddJobToRunQueue, DeleteJob and Stop
  Addrs,     \* bound: the addresses of entry structs, at most this many at once
  MaxTime,   \* bound: the last instant of the clock
  CronNext,  \* CronNext[j][t]: what Schedule.Next(t) returns for j, 0 the zero time
  AddJobs,   \* AddJobs[c]: the jobs c may add
  RmJobs,    \* RmJobs[c]: the jobs c may delete
  Stoppers   \* the callers that may call Stop

Times == 0..MaxTime

\* The contract of JobSchedule.Next: "the next time this schedule is activated,
\* greater than the given time [... or] the zero time" (schedule.go:63).
ASSUME CronNextAssumption ==
  /\ MaxTime \in Nat
  /\ CronNext \in [Jobs -> [Times -> Nat]]
  /\ \A j \in Jobs, t \in Times : CronNext[j][t] = 0 \/ CronNext[j][t] > t

ASSUME CallersAssumption ==
  /\ IsFiniteSet(Addrs)
  /\ IsFiniteSet(Callers)
  /\ AddJobs \in [Callers -> SUBSET Jobs]
  /\ RmJobs \in [Callers -> SUBSET Jobs]
  /\ Stoppers \subseteq Callers

NoOne == "no one"    \* the mutex is free
NoJob == "no job"    \* not called with any
ASSUME NoneAssumption == NoOne \notin Callers /\ NoJob \notin Jobs

VARIABLES
  mutex,    \* EdgeTimer.mutex: the caller that holds it across a step, or NoOne
  jobMap,   \* EdgeTimer.jobMap
  entries,  \* EdgeTimer.entries, pointers to structs: what is at each address
  running,  \* EdgeTimer.running
  stop,     \* EdgeTimer.stop is closed
  pc, arg,  \* where each caller is, and the job it was called with
  loop,     \* where the run loop is
  now,      \* run's local variable now
  rmJob,    \* the id the loop has received from rm
  alarm, tick, \* run's timer
  clock,    \* the wall clock
  dead,     \* the process died of a panic or of the Go runtime's fatal error
  after,    \* history: the latest time each job was fired for, or added at
  fires,    \* history: how often each job was fired
  raced     \* history: the jobs that an addition met another addition of

vars == <<mutex, jobMap, entries, running, stop, pc, arg, loop, now, rmJob,
          alarm, tick, clock, dead, after, fires, raced>>
history    == <<after, fires, raced>>
callerVars == <<pc, arg>>
timerVars  == <<alarm, tick>>
loopVars   == <<loop, now, rmJob>>

NoEntry == [job |-> NoJob, next |-> 0]
Entry == [job : Jobs, next : Nat] \cup {NoEntry}

TypeOK ==
  /\ mutex \in Callers \cup {NoOne}
  /\ jobMap \subseteq Jobs
  /\ entries \in [Addrs -> Entry]
  /\ running \in BOOLEAN
  /\ stop \in BOOLEAN
  /\ pc \in [Callers -> {"idle", "schedule", "send", "mark", "rm", "unlink"}]
  /\ arg \in [Callers -> Jobs \cup {NoJob}]
  /\ loop \in {"start", "compute", "arm", "select", "remove", "exited"}
  /\ now \in Times
  /\ rmJob \in Jobs \cup {NoJob}
  /\ alarm \in Nat
  /\ tick \in Times
  /\ clock \in Times
  /\ dead \in BOOLEAN
  /\ after \in [Jobs -> Nat]
  /\ fires \in [Jobs -> Nat]
  /\ raced \subseteq Jobs

(***************************************************************************)
(* Entries                                                                 *)
(***************************************************************************)

\* The elements of the slice, and the addresses a new struct may get.
Live  == {a \in Addrs : entries[a].job # NoJob}
Fresh == Addrs \ Live

\* byTime.Less: by Next, the zero time last.
Less(a, b) ==
  entries[a].next # 0 /\ (entries[b].next = 0 \/ entries[a].next < entries[b].next)

\* The entries of a job, and the one of them removeEntry meets first in the
\* sorted slice.
Matches(id) == {a \in Live : entries[a].job = id}
First(id) == {a \in Matches(id) : \A b \in Matches(id) : ~Less(b, a)}

\* The entries the loop still has to wake for, and those due at t.
Pending == {a \in Live : entries[a].next # 0}
Due(t)  == {a \in Pending : entries[a].next <= t}

\* Mutant: an entry that fires keeps its time.
AdvanceNever(e, t) == e

\* Schedule.Next(t) stored in e.Next unless it reports that there is none.
Advance(e, t) ==
  IF CronNext[e.job][t] = 0 THEN e ELSE [e EXCEPT !.next = CronNext[e.job][t]]

Insert(id, next) ==
  \E a \in Fresh : entries' = [entries EXCEPT ![a] = [job |-> id, next |-> next]]

\* Mutant: the slice is not shortened.
KeepEntry(a) == UNCHANGED entries

\* The slice loses its element a.
DropEntry(a) == entries' = [entries EXCEPT ![a] = NoEntry]

\* removeEntry's body, under the mutex: one entry goes, and the map forgets the
\* job; for an unknown id both stay as they are.
RemoveEntry(id) ==
  IF Matches(id) = {}
  THEN UNCHANGED <<entries, jobMap>>
  ELSE /\ \E a \in First(id) : DropEntry(a)
       /\ jobMap' = jobMap \ {id}

\* c's call returns; c is called with j and goes to its step `to'.
Return(c) == pc' = [pc EXCEPT ![c] = "idle"] /\ arg' = [arg EXCEPT ![c] = NoJob]
Call(c, j, to) == pc' = [pc EXCEPT ![c] = to] /\ arg' = [arg EXCEPT ![c] = j]

(***************************************************************************)
(* AddJobToRunQueue                                                        *)
(***************************************************************************)

\* Bound: a caller starts an addition only while there is an address for it.
HasRoom ==
  Cardinality(Live) + Cardinality({c \in Callers : pc[c] \in {"schedule", "send"}})
    < Cardinality(Addrs)

\* d is past its check of the job map for j, and has not marked it yet.
Adding(d, j) == pc[d] \in {"schedule", "send", "mark"} /\ arg[d] = j

\* Mutant: no check of the job map.
AnyJob(j) == TRUE

NotInMap(j) == j \notin jobMap

\* The job map is read without the mutex.  A job already in it, or an expression
\* ParseStandard rejects, makes the call return at once: no step.
AddCheck(c, j) ==
  /\ pc[c] = "idle"
  /\ j \in AddJobs[c]
  /\ HasRoom
  /\ NotInMap(j)
  /\ Call(c, j, "schedule")
  /\ raced' = raced \cup (IF \E d \in Callers : Adding(d, j) THEN {j} ELSE {})
  /\ UNCHANGED <<mutex, jobMap, entries, running, stop, loopVars, timerVars, clock, dead, after, fires>>

\* schedule before the loop runs, or after Stop: the entry is appended directly.
ScheduleDirect(c) ==
  /\ pc[c] = "schedule"
  /\ mutex = NoOne
  /\ ~running
  /\ Insert(arg[c], 0)
  /\ after' = [after EXCEPT ![arg[c]] = clock]
  /\ pc' = [pc EXCEPT ![c] = "mark"]
  /\ UNCHANGED <<mutex, jobMap, running, stop, arg, loopVars, timerVars, clock, dead, fires, raced>>

\* schedule while the loop runs: the mutex is held until the loop takes the entry.
ScheduleSend(c) ==
  /\ pc[c] = "schedule"
  /\ mutex = NoOne
  /\ running
  /\ mutex' = c
  /\ pc' = [pc EXCEPT ![c] = "send"]
  /\ UNCHANGED <<jobMap, entries, running, stop, arg, loopVars, timerVars, clock, dead, history>>

\* The last lines of AddJobToRunQueue.
MarkAdded(c) ==
  /\ pc[c] = "mark"
  /\ mutex = NoOne
  /\ jobMap' = jobMap \cup {arg[c]}
  /\ Return(c)
  /\ UNCHANGED <<mutex, entries, running, stop, loopVars, timerVars, clock, dead, history>>

(***************************************************************************)
(* DeleteJob and Stop                                                      *)
(***************************************************************************)

\* remove reads running without the mutex.
DeleteJob(c, j) ==
  /\ pc[c] = "idle"
  /\ j \in RmJobs[c]
  /\ Call(c, j, IF running THEN "rm" ELSE "unlink")
  /\ UNCHANGED <<mutex, jobMap, entries, running, stop, loopVars, timerVars, clock, dead, history>>

RemoveDirect(c) ==
  /\ pc[c] = "unlink"
  /\ mutex = NoOne
  /\ RemoveEntry(arg[c])
  /\ Return(c)
  /\ UNCHANGED <<mutex, running, stop, loopVars, timerVars, clock, dead, history>>

Stop(c) ==
  /\ pc[c] = "idle"
  /\ c \in Stoppers
  /\ mutex = NoOne
  /\ running
  /\ running' = FALSE
  /\ stop' = TRUE
  /\ UNCHANGED <<mutex, jobMap, entries, callerVars, loopVars, timerVars, clock, dead, history>>

(***************************************************************************)
(* run: the loop's goroutine                                               *)
(***************************************************************************)

\* Mutant: an added entry leaves the loop in its select.
StayInSelect == loop' = "select"

\* The end of a case: on to the top of the for loop.
Continue == loop' = "arm"

\* Mutant: a break that only leaves the select.
BreakSelect == loop' = "arm"

\* The return in the stop case.
LeaveLoop == loop' = "exited"

\* Mutant: schedule without its deferred Unlock.
KeepLock == UNCHANGED mutex

Unlock == mutex' = NoOne

LoopStart ==
  /\ loop = "start"
  /\ mutex = NoOne
  /\ ~running
  /\ running' = TRUE
  /\ loop' = "compute"
  /\ UNCHANGED <<mutex, jobMap, entries, stop, callerVars, now, rmJob, timerVars, clock, dead, history>>

Compute ==
  /\ loop = "compute"
  /\ now' = clock
  /\ entries' = [a \in Addrs |-> IF a \in Live THEN Advance(entries[a], clock) ELSE entries[a]]
  /\ Continue
  /\ UNCHANGED <<mutex, jobMap, running, stop, callerVars, rmJob, timerVars, clock, dead, history>>

\* Mutant: byTime.Less with the zero time first.
AsleepIfAnyZero == Pending # Live \/ Live = {}

\* No entries, or the first of the sorted ones has the zero time.
Asleep == Pending = {}

\* The instant timer.Reset(Next.Sub(now)) sets: a duration from now, not the clock.
WakeTime(a) == clock + (entries[a].next - now)

\* The top of the for loop: sort, then timer.Reset for the earliest entry.
Arm ==
  /\ loop = "arm"
  /\ \/ Asleep /\ alarm' = 0
     \/ /\ ~Asleep
        /\ \E a \in Pending :
             /\ \A b \in Pending : entries[a].next <= entries[b].next
             /\ alarm' = WakeTime(a)
  /\ loop' = "select"
  /\ UNCHANGED <<mutex, jobMap, entries, running, stop, callerVars, now, rmJob, tick, clock, dead, history>>

\* The due entries of j when the tick of time t is handled, and the latest time
\* j has been fired for after that.
Fired(j, t) == Due(t) \cap Matches(j)
IsLatest(j, t, s) ==
  IF Fired(j, t) = {} THEN s = after[j]
  ELSE /\ \E a \in Fired(j, t) : s = entries[a].next
       /\ \A a \in Fired(j, t) : entries[a].next <= s

\* <-timer.C with entries: those due at the tick fire and move to their next time.
Wake ==
  /\ loop = "select"
  /\ tick # 0
  /\ Live # {}
  /\ entries' = [a \in Addrs |-> IF a \in Due(tick) THEN Advance(entries[a], tick) ELSE entries[a]]
  /\ fires' = [j \in Jobs |-> fires[j] + Cardinality(Fired(j, tick))]
  /\ after' \in [Jobs -> {entries[a].next : a \in Live} \cup {after[j] : j \in Jobs}]
  /\ \A j \in Jobs : IsLatest(j, tick, after'[j])
  /\ now' = tick
  /\ tick' = 0
  /\ alarm' = 0
  /\ Continue
  /\ UNCHANGED <<mutex, jobMap, running, stop, callerVars, rmJob, clock, dead, raced>>

\* <-timer.C without entries: the log line reads et.entries[0].
WakeEmpty ==
  /\ loop = "select"
  /\ tick # 0
  /\ Live = {}
  /\ dead' = TRUE
  /\ UNCHANGED <<mutex, jobMap, entries, running, stop, callerVars, loopVars, timerVars, clock, history>>

\* <-et.add meets c's send; c's deferred Unlock follows.  An entry that has no
\* next time is dropped.
RecvAdd(c) ==
  /\ loop = "select"
  /\ pc[c] = "send"
  /\ LET next == CronNext[arg[c]][clock]
     IN \/ /\ next # 0
           /\ Insert(arg[c], next)
           /\ after' = [after EXCEPT ![arg[c]] = clock]
        \/ next = 0 /\ UNCHANGED <<entries, after>>
  /\ Unlock
  /\ pc' = [pc EXCEPT ![c] = "mark"]
  /\ now' = clock
  /\ alarm' = 0
  /\ Continue
  /\ UNCHANGED <<jobMap, running, stop, arg, rmJob, tick, clock, dead, fires, raced>>

\* <-et.rm meets c's send: DeleteJob returns before the entry is gone.
RecvRm(c) ==
  /\ loop = "select"
  /\ pc[c] = "rm"
  /\ Return(c)
  /\ rmJob' = arg[c]
  /\ now' = clock
  /\ alarm' = 0
  /\ loop' = "remove"
  /\ UNCHANGED <<mutex, jobMap, entries, running, stop, tick, clock, dead, history>>

LoopRemove ==
  /\ loop = "remove"
  /\ mutex = NoOne
  /\ RemoveEntry(rmJob)
  /\ rmJob' = NoJob
  /\ Continue
  /\ UNCHANGED <<mutex, running, stop, callerVars, now, timerVars, clock, dead, history>>

RecvStop ==
  /\ loop = "select"
  /\ stop
  /\ alarm' = 0
  /\ LeaveLoop
  /\ UNCHANGED <<mutex, jobMap, entries, running, stop, callerVars, now, rmJob, tick, clock, dead, history>>

(***************************************************************************)
(* The runtime: the clock, the timer's channel, unsynchronised accesses    *)
(***************************************************************************)
TimePasses ==
  /\ clock < MaxTime
  /\ clock' = clock + 1
  /\ UNCHANGED <<mutex, jobMap, entries, running, stop, callerVars, loopVars, timerVars, dead, history>>

\* sendTime does not block: a tick for a full channel is dropped.
TimerFires ==
  /\ alarm # 0
  /\ alarm <= clock
  /\ alarm' = 0
  /\ tick' = IF tick = 0 THEN clock ELSE tick
  /\ UNCHANGED <<mutex, jobMap, entries, running, stop, callerVars, loopVars, clock, dead, history>>

\* A goroutine is about to write the job map, under the mutex.
MapWrite ==
  /\ mutex = NoOne
  /\ \/ \E d \in Callers : pc[d] \in {"mark", "unlink"}
     \/ loop = "remove"

\* AddJobToRunQueue's read of the map meets a write: Go may end the process.
MapRace(c) ==
  /\ pc[c] = "idle"
  /\ AddJobs[c] # {}
  /\ MapWrite
  /\ dead' = TRUE
  /\ UNCHANGED <<mutex, jobMap, entries, running, stop, callerVars, loopVars, timerVars, clock, history>>

\* A caller that read running too early removes an entry while the loop walks
\* the slice: the loop may meet the nil removeEntry leaves behind.
SliceRace(c) ==
  /\ pc[c] = "unlink"
  /\ mutex = NoOne
  /\ Matches(arg[c]) # {}
  /\ loop \in {"compute", "arm"} \/ (loop = "select" /\ tick # 0)
  /\ dead' = TRUE
  /\ UNCHANGED <<mutex, jobMap, entries, running, stop, callerVars, loopVars, timerVars, clock, history>>

(***************************************************************************)
(* Specification                                                           *)
(***************************************************************************)

\* What NewCronTimer leaves when it starts run: restoreJobs has added some timed
\* scenes, each once, before the loop runs.
Init ==
  /\ mutex = NoOne
  /\ jobMap \in SUBSET Jobs
  /\ entries \in [Addrs -> [job : jobMap, next : {0}] \cup {NoEntry}]
  /\ \A j \in jobMap : Cardinality(Matches(j)) = 1
  /\ running = FALSE
  /\ stop = FALSE
  /\ pc = [c \in Callers |-> "idle"]
  /\ arg = [c \in Callers |-> NoJob]
  /\ loop = "start"
  /\ now = 0
  /\ rmJob = NoJob
  /\ alarm = 0
  /\ tick = 0
  /\ clock = 0
  /\ dead = FALSE
  /\ after = [j \in Jobs |-> 0]
  /\ fires = [j \in Jobs |-> 0]
  /\ raced = {}

Caller(c) ==
  \/ \E j \in Jobs : AddCheck(c, j) \/ DeleteJob(c, j)
  \/ ScheduleDirect(c)
  \/ ScheduleSend(c)
  \/ MarkAdded(c)
  \/ RemoveDirect(c)
  \/ Stop(c)
  \/ MapRace(c)
  \/ SliceRace(c)

Loop ==
  \/ LoopStart \/ Compute \/ Arm \/ Wake \/ WakeEmpty \/ LoopRemove \/ RecvStop
  \/ \E c \in Callers : RecvAdd(c) \/ RecvRm(c)

Next ==
  /\ ~dead
  /\ Loop \/ TimePasses \/ TimerFires \/ \E c \in Callers : Caller(c)

Spec == Init /\ [][Next]_vars

\* The Go scheduler runs every goroutine that can run, the runtime fires timers,
\* and time passes; sync.Mutex starves no one, and select picks among its ready
\* cases at random.  Nobody has to call anything.
Fairness ==
  /\ SF_vars(~dead /\ (LoopStart \/ Compute \/ Arm \/ Wake \/ WakeEmpty \/ LoopRemove))
  /\ SF_vars(~dead /\ RecvStop)
  /\ WF_vars(~dead /\ TimerFires)
  /\ WF_vars(~dead /\ TimePasses)
  /\ \A c \in Callers :
       /\ SF_vars(~dead /\ (ScheduleDirect(c) \/ ScheduleSend(c) \/ MarkAdded(c) \/ RemoveDirect(c)))
       /\ SF_vars(~dead /\ (RecvAdd(c) \/ RecvRm(c)))

FairSpec == Spec /\ Fairness

(***************************************************************************)
(* Properties                                                              *)
(***************************************************************************)

\* While the loop waits in its select with an entry that has a next time, the
\* timer is set or its tick is waiting: adds, deletes, stale ticks and dropped
\* ticks never leave it asleep with something to run (run, 165-223).
NoLostWakeup ==
  loop = "select" /\ Pending # {} => alarm # 0 \/ tick # 0

\* Whatever callers and loop do at the same time, also when many use one job: only
\* a job that was added while another addition of it was on its way can get two
\* entries.  Any other has at most one, so that one DeleteJob takes the whole job
\* off the timer; no deletion, at whatever moment, undoes this (the check of the
\* job map in AddJobToRunQueue, 274, and the map's updates).
OneEntryPerJob ==
  \A a, b \in Live : entries[a].job = entries[b].job /\ entries[a].job \notin raced => a = b

\* Of such a job, an entry is in the job map, or its AddJobToRunQueue is about to
\* put it there: a second start of the scene is recognised, and only an addition
\* that is still on its way lets another one pass.
EntriesAreMapped ==
  \A a \in Live :
    \/ entries[a].job \in jobMap \cup raced
    \/ \E c \in Callers : pc[c] = "mark" /\ arg[c] = entries[a].job

\* Two callers never share a job: what an administrator who waits for one answer
\* before touching the scene again makes true.
OneCallerPerJob ==
  \A c, d \in Callers : c # d => (AddJobs[c] \cup RmJobs[c]) \cap (AddJobs[d] \cup RmJobs[d]) = {}

\* A cron schedule has a next time always or never.
Recurring ==
  \A j \in Jobs, t, u \in Times : CronNext[j][t] = 0 => CronNext[j][u] = 0

\* What the timer promises (JobQueue): only jobs that have an entry fire, once for
\* each time of their schedule, in order, not before the time and not for a time
\* at or before their addition.  Needs OneCallerPerJob and Recurring.
JQ == INSTANCE JobQueue WITH
  scheduled <- {entries[a].job : a \in Live}, after <- after, fires <- fires, clock <- clock
JobQueueSpec == JQ!Spec

\* The core calls Stop nowhere: the timer runs until the process ends.
NeverStopped == Stoppers = {}

\* What the scenes rely on (JobSet): a job is on the timer once, leaves when the
\* loop has taken its id, and no entry comes while another is on its way out,
\* though map, entries and channels change in steps of their own.  Needs
\* OneCallerPerJob and NeverStopped.
JS == INSTANCE JobSet WITH
  Job <- Jobs, jobs <- {entries[a].job : a \in Live}, leaving <- rmJob
JobSetSpec == JS!Spec

\* The loop waits for the mutex to remove an entry, and an addition that holds the
\* mutex waits for the loop: neither goes on.
Deadlocked == loop = "remove" /\ \E c \in Callers : mutex = c /\ pc[c] = "send"

\* An addition returns, whatever other additions, deletions and Stop it meets,
\* unless it has run into the deadlock (schedule's send on et.add, under the mutex).
AddReturns ==
  \A c \in Callers :
    pc[c] \in {"schedule", "send", "mark"} ~> (pc[c] = "idle" \/ dead \/ Deadlocked)

\* A job whose time has come is fired for that time or a later one, or loses an
\* entry to a deletion; past the last instant of the clock the timer cannot fire.
DueJobsFire ==
  \A j \in Jobs, s \in 1..MaxTime :
    (\E a \in Matches(j) : entries[a].next = s /\ s <= clock)
      ~> (after[j] >= s \/ Matches(j) = {} \/ dead \/ Deadlocked \/ alarm > MaxTime \/ stop)

\* After Stop the loop exits, unless it is in the deadlock.
StopEndsLoop == (stop /\ loop # "exited") ~> (loop = "exited" \/ dead \/ Deadlocked)

\* "If there are no entries yet, just sleep - it still handles new entries and
\* stop requests" (timerapp.go:170): a new entry is taken.
HandlesNewEntries ==
  \A c \in Callers : (pc[c] = "send" /\ Live = {}) ~> (pc[c] # "send" \/ dead)
=============================================================================
