--------------------------- MODULE EdgeTimerProofs --------------------------
(***************************************************************************)
(* Theorems about EdgeTimer, for any jobs, callers, schedules and clock:   *)
(* types, that no wakeup is lost, that only two additions of a job that    *)
(* meet give it two entries or hide one from the job map, and that, while  *)
(* callers do not share a job, the timer implements JobQueue and JobSet.   *)
(***************************************************************************)
EXTENDS EdgeTimer, FiniteSetTheorems, TLAPS

(***************************************************************************)
(* Types                                                                   *)
(***************************************************************************)

\* TypeOK alone is not inductive: that Arm sets an instant, and not a time before
\* the beginning, depends on the loop's now and the tick being times of the past;
\* that an appended entry has a job, on the callers being called with one.
TypeInv ==
  /\ TypeOK
  /\ now <= clock /\ tick <= clock
  /\ \A c \in Callers : pc[c] # "idle" => arg[c] \in Jobs

LEMMA TimesAreNat == Times \subseteq Nat /\ 0 \in Times
BY CronNextAssumption DEF Times

\* What the operators on entries return.
LEMMA EntryFacts ==
  ASSUME TypeOK
  PROVE  /\ \A id \in Jobs : First(id) \subseteq Live /\ Matches(id) \subseteq Live
         /\ Live \subseteq Addrs /\ Pending \subseteq Live
         /\ \A a \in Live : entries[a].job \in Jobs /\ entries[a].next \in Nat
         /\ \A a \in Live, t \in Times :
              Advance(entries[a], t) \in [job : Jobs, next : Nat]
<1>1. \A a \in Live : entries[a].job \in Jobs /\ entries[a].next \in Nat
  BY DEF TypeOK, Entry, NoEntry, Live
<1>2. ASSUME NEW a \in Live, NEW t \in Times
      PROVE  Advance(entries[a], t) \in [job : Jobs, next : Nat]
  <2>1. entries[a] \in [job : Jobs, next : Nat]
    BY DEF TypeOK, Entry, NoEntry, Live
  <2>2. CronNext[entries[a].job][t] \in Nat
    BY <1>1, CronNextAssumption
  <2> QED BY <2>1, <2>2 DEF Advance
<1> QED BY <1>1, <1>2 DEF First, Matches, Live, Pending

\* One entry's worth of fires at most, counted in Nat.
LEMMA FiredIsCounted ==
  ASSUME NEW j, NEW t
  PROVE  IsFiniteSet(Fired(j, t)) /\ Cardinality(Fired(j, t)) \in Nat
<1>1. Fired(j, t) \in SUBSET Addrs
  BY DEF Fired, Due, Pending, Live
<1> QED BY <1>1, FS_Subset, FS_CardinalityType, CallersAssumption

\* Removing an entry keeps the types, whatever the id.
LEMMA RemoveTypes ==
  ASSUME TypeOK, NEW id \in Jobs \cup {NoJob}, RemoveEntry(id)
  PROVE  entries' \in [Addrs -> Entry] /\ jobMap' \subseteq Jobs
<1>1. NoEntry \in Entry
  BY DEF Entry
<1>2. ASSUME NEW a, DropEntry(a) PROVE entries' \in [Addrs -> Entry]
  BY <1>1, <1>2 DEF TypeOK, DropEntry
<1>3. CASE Matches(id) = {}
  BY <1>3 DEF TypeOK, RemoveEntry
<1>4. CASE Matches(id) # {}
  BY <1>2, <1>4 DEF TypeOK, RemoveEntry
<1> QED BY <1>3, <1>4

\* Appending an entry keeps the types.
LEMMA InsertTypes ==
  ASSUME TypeOK, NEW id \in Jobs, NEW n \in Nat, Insert(id, n)
  PROVE  entries' \in [Addrs -> Entry]
<1>1. [job |-> id, next |-> n] \in Entry
  BY DEF Entry
<1> QED BY <1>1 DEF TypeOK, Insert

LEMMA TypeInit == Init => TypeInv
<1> SUFFICES ASSUME Init PROVE TypeInv
  OBVIOUS
<1>1. 0 \in Times
  BY CronNextAssumption DEF Times
<1>2. entries \in [Addrs -> Entry]
  BY DEF Init, Entry
<1>3. running \in BOOLEAN /\ stop \in BOOLEAN /\ dead \in BOOLEAN
  BY DEF Init
<1>4. jobMap \subseteq Jobs /\ after \in [Jobs -> Nat] /\ fires \in [Jobs -> Nat]
  BY DEF Init
<1>5. TypeOK
  BY <1>1, <1>2, <1>3, <1>4 DEF Init, TypeOK
<1> QED BY <1>5 DEF Init, TypeInv

LEMMA CallerTypes ==
  ASSUME TypeInv, NEW c \in Callers, Caller(c)
  PROVE  TypeInv'
<1> USE DEF TypeInv, TypeOK
<1>1. ASSUME NEW j \in Jobs, AddCheck(c, j) PROVE TypeInv'
  BY <1>1 DEF AddCheck, Call, loopVars, timerVars, history
<1>2. ASSUME NEW j \in Jobs, DeleteJob(c, j) PROVE TypeInv'
  BY <1>2 DEF DeleteJob, Call, loopVars, timerVars, history
<1>3. CASE ScheduleDirect(c)
  <2>1. arg[c] \in Jobs /\ Insert(arg[c], 0)
    BY <1>3 DEF ScheduleDirect
  <2>2. entries' \in [Addrs -> Entry]
    BY <2>1, InsertTypes
  <2>3. after' \in [Jobs -> Nat]
    BY <1>3, TimesAreNat DEF ScheduleDirect
  <2> QED BY <1>3, <2>1, <2>2, <2>3 DEF ScheduleDirect, loopVars, timerVars
<1>4. CASE ScheduleSend(c)
  BY <1>4 DEF ScheduleSend, loopVars, timerVars, history
<1>5. CASE MarkAdded(c)
  BY <1>5 DEF MarkAdded, Return, loopVars, timerVars, history
<1>6. CASE RemoveDirect(c)
  BY <1>6, RemoveTypes DEF RemoveDirect, Return, loopVars, timerVars, history
<1>7. CASE Stop(c)
  BY <1>7 DEF Stop, callerVars, loopVars, timerVars, history
<1>8. CASE MapRace(c)
  BY <1>8 DEF MapRace, callerVars, loopVars, timerVars, history
<1>9. CASE SliceRace(c)
  BY <1>9 DEF SliceRace, callerVars, loopVars, timerVars, history
<1> QED BY <1>1, <1>2, <1>3, <1>4, <1>5, <1>6, <1>7, <1>8, <1>9 DEF Caller

LEMMA LoopTypes ==
  ASSUME TypeInv, Loop
  PROVE  TypeInv'
<1> USE DEF TypeInv, TypeOK
<1>1. CASE LoopStart
  BY <1>1 DEF LoopStart, callerVars, timerVars, history
<1>2. CASE Compute
  <2>1. entries' \in [Addrs -> Entry]
    BY <1>2, EntryFacts DEF Compute, Entry
  <2> QED BY <1>2, <2>1, TimesAreNat DEF Compute, Continue, callerVars, timerVars, history
<1>3. CASE Arm
  <2>1. alarm' \in Nat
    <3>1. CASE Asleep
      BY <1>3, <3>1 DEF Arm
    <3>2. CASE ~Asleep
      <4>1. PICK a \in Pending : alarm' = WakeTime(a)
        BY <1>3, <3>2 DEF Arm
      <4> QED BY <4>1, EntryFacts, TimesAreNat DEF WakeTime
    <3> QED BY <3>1, <3>2
  <2> QED BY <1>3, <2>1 DEF Arm, callerVars, history
<1>4. CASE Wake
  <2>1. entries' \in [Addrs -> Entry]
    BY <1>4, EntryFacts DEF Wake, Due, Pending, Entry
  <2>2. fires' \in [Jobs -> Nat]
    BY <1>4, FiredIsCounted DEF Wake
  <2>3. after' \in [Jobs -> Nat]
    BY <1>4, EntryFacts DEF Wake
  <2> QED BY <1>4, <2>1, <2>2, <2>3, TimesAreNat DEF Wake, Continue, callerVars
<1>5. CASE WakeEmpty
  BY <1>5 DEF WakeEmpty, callerVars, loopVars, timerVars, history
<1>6. CASE LoopRemove
  BY <1>6, RemoveTypes DEF LoopRemove, Continue, callerVars, timerVars, history
<1>7. CASE RecvStop
  BY <1>7 DEF RecvStop, LeaveLoop, callerVars, history
<1>8. ASSUME NEW c \in Callers, RecvAdd(c) PROVE TypeInv'
  <2>1. arg[c] \in Jobs
    BY <1>8 DEF RecvAdd
  <2>2. CronNext[arg[c]][clock] \in Nat
    BY <2>1, CronNextAssumption
  <2>3. entries' \in [Addrs -> Entry]
    BY <1>8, <2>1, <2>2, InsertTypes DEF RecvAdd
  <2>4. after' \in [Jobs -> Nat]
    BY <1>8, TimesAreNat DEF RecvAdd
  <2> QED BY <1>8, <2>1, <2>3, <2>4, TimesAreNat DEF RecvAdd, Continue, Unlock
<1>9. ASSUME NEW c \in Callers, RecvRm(c) PROVE TypeInv'
  BY <1>9, TimesAreNat DEF RecvRm, Return, history
<1> QED BY <1>1, <1>2, <1>3, <1>4, <1>5, <1>6, <1>7, <1>8, <1>9 DEF Loop

LEMMA TypeStep == TypeInv /\ [Next]_vars => TypeInv'
<1> SUFFICES ASSUME TypeInv, [Next]_vars PROVE TypeInv'
  OBVIOUS
<1>1. ASSUME NEW c \in Callers, Caller(c) PROVE TypeInv'
  BY <1>1, CallerTypes
<1>2. CASE Loop
  BY <1>2, LoopTypes
<1>3. CASE TimePasses
  BY <1>3, TimesAreNat, CronNextAssumption
     DEF TypeInv, TypeOK, TimePasses, Times, callerVars, loopVars, timerVars, history
<1>4. CASE TimerFires
  BY <1>4, TimesAreNat DEF TypeInv, TypeOK, TimerFires, callerVars, loopVars, history
<1>5. CASE UNCHANGED vars
  BY <1>5 DEF TypeInv, TypeOK, vars
<1> QED BY <1>1, <1>2, <1>3, <1>4, <1>5 DEF Next

\* The state keeps its types in every behaviour.
THEOREM TypeCorrect == Spec => []TypeOK
<1>1. TypeInv => TypeOK
  BY DEF TypeInv
<1> QED BY <1>1, TypeInit, TypeStep, PTL DEF Spec

(***************************************************************************)
(* Wake-ups                                                                *)
(***************************************************************************)

\* Entries with a next time appear only where the loop goes back to its top.
LEMMA WakeupStep == TypeInv /\ NoLostWakeup /\ [Next]_vars => NoLostWakeup'
<1> SUFFICES ASSUME TypeInv, NoLostWakeup, [Next]_vars PROVE NoLostWakeup'
  OBVIOUS
<1>1. ASSUME loop' = "select", UNCHANGED <<loop, alarm, tick>>, Pending' \subseteq Pending
      PROVE  NoLostWakeup'
  BY <1>1 DEF NoLostWakeup
<1>2. ASSUME UNCHANGED entries PROVE Pending' = Pending
  BY <1>2 DEF Pending, Live
<1>3. ASSUME NEW id, RemoveEntry(id) PROVE Pending' \subseteq Pending
  BY <1>3 DEF RemoveEntry, DropEntry, Pending, Live, TypeInv, TypeOK, NoEntry
<1>4. ASSUME NEW c \in Callers, Caller(c) PROVE NoLostWakeup'
  <2>1. UNCHANGED <<loop, alarm, tick>>
    BY <1>4 DEF Caller, AddCheck, DeleteJob, ScheduleDirect, ScheduleSend, MarkAdded,
                RemoveDirect, Stop, MapRace, SliceRace, loopVars, timerVars
  <2>2. Pending' \subseteq Pending
    <3>1. CASE ScheduleDirect(c)
      BY <3>1 DEF ScheduleDirect, Insert, Pending, Live, TypeInv, TypeOK
    <3>2. CASE RemoveDirect(c)
      BY <3>2, <1>3 DEF RemoveDirect
    <3> QED BY <1>4, <3>1, <3>2, <1>2
            DEF Caller, AddCheck, DeleteJob, ScheduleSend, MarkAdded, Stop, MapRace, SliceRace
  <2> QED BY <1>1, <2>1, <2>2 DEF NoLostWakeup
<1>5. CASE Loop
  <2>1. CASE Arm
    <3>1. CASE Asleep
      <4>1. Pending' = {}
        BY <2>1, <3>1, <1>2 DEF Arm, Asleep
      <4> QED BY <4>1 DEF NoLostWakeup
    <3>2. CASE ~Asleep
      <4>1. PICK a \in Pending : alarm' = WakeTime(a)
        BY <2>1, <3>2 DEF Arm
      <4>2. entries[a].next \in Nat \ {0}
        BY EntryFacts DEF TypeInv, Pending
      <4>3. alarm' # 0
        BY <4>1, <4>2, TimesAreNat DEF WakeTime, TypeInv, TypeOK
      <4> QED BY <4>3 DEF NoLostWakeup
    <3> QED BY <3>1, <3>2
  <2>2. CASE WakeEmpty
    BY <2>2, <1>2 DEF WakeEmpty, NoLostWakeup, loopVars, timerVars
  <2>3. CASE ~Arm /\ ~WakeEmpty
    <3>1. loop' # "select"
      BY <1>5, <2>3 DEF Loop, LoopStart, Compute, Wake, LoopRemove, RecvStop, RecvAdd, RecvRm,
                        Continue, LeaveLoop
    <3> QED BY <3>1 DEF NoLostWakeup
  <2> QED BY <2>1, <2>2, <2>3
<1>6. CASE TimePasses
  BY <1>6, <1>2 DEF TimePasses, NoLostWakeup, loopVars, timerVars
<1>7. CASE TimerFires
  BY <1>7, <1>2, TimesAreNat DEF TimerFires, NoLostWakeup, loopVars, TypeInv, TypeOK
<1>8. CASE UNCHANGED vars
  BY <1>8, <1>2 DEF vars, NoLostWakeup
<1> QED BY <1>4, <1>5, <1>6, <1>7, <1>8 DEF Next

\* The loop never sleeps through an entry, whatever the callers do.
THEOREM WakeupsKept == Spec => []NoLostWakeup
<1>1. Init => NoLostWakeup
  BY DEF Init, NoLostWakeup
<1> QED BY <1>1, TypeInit, TypeStep, WakeupStep, PTL DEF Spec

(***************************************************************************)
(* Entries of a job, with any callers                                      *)
(*                                                                         *)
(* OneEntryPerJob and EntriesAreMapped are inductive together with two     *)
(* facts: two additions of a job that are on their way at once make it a   *)
(* raced one, and the addition of a job that is not raced finds the job    *)
(* still off the timer when it comes to insert the entry.  A deletion that *)
(* comes between forgets the job only together with its one entry.         *)
(***************************************************************************)
AddsApart ==
  \A c, d \in Callers, j \in Jobs : Adding(c, j) /\ Adding(d, j) => c = d \/ j \in raced

NotYet ==
  \A c \in Callers :
    pc[c] \in {"schedule", "send"} /\ arg[c] \notin raced => Matches(arg[c]) = {}

SharedInv ==
  /\ TypeInv
  /\ OneEntryPerJob
  /\ EntriesAreMapped
  /\ AddsApart
  /\ NotYet

LEMMA SharedInit == Init => SharedInv
<1> SUFFICES ASSUME Init PROVE SharedInv
  OBVIOUS
<1>1. TypeInv
  BY TypeInit
<1>2. \A a \in Live : entries[a].job \in jobMap
  BY DEF Init, Live, NoEntry
<1>3. OneEntryPerJob
  <2> SUFFICES ASSUME NEW a \in Live, NEW b \in Live, entries[a].job = entries[b].job
               PROVE  a = b
    BY DEF OneEntryPerJob
  <2> DEFINE M == Matches(entries[a].job)
  <2>1. a \in M /\ b \in M
    BY DEF Matches
  <2>2. M \in SUBSET Addrs
    BY DEF Matches, Live
  <2>3. IsFiniteSet(M)
    BY <2>2, FS_Subset, CallersAssumption
  <2>4. Cardinality(M) = 1
    BY <1>2 DEF Init
  <2>5. \E x : M = {x}
    BY <2>3, <2>4, FS_Singleton
  <2> QED BY <2>1, <2>5
<1> QED BY <1>1, <1>2, <1>3 DEF SharedInv, EntriesAreMapped, AddsApart, NotYet, Adding, Init

\* What Insert and RemoveEntry do to the set of entries.
LEMMA InsertEffect ==
  ASSUME TypeOK, NEW id \in Jobs, NEW n, Insert(id, n)
  PROVE  \E a \in Addrs :
           /\ a \notin Live
           /\ Live' = Live \cup {a}
           /\ entries'[a].job = id
           /\ \A b \in Live : entries'[b] = entries[b]
<1>1. PICK a \in Fresh : entries' = [entries EXCEPT ![a] = [job |-> id, next |-> n]]
  BY DEF Insert
<1>2. id # NoJob
  BY NoneAssumption
<1> QED BY <1>1, <1>2 DEF Fresh, Live, TypeOK

LEMMA RemoveEffect ==
  ASSUME TypeOK, NEW id, RemoveEntry(id), \A a, b \in Matches(id) : a = b
  PROVE  /\ Live' = Live \ Matches(id)
         /\ \A a \in Live' : entries'[a] = entries[a]
         /\ jobMap' = IF Matches(id) = {} THEN jobMap ELSE jobMap \ {id}
<1>1. CASE Matches(id) = {}
  BY <1>1 DEF RemoveEntry, Live
<1>2. CASE Matches(id) # {}
  <2>1. PICK a \in First(id) : entries' = [entries EXCEPT ![a] = NoEntry]
    BY <1>2 DEF RemoveEntry, DropEntry
  <2>2. a \in Live /\ a \in Matches(id)
    BY <2>1 DEF First, Matches
  <2>3. Matches(id) = {a}
    BY <2>2
  <2>4. Live' = Live \ {a}
    BY <2>1, <2>2 DEF Live, NoEntry, TypeOK
  <2>5. \A b \in Live' : entries'[b] = entries[b]
    BY <2>1, <2>4 DEF Live, TypeOK
  <2> QED BY <1>2, <2>3, <2>4, <2>5 DEF RemoveEntry
<1> QED BY <1>1, <1>2

\* Of a job that may have several entries one goes, and the map forgets the job.
LEMMA RemoveShrinks ==
  ASSUME TypeOK, NEW id, RemoveEntry(id)
  PROVE  /\ Live' \subseteq Live
         /\ \A a \in Live' : entries'[a] = entries[a]
         /\ \A j \in jobMap : j \in jobMap' \/ j = id
<1>1. CASE Matches(id) = {}
  BY <1>1 DEF RemoveEntry, Live
<1>2. CASE Matches(id) # {}
  <2>1. PICK a \in First(id) : entries' = [entries EXCEPT ![a] = NoEntry]
    BY <1>2 DEF RemoveEntry, DropEntry
  <2>2. Live' \subseteq Live /\ \A b \in Live' : entries'[b] = entries[b]
    BY <2>1 DEF Live, NoEntry, TypeOK
  <2> QED BY <1>2, <2>2 DEF RemoveEntry
<1> QED BY <1>1, <1>2

\* A step that keeps the jobs of all addresses, the callers and the map keeps
\* the invariant.
LEMMA SameJobs ==
  ASSUME SharedInv, TypeInv', UNCHANGED <<pc, arg, jobMap, raced>>,
         \A a \in Addrs : entries'[a].job = entries[a].job
  PROVE  SharedInv'
<1>1. Live' = Live /\ \A id : Matches(id)' = Matches(id)
  BY DEF Live, Matches
<1>2. OneEntryPerJob' /\ EntriesAreMapped'
  BY <1>1 DEF SharedInv, OneEntryPerJob, EntriesAreMapped, Live
<1>3. AddsApart' /\ NotYet'
  BY <1>1 DEF SharedInv, AddsApart, NotYet, Adding
<1> QED BY <1>2, <1>3 DEF SharedInv

\* removeEntry keeps the invariant, for the callers as they are after the step.
LEMMA SharedRemove ==
  ASSUME SharedInv, TypeInv', NEW id, RemoveEntry(id), raced' = raced,
         \A c \in Callers : (pc'[c] = pc[c] /\ arg'[c] = arg[c]) \/
                            (pc'[c] = "idle" /\ pc[c] # "mark")
  PROVE  SharedInv'
<1>1. /\ Live' \subseteq Live
      /\ \A a \in Live' : entries'[a] = entries[a]
      /\ \A j \in jobMap : j \in jobMap' \/ j = id
  BY RemoveShrinks DEF SharedInv, TypeInv
<1>2. OneEntryPerJob'
  BY <1>1 DEF SharedInv, OneEntryPerJob
<1>3. ASSUME id \notin raced PROVE jobMap' = jobMap \/ \A a \in Live' : entries'[a].job # id
  <2>1. \A a, b \in Matches(id) : a = b
    BY <1>3 DEF SharedInv, OneEntryPerJob, Matches
  <2> QED BY <1>1, <2>1, RemoveEffect DEF SharedInv, TypeInv, Matches
<1>4. EntriesAreMapped'
  <2> SUFFICES ASSUME NEW a \in Live', entries'[a].job \notin jobMap' \cup raced
               PROVE  \E c \in Callers : pc'[c] = "mark" /\ arg'[c] = entries'[a].job
    BY DEF EntriesAreMapped
  <2>1. a \in Live /\ entries'[a].job = entries[a].job
    BY <1>1
  <2>2. entries[a].job \notin jobMap \cup raced
    BY <1>1, <1>3, <2>1
  <2>3. PICK c \in Callers : pc[c] = "mark" /\ arg[c] = entries[a].job
    BY <2>1, <2>2 DEF SharedInv, EntriesAreMapped
  <2> QED BY <2>1, <2>3
<1>5. AddsApart'
  <2>1. \A c \in Callers, j \in Jobs : Adding(c, j)' => Adding(c, j)
    BY DEF Adding
  <2> QED BY <2>1 DEF SharedInv, AddsApart
<1>6. NotYet'
  <2>1. \A j : Matches(j)' \subseteq Matches(j)
    BY <1>1 DEF Matches
  <2>2. \A c \in Callers : pc'[c] \in {"schedule", "send"} => pc'[c] = pc[c] /\ arg'[c] = arg[c]
    OBVIOUS
  <2> QED BY <2>1, <2>2 DEF SharedInv, NotYet
<1> QED BY <1>2, <1>4, <1>5, <1>6 DEF SharedInv

\* A caller's entry joins the slice on the way to "mark".
LEMMA SharedInsert ==
  ASSUME SharedInv, TypeInv', NEW c \in Callers, NEW n,
         arg[c] \in Jobs, pc[c] \in {"schedule", "send"}, Insert(arg[c], n),
         UNCHANGED <<arg, jobMap, raced>>, pc'[c] = "mark",
         \A d \in Callers : d # c => pc'[d] = pc[d]
  PROVE  SharedInv'
<1>1. PICK a \in Addrs :
        /\ a \notin Live
        /\ Live' = Live \cup {a}
        /\ entries'[a].job = arg[c]
        /\ \A b \in Live : entries'[b] = entries[b]
  BY InsertEffect DEF SharedInv, TypeInv
<1>2. arg[c] \in raced \/ \A b \in Live : entries[b].job # arg[c]
  BY DEF SharedInv, NotYet, Matches
<1>3. OneEntryPerJob'
  <2> SUFFICES ASSUME NEW x \in Live', NEW y \in Live', entries'[x].job = entries'[y].job,
                      entries'[x].job \notin raced
               PROVE  x = y
    BY DEF OneEntryPerJob
  <2>1. CASE x \in Live /\ y \in Live
    BY <1>1, <2>1 DEF SharedInv, OneEntryPerJob
  <2>2. CASE x = a \/ y = a
    BY <1>1, <1>2, <2>2
  <2> QED BY <1>1, <2>1, <2>2
<1>4. EntriesAreMapped'
  <2> SUFFICES ASSUME NEW x \in Live', entries'[x].job \notin jobMap \cup raced
               PROVE  \E d \in Callers : pc'[d] = "mark" /\ arg[d] = entries'[x].job
    BY DEF EntriesAreMapped
  <2>1. CASE x = a
    BY <1>1, <2>1
  <2>2. CASE x \in Live
    <3>1. PICK d \in Callers : pc[d] = "mark" /\ arg[d] = entries[x].job
      BY <1>1, <2>2 DEF SharedInv, EntriesAreMapped
    <3> QED BY <1>1, <2>2, <3>1
  <2> QED BY <1>1, <2>1, <2>2
<1>5. \A d \in Callers, j \in Jobs : Adding(d, j)' => Adding(d, j)
  BY DEF Adding
<1>6. AddsApart'
  BY <1>5 DEF SharedInv, AddsApart
<1>7. NotYet'
  <2> SUFFICES ASSUME NEW d \in Callers, pc'[d] \in {"schedule", "send"}, arg[d] \notin raced,
                      NEW x \in Live'
               PROVE  entries'[x].job # arg[d]
    BY DEF NotYet, Matches
  <2>1. d # c /\ pc[d] = pc'[d]
    OBVIOUS
  <2>2. arg[d] # arg[c]
    BY <2>1 DEF SharedInv, AddsApart, Adding
  <2>3. \A b \in Live : entries[b].job # arg[d]
    BY <2>1 DEF SharedInv, NotYet, Matches
  <2> QED BY <1>1, <2>2, <2>3
<1> QED BY <1>3, <1>4, <1>6, <1>7 DEF SharedInv

\* The check of the map lets an addition pass.
LEMMA SharedCheck ==
  ASSUME SharedInv, TypeInv', NEW c \in Callers, NEW j \in Jobs, AddCheck(c, j)
  PROVE  SharedInv'
<1>1. /\ entries' = entries /\ jobMap' = jobMap /\ j \notin jobMap
      /\ pc[c] = "idle" /\ pc'[c] = "schedule" /\ arg'[c] = j
      /\ \A d \in Callers : d # c => pc'[d] = pc[d] /\ arg'[d] = arg[d]
      /\ raced' = raced \cup (IF \E d \in Callers : Adding(d, j) THEN {j} ELSE {})
  BY DEF AddCheck, NotInMap, Call, SharedInv, TypeInv, TypeOK
<1>2. Live' = Live /\ \A id : Matches(id)' = Matches(id)
  BY <1>1 DEF Live, Matches
<1>3. OneEntryPerJob'
  BY <1>1, <1>2 DEF SharedInv, OneEntryPerJob
<1>4. EntriesAreMapped'
  <2> SUFFICES ASSUME NEW a \in Live, entries[a].job \notin jobMap \cup raced
               PROVE  \E d \in Callers : pc'[d] = "mark" /\ arg'[d] = entries[a].job
    BY <1>1, <1>2 DEF EntriesAreMapped
  <2>1. PICK d \in Callers : pc[d] = "mark" /\ arg[d] = entries[a].job
    BY DEF SharedInv, EntriesAreMapped
  <2> QED BY <1>1, <2>1
<1>5. AddsApart'
  <2> SUFFICES ASSUME NEW d \in Callers, NEW e \in Callers, NEW k \in Jobs,
                      Adding(d, k)', Adding(e, k)', d # e
               PROVE  k \in raced'
    BY DEF AddsApart
  <2>1. CASE d # c /\ e # c
    BY <1>1, <2>1 DEF SharedInv, AddsApart, Adding
  <2>2. CASE d = c \/ e = c
    BY <1>1, <2>2 DEF Adding
  <2> QED BY <2>1, <2>2
<1>6. NotYet'
  <2> SUFFICES ASSUME NEW d \in Callers, pc'[d] \in {"schedule", "send"}, arg'[d] \notin raced'
               PROVE  Matches(arg'[d]) = {}
    BY <1>2 DEF NotYet
  <2>1. CASE d # c
    BY <1>1, <2>1 DEF SharedInv, NotYet
  <2>2. CASE d = c
    <3>1. j \notin raced /\ ~\E e \in Callers : Adding(e, j)
      BY <1>1, <2>2
    <3>2. \A a \in Live : entries[a].job # j
      BY <1>1, <3>1 DEF SharedInv, EntriesAreMapped, Adding
    <3> QED BY <1>1, <2>2, <3>2 DEF Matches
  <2> QED BY <2>1, <2>2
<1> QED BY <1>3, <1>4, <1>5, <1>6 DEF SharedInv

\* A caller moves on, or returns, without touching the slice.
LEMMA SharedMoves ==
  ASSUME SharedInv, TypeInv', NEW c \in Callers, UNCHANGED <<entries, raced>>,
         \A d \in Callers : d # c => pc'[d] = pc[d] /\ arg'[d] = arg[d],
         \/ pc'[c] \in {"idle", "rm", "unlink"} /\ pc[c] # "mark" /\ jobMap' = jobMap
         \/ pc[c] = "mark" /\ pc'[c] = "idle" /\ jobMap' = jobMap \cup {arg[c]}
         \/ pc[c] = "schedule" /\ pc'[c] = "send" /\ arg'[c] = arg[c] /\ jobMap' = jobMap
         \/ pc[c] = "send" /\ pc'[c] = "mark" /\ arg'[c] = arg[c] /\ jobMap' = jobMap
  PROVE  SharedInv'
<1>1. Live' = Live /\ \A id : Matches(id)' = Matches(id)
  BY DEF Live, Matches
<1>2. OneEntryPerJob'
  BY <1>1 DEF SharedInv, OneEntryPerJob
<1>3. EntriesAreMapped'
  <2> SUFFICES ASSUME NEW a \in Live, entries[a].job \notin jobMap' \cup raced
               PROVE  \E d \in Callers : pc'[d] = "mark" /\ arg'[d] = entries[a].job
    BY <1>1 DEF EntriesAreMapped
  <2>1. PICK d \in Callers : pc[d] = "mark" /\ arg[d] = entries[a].job
    BY DEF SharedInv, EntriesAreMapped
  <2> QED BY <2>1
<1>4. \A d \in Callers, j \in Jobs : Adding(d, j)' => Adding(d, j)
  BY DEF Adding
<1>5. AddsApart'
  BY <1>4 DEF SharedInv, AddsApart
<1>6. \A d \in Callers : pc'[d] \in {"schedule", "send"} =>
        pc[d] \in {"schedule", "send"} /\ arg'[d] = arg[d]
  OBVIOUS
<1>7. NotYet'
  BY <1>1, <1>6 DEF SharedInv, NotYet
<1> QED BY <1>2, <1>3, <1>5, <1>7 DEF SharedInv

LEMMA SharedCaller ==
  ASSUME SharedInv, TypeInv', NEW c \in Callers, Caller(c)
  PROVE  SharedInv'
<1>0. TypeOK /\ TypeInv
  BY DEF SharedInv, TypeInv
<1>1. ASSUME NEW j \in Jobs, DeleteJob(c, j) PROVE SharedInv'
  <2>1. /\ UNCHANGED <<entries, jobMap, raced>> /\ pc'[c] \in {"rm", "unlink"} /\ pc[c] = "idle"
        /\ \A d \in Callers : d # c => pc'[d] = pc[d] /\ arg'[d] = arg[d]
    BY <1>0, <1>1 DEF DeleteJob, Call, TypeOK, history
  <2> QED BY <2>1, SharedMoves
<1>2. CASE ScheduleDirect(c)
  <2>1. /\ arg[c] \in Jobs /\ pc[c] = "schedule" /\ Insert(arg[c], 0)
        /\ UNCHANGED <<arg, jobMap, raced>> /\ pc'[c] = "mark"
        /\ \A d \in Callers : d # c => pc'[d] = pc[d]
    BY <1>0, <1>2 DEF ScheduleDirect, TypeInv, TypeOK
  <2> QED BY <2>1, SharedInsert
<1>3. CASE ScheduleSend(c)
  <2>1. /\ UNCHANGED <<entries, jobMap, raced, arg>> /\ pc[c] = "schedule" /\ pc'[c] = "send"
        /\ \A d \in Callers : d # c => pc'[d] = pc[d]
    BY <1>0, <1>3 DEF ScheduleSend, TypeOK, history
  <2> QED BY <2>1, SharedMoves
<1>4. CASE MarkAdded(c)
  <2>1. /\ UNCHANGED <<entries, raced>> /\ jobMap' = jobMap \cup {arg[c]}
        /\ pc[c] = "mark" /\ pc'[c] = "idle"
        /\ \A d \in Callers : d # c => pc'[d] = pc[d] /\ arg'[d] = arg[d]
    BY <1>0, <1>4 DEF MarkAdded, Return, TypeOK, history
  <2> QED BY <2>1, SharedMoves
<1>5. CASE RemoveDirect(c)
  <2>1. /\ RemoveEntry(arg[c]) /\ raced' = raced
        /\ \A d \in Callers : (pc'[d] = pc[d] /\ arg'[d] = arg[d]) \/
                              (pc'[d] = "idle" /\ pc[d] # "mark")
    BY <1>0, <1>5 DEF RemoveDirect, Return, TypeOK, history
  <2> QED BY <2>1, SharedRemove
<1>6. CASE Stop(c) \/ MapRace(c) \/ SliceRace(c)
  BY <1>6, SameJobs DEF Stop, MapRace, SliceRace, callerVars, history
<1> QED BY <1>1, <1>2, <1>3, <1>4, <1>5, <1>6, SharedCheck DEF Caller

LEMMA SharedLoop ==
  ASSUME SharedInv, TypeInv', Loop
  PROVE  SharedInv'
<1>0. TypeOK /\ TypeInv
  BY DEF SharedInv, TypeInv
<1>1. CASE LoopStart \/ Arm \/ WakeEmpty \/ RecvStop
  BY <1>1, SameJobs DEF LoopStart, Arm, WakeEmpty, RecvStop, callerVars, history
<1>2. CASE Compute \/ Wake
  <2>1. \A a \in Addrs : entries'[a].job = entries[a].job
    <3>1. \A a \in Addrs : entries[a] \in [job : Jobs \cup {NoJob}, next : Nat]
      BY <1>0 DEF TypeOK, Entry, NoEntry
    <3>2. \A a \in Addrs : \A t : Advance(entries[a], t).job = entries[a].job
      BY <3>1 DEF Advance
    <3> QED BY <1>2, <3>2 DEF Compute, Wake
  <2> QED BY <1>2, <2>1, SameJobs DEF Compute, Wake, callerVars, history
<1>3. CASE LoopRemove
  BY <1>3, SharedRemove DEF LoopRemove, callerVars, history
<1>4. ASSUME NEW c \in Callers, RecvAdd(c) PROVE SharedInv'
  <2> DEFINE next == CronNext[arg[c]][clock]
  <2>1. /\ arg[c] \in Jobs /\ pc[c] = "send" /\ pc'[c] = "mark"
        /\ UNCHANGED <<arg, jobMap, raced>>
        /\ \A d \in Callers : d # c => pc'[d] = pc[d]
    BY <1>0, <1>4 DEF RecvAdd, TypeInv, TypeOK
  <2>2. CASE next # 0
    <3>1. Insert(arg[c], next)
      BY <1>4, <2>2 DEF RecvAdd
    <3> QED BY <2>1, <3>1, SharedInsert
  <2>3. CASE next = 0
    <3>1. entries' = entries
      BY <1>4, <2>3 DEF RecvAdd
    <3> QED BY <2>1, <3>1, SharedMoves
  <2> QED BY <2>2, <2>3
<1>5. ASSUME NEW c \in Callers, RecvRm(c) PROVE SharedInv'
  <2>1. /\ UNCHANGED <<entries, jobMap, raced>> /\ pc[c] = "rm" /\ pc'[c] = "idle"
        /\ \A d \in Callers : d # c => pc'[d] = pc[d] /\ arg'[d] = arg[d]
    BY <1>0, <1>5 DEF RecvRm, Return, TypeOK, history
  <2> QED BY <2>1, SharedMoves
<1> QED BY <1>1, <1>2, <1>3, <1>4, <1>5 DEF Loop

LEMMA SharedStep == SharedInv /\ [Next]_vars => SharedInv'
<1> SUFFICES ASSUME SharedInv, [Next]_vars PROVE SharedInv'
  OBVIOUS
<1>1. TypeInv'
  BY TypeStep DEF SharedInv
<1>2. CASE TimePasses \/ TimerFires \/ UNCHANGED vars
  BY <1>1, <1>2, SameJobs DEF TimePasses, TimerFires, vars, callerVars, history
<1> QED BY <1>1, <1>2, SharedCaller, SharedLoop DEF Next

\* Whoever adds and deletes which jobs at the same time: a job has two entries only if
\* it was added while another addition of it was between the check of the job map and
\* the map's update (AddJobToRunQueue, 274-286), ...
THEOREM EntriesUnique == Spec => []OneEntryPerJob
<1>1. SharedInv => OneEntryPerJob
  BY DEF SharedInv
<1> QED BY <1>1, SharedInit, SharedStep, PTL DEF Spec

\* ... and the map knows, or is about to know, each other job with an entry, so that it
\* is not added again.
THEOREM EntriesMapped == Spec => []EntriesAreMapped
<1>1. SharedInv => EntriesAreMapped
  BY DEF SharedInv
<1> QED BY <1>1, SharedInit, SharedStep, PTL DEF Spec

(***************************************************************************)
(* One caller for each job                                                 *)
(*                                                                         *)
(* The jobs each caller touches are its own, and then no addition meets    *)
(* another of its job.                                                     *)
(***************************************************************************)
Owns(c, j) == j \in AddJobs[c] \cup RmJobs[c]

SerialInv ==
  /\ TypeInv
  /\ SharedInv
  /\ raced = {}
  /\ \A c \in Callers : pc[c] # "idle" => Owns(c, arg[c])

LEMMA SerialInit == Init => SerialInv
BY SharedInit, TypeInit DEF Init, SerialInv

\* What SharedInv says when no job is raced.
LEMMA SerialFacts ==
  ASSUME SerialInv
  PROVE  /\ \A a, b \in Live : entries[a].job = entries[b].job => a = b
         /\ \A id : \A a, b \in Matches(id) : a = b
         /\ \A c \in Callers : pc[c] \in {"schedule", "send"} => Matches(arg[c]) = {}
BY DEF SerialInv, SharedInv, OneEntryPerJob, NotYet, Matches

LEMMA SerialStep == OneCallerPerJob /\ SerialInv /\ [Next]_vars => SerialInv'
<1> SUFFICES ASSUME OneCallerPerJob, SerialInv, [Next]_vars PROVE SerialInv'
  OBVIOUS
<1>0. TypeInv' /\ SharedInv' /\ TypeOK
  BY TypeStep, SharedStep DEF SerialInv, TypeInv
<1>1. ASSUME NEW c \in Callers, NEW j \in Jobs, AddCheck(c, j) PROVE SerialInv'
  <2>1. /\ j \in AddJobs[c] /\ pc[c] = "idle" /\ arg'[c] = j
        /\ \A d \in Callers : d # c => pc'[d] = pc[d] /\ arg'[d] = arg[d]
    BY <1>0, <1>1 DEF AddCheck, Call, TypeOK
  <2>2. ~\E d \in Callers : Adding(d, j)
    BY <2>1 DEF SerialInv, Owns, OneCallerPerJob, Adding
  <2>3. raced' = {}
    BY <1>1, <2>2 DEF AddCheck, SerialInv
  <2> QED BY <1>0, <2>1, <2>3 DEF SerialInv, Owns
<1>2. ASSUME NEW c \in Callers, NEW j \in Jobs, DeleteJob(c, j) PROVE SerialInv'
  <2>1. /\ j \in RmJobs[c] /\ arg'[c] = j /\ raced' = raced
        /\ \A d \in Callers : d # c => pc'[d] = pc[d] /\ arg'[d] = arg[d]
    BY <1>0, <1>2 DEF DeleteJob, Call, TypeOK, history
  <2> QED BY <1>0, <2>1 DEF SerialInv, Owns
<1>3. ASSUME raced' = raced,
             \A c \in Callers : pc'[c] # "idle" => pc[c] # "idle" /\ arg'[c] = arg[c]
      PROVE  SerialInv'
  BY <1>0, <1>3 DEF SerialInv, Owns
<1>4. ASSUME NEW c \in Callers,
             \/ ScheduleDirect(c) \/ ScheduleSend(c) \/ MarkAdded(c) \/ RemoveDirect(c)
             \/ Stop(c) \/ MapRace(c) \/ SliceRace(c)
      PROVE  SerialInv'
  BY <1>0, <1>3, <1>4 DEF ScheduleDirect, ScheduleSend, MarkAdded, RemoveDirect, Stop, MapRace,
    SliceRace, Return, TypeOK, callerVars, history
<1>5. CASE Loop
  BY <1>0, <1>3, <1>5 DEF Loop, LoopStart, Compute, Arm, Wake, WakeEmpty, LoopRemove, RecvStop,
    RecvAdd, RecvRm, Return, TypeOK, callerVars, history
<1>6. CASE TimePasses \/ TimerFires \/ UNCHANGED vars
  BY <1>3, <1>6 DEF TimePasses, TimerFires, vars, callerVars, history
<1> QED BY <1>1, <1>2, <1>4, <1>5, <1>6 DEF Next, Caller

(***************************************************************************)
(* EdgeTimer implements JobQueue                                           *)
(***************************************************************************)

\* An entry that fires is entitled to: its time is one of its job's schedule and
\* lies after every time the job was fired for or added at.
EntryFits(a) ==
  entries[a].next # 0 => /\ JQ!IsSlot(entries[a].job, entries[a].next)
                         /\ after[entries[a].job] < entries[a].next

PromiseInv ==
  /\ SerialInv
  /\ \A j \in Jobs : after[j] <= clock
  /\ \A a \in Live : EntryFits(a)

\* A time that Advance stores is one of the schedule's, later than t; when it
\* stores none, the entry keeps its time, which only a job without any has.
LEMMA AdvanceFits ==
  ASSUME TypeOK, Recurring, NEW a \in Live, NEW t \in Times,
         entries[a].next = 0 \/ JQ!IsSlot(entries[a].job, entries[a].next)
  PROVE  LET e == Advance(entries[a], t)
         IN /\ e.job = entries[a].job
            /\ \/ e.next = 0 /\ entries[a].next = 0
               \/ JQ!IsSlot(e.job, e.next) /\ t < e.next
<1> DEFINE j == entries[a].job
<1> DEFINE s == CronNext[j][t]
<1>1. entries[a] \in [job : Jobs, next : Nat] /\ j \in Jobs
  BY DEF TypeOK, Entry, NoEntry, Live
<1>2. CASE s = 0
  <2>1. Advance(entries[a], t) = entries[a]
    BY <1>2 DEF Advance
  <2>2. \A u \in Times : CronNext[j][u] = 0
    BY <1>1, <1>2 DEF Recurring
  <2>3. entries[a].next = 0
    BY <2>2 DEF JQ!IsSlot, Times
  <2> QED BY <2>1, <2>3
<1>3. CASE s # 0
  <2>1. Advance(entries[a], t).job = j /\ Advance(entries[a], t).next = s
    BY <1>1, <1>3 DEF Advance
  <2>2. t < s
    BY <1>1, <1>3, CronNextAssumption, TimesAreNat
  <2>3. JQ!IsSlot(j, s)
    BY <1>3 DEF JQ!IsSlot, Times
  <2> QED BY <2>1, <2>2, <2>3
<1> QED BY <1>2, <1>3

LEMMA PromiseInit == Init => PromiseInv
<1> SUFFICES ASSUME Init PROVE PromiseInv
  OBVIOUS
<1>1. SerialInv
  BY SerialInit
<1>2. \A j \in Jobs : after[j] <= clock
  BY DEF Init
<1>3. \A a \in Live : entries[a].next = 0
  BY DEF Init, Live, NoEntry
<1> QED BY <1>1, <1>2, <1>3 DEF PromiseInv, EntryFits

\* A step that keeps the entries, or drops some, and the histories.
LEMMA PromiseKept ==
  ASSUME PromiseInv, SerialInv', UNCHANGED <<after, fires>>, clock' \in Nat, clock <= clock',
         Live' \subseteq Live, \A a \in Live' : entries'[a] = entries[a]
  PROVE  PromiseInv'
<1>1. \A j \in Jobs : after'[j] <= clock'
  BY TimesAreNat DEF PromiseInv, SerialInv, TypeInv, TypeOK
<1> QED BY <1>1 DEF PromiseInv, EntryFits, JQ!IsSlot

\* The same step is one that JobQueue need not see, when it drops none.
LEMMA Stutters ==
  ASSUME UNCHANGED <<after, fires, clock>>, Live' = Live,
         \A a \in Live : entries'[a].job = entries[a].job
  PROVE  UNCHANGED JQ!vars
BY DEF JQ!vars

Kept == PromiseInv' /\ [JQ!Next]_JQ!vars

\* removeEntry is JobQueue's Remove, or nothing.
LEMMA RemoveRefines ==
  ASSUME PromiseInv, SerialInv', NEW id, RemoveEntry(id), UNCHANGED <<after, fires, clock>>
  PROVE  Kept
<1>1. /\ Live' = Live \ Matches(id)
      /\ \A a \in Live' : entries'[a] = entries[a]
  BY RemoveEffect, SerialFacts DEF PromiseInv, SerialInv, TypeInv
<1>2. clock \in Nat
  BY TimesAreNat DEF PromiseInv, SerialInv, TypeInv, TypeOK
<1>3. PromiseInv'
  BY <1>1, <1>2, PromiseKept
<1>4. CASE Matches(id) = {}
  BY <1>1, <1>3, <1>4, Stutters DEF Kept
<1>5. CASE Matches(id) # {}
  <2>1. id \in Jobs
    BY <1>5, EntryFacts DEF Matches, PromiseInv, SerialInv, TypeInv
  <2>2. {entries'[a].job : a \in Live'} = {entries[a].job : a \in Live} \ {id}
    BY <1>1 DEF Matches
  <2>3. JQ!Remove(id)
    BY <2>2 DEF JQ!Remove
  <2> QED BY <1>3, <2>1, <2>3 DEF Kept, JQ!Next
<1> QED BY <1>4, <1>5

\* Appending an entry is JobQueue's Add.
LEMMA InsertRefines ==
  ASSUME PromiseInv, SerialInv', NEW c \in Callers, NEW n \in Nat,
         arg[c] \in Jobs, pc[c] \in {"schedule", "send"}, Insert(arg[c], n),
         n # 0 => JQ!IsSlot(arg[c], n) /\ clock < n,
         after' = [after EXCEPT ![arg[c]] = clock], UNCHANGED <<fires, clock>>
  PROVE  Kept
<1> DEFINE id == arg[c]
<1>1. PICK a \in Fresh : entries' = [entries EXCEPT ![a] = [job |-> id, next |-> n]]
  BY DEF Insert
<1>2. /\ Live' = Live \cup {a} /\ a \in Addrs
      /\ entries'[a].job = id /\ entries'[a].next = n
      /\ \A b \in Live : entries'[b] = entries[b]
  BY <1>1, NoneAssumption DEF Fresh, Live, PromiseInv, SerialInv, TypeInv, TypeOK
<1>3. \A b \in Live : entries[b].job \in Jobs /\ entries[b].job # id
  BY EntryFacts, SerialFacts DEF PromiseInv, SerialInv, Matches, TypeInv
<1>4. after'[id] = clock /\ \A j \in Jobs : j # id => after'[j] = after[j]
  BY DEF PromiseInv, SerialInv, TypeInv, TypeOK
<1>5. clock \in Nat
  BY TimesAreNat DEF PromiseInv, SerialInv, TypeInv, TypeOK
<1>6. \A j \in Jobs : after'[j] <= clock'
  BY <1>4, <1>5 DEF PromiseInv
<1>7. \A b \in Live : EntryFits(b)'
  BY <1>2, <1>3, <1>4 DEF PromiseInv, EntryFits, JQ!IsSlot
<1>8. EntryFits(a)'
  BY <1>2, <1>4 DEF EntryFits, JQ!IsSlot
<1>9. PromiseInv'
  BY <1>2, <1>6, <1>7, <1>8 DEF PromiseInv
<1>10. {entries'[b].job : b \in Live'} = {entries[b].job : b \in Live} \cup {id}
  BY <1>2
<1>11. PICK j \in Jobs : j = id
  OBVIOUS
<1>12. JQ!Add(j)
  BY <1>10, <1>11 DEF JQ!Add
<1> QED BY <1>9, <1>12 DEF Kept, JQ!Next

LEMMA CallerRefines ==
  ASSUME PromiseInv, SerialInv', NEW c \in Callers, Caller(c)
  PROVE  Kept
<1>1. TypeOK /\ clock \in Nat
  BY TimesAreNat DEF PromiseInv, SerialInv, TypeInv, TypeOK
<1>2. CASE ScheduleDirect(c)
  <2>1. /\ arg[c] \in Jobs /\ pc[c] \in {"schedule", "send"} /\ Insert(arg[c], 0)
        /\ after' = [after EXCEPT ![arg[c]] = clock] /\ UNCHANGED <<fires, clock>>
    BY <1>2 DEF ScheduleDirect, PromiseInv, SerialInv, TypeInv
  <2> QED BY <2>1, InsertRefines
<1>3. CASE RemoveDirect(c)
  <2>1. PICK id : id = arg[c]
    OBVIOUS
  <2>2. RemoveEntry(id) /\ UNCHANGED <<after, fires, clock>>
    BY <1>3, <2>1 DEF RemoveDirect, history
  <2> QED BY <2>2, RemoveRefines
<1>4. CASE ~ScheduleDirect(c) /\ ~RemoveDirect(c)
  <2>1. UNCHANGED <<entries, after, fires, clock>>
    BY <1>4 DEF Caller, AddCheck, DeleteJob, ScheduleSend, MarkAdded, Stop, MapRace, SliceRace, history
  <2>2. Live' = Live
    BY <2>1 DEF Live
  <2> QED BY <1>1, <2>1, <2>2, PromiseKept, Stutters DEF Kept
<1> QED BY <1>2, <1>3, <1>4

\* The loop's first walk over the entries gives them their times; JobQueue does
\* not see it.
LEMMA ComputeRefines ==
  ASSUME Recurring, PromiseInv, SerialInv', Compute
  PROVE  Kept
<1>1. TypeOK /\ clock \in Times /\ clock \in Nat
  BY TimesAreNat DEF PromiseInv, SerialInv, TypeInv, TypeOK
<1>2. UNCHANGED <<after, fires, clock>>
  BY DEF Compute, history
<1>3. ASSUME NEW a \in Live
      PROVE  /\ a \in Live' /\ entries'[a].job = entries[a].job
             /\ EntryFits(a)'
  <2> DEFINE e == Advance(entries[a], clock)
  <2>1. entries'[a] = e /\ a \in Addrs
    BY DEF Compute, Live
  <2>2. entries[a].next = 0 \/ JQ!IsSlot(entries[a].job, entries[a].next)
    BY DEF PromiseInv, EntryFits
  <2>3. /\ e.job = entries[a].job
        /\ \/ e.next = 0 /\ entries[a].next = 0
           \/ JQ!IsSlot(e.job, e.next) /\ clock < e.next
    BY <1>1, <2>2, AdvanceFits
  <2>4. entries[a].job \in Jobs /\ after[entries[a].job] <= clock
    BY <1>1, EntryFacts DEF PromiseInv
  <2>5. e.next \in Nat /\ after[entries[a].job] \in Nat /\ e.job # NoJob
    BY <1>1, <2>4, EntryFacts, NoneAssumption DEF TypeOK
  <2>6. e.next # 0 => after[e.job] < e.next
    BY <1>1, <2>3, <2>4, <2>5
  <2>7. a \in Live'
    BY <2>1, <2>5 DEF Live
  <2> QED BY <1>2, <2>1, <2>3, <2>6, <2>7 DEF EntryFits, JQ!IsSlot
<1>4. Live' = Live
  BY <1>3 DEF Live, Compute
<1>5. PromiseInv'
  BY <1>2, <1>3, <1>4 DEF PromiseInv
<1> QED BY <1>2, <1>3, <1>4, <1>5, Stutters DEF Kept

\* What a tick does to one job: nothing, or its only entry fires, once.
LEMMA FiredOnce ==
  ASSUME PromiseInv, Wake, NEW j \in Jobs
  PROVE  \/ /\ Fired(j, tick) = {}
            /\ fires'[j] = fires[j] /\ after'[j] = after[j]
         \/ \E a \in Live :
              /\ Fired(j, tick) = {a} /\ entries[a].job = j
              /\ fires'[j] = fires[j] + 1 /\ after'[j] = entries[a].next
<1>1. fires'[j] = fires[j] + Cardinality(Fired(j, tick)) /\ IsLatest(j, tick, after'[j])
  BY DEF Wake
<1>2. fires[j] \in Nat
  BY DEF PromiseInv, SerialInv, TypeInv, TypeOK
<1>3. CASE Fired(j, tick) = {}
  <2>1. Cardinality(Fired(j, tick)) = 0
    BY <1>3, FS_EmptySet
  <2> QED BY <1>1, <1>2, <1>3, <2>1 DEF IsLatest
<1>4. CASE Fired(j, tick) # {}
  <2>1. PICK a : a \in Fired(j, tick)
    BY <1>4
  <2>2. a \in Live /\ entries[a].job = j
    BY <2>1 DEF Fired, Matches
  <2>3. Fired(j, tick) = {a}
    BY <2>1, <2>2, SerialFacts DEF Fired, Matches, PromiseInv
  <2>4. Cardinality(Fired(j, tick)) = 1
    BY <2>3, FS_Singleton
  <2>5. after'[j] = entries[a].next
    BY <1>1, <1>4, <2>3 DEF IsLatest
  <2> QED BY <1>1, <2>2, <2>3, <2>4, <2>5
<1> QED BY <1>3, <1>4

\* A tick is JobQueue's Fire.
LEMMA WakeRefines ==
  ASSUME Recurring, PromiseInv, SerialInv', Wake
  PROVE  Kept
<1>1. /\ TypeOK /\ tick \in Times /\ tick \in Nat /\ clock \in Nat /\ tick <= clock
      /\ UNCHANGED clock
  BY TimesAreNat DEF PromiseInv, SerialInv, TypeInv, TypeOK, Wake
<1>2. \A a \in Live : /\ entries[a].job \in Jobs /\ entries[a].next \in Nat
                      /\ after[entries[a].job] \in Nat
                      /\ EntryFits(a)
  BY <1>1, EntryFacts DEF TypeOK, PromiseInv
<1>3. ASSUME NEW a \in Live, a \in Due(tick)
      PROVE  /\ a \in Live' /\ entries'[a].job = entries[a].job
             /\ after'[entries[a].job] = entries[a].next
             /\ EntryFits(a)'
  <2> DEFINE e == Advance(entries[a], tick)
  <2>1. entries'[a] = e /\ a \in Addrs
    BY <1>3 DEF Wake, Live
  <2>2. entries[a].next # 0 /\ entries[a].next <= tick
    BY <1>3 DEF Due, Pending
  <2>3. e.job = entries[a].job /\ JQ!IsSlot(e.job, e.next) /\ tick < e.next
    BY <1>1, <1>2, <2>2, AdvanceFits DEF EntryFits
  <2>4. a \in Fired(entries[a].job, tick)
    BY <1>3 DEF Fired, Matches
  <2>5. after'[entries[a].job] = entries[a].next
    BY <1>2, <2>4, FiredOnce
  <2>6. e.next \in Nat /\ e.job # NoJob
    BY <1>1, EntryFacts, NoneAssumption
  <2>7. after'[e.job] < e.next
    BY <1>1, <1>2, <2>2, <2>3, <2>5, <2>6
  <2>8. a \in Live'
    BY <2>1, <2>6 DEF Live
  <2> QED BY <2>1, <2>3, <2>5, <2>7, <2>8 DEF EntryFits, JQ!IsSlot
<1>4. ASSUME NEW a \in Live, a \notin Due(tick)
      PROVE  a \in Live' /\ entries'[a].job = entries[a].job /\ EntryFits(a)'
  <2>1. entries'[a] = entries[a]
    BY <1>4 DEF Wake, Live
  <2>2. a \in Live'
    BY <2>1 DEF Live
  <2>3. Fired(entries[a].job, tick) = {}
    BY <1>4, SerialFacts DEF Fired, Matches, PromiseInv, Due, Pending
  <2>4. after'[entries[a].job] = after[entries[a].job]
    BY <1>2, <2>3, FiredOnce
  <2> QED BY <1>2, <2>1, <2>2, <2>4 DEF EntryFits, JQ!IsSlot
<1>5. Live' = Live
  BY <1>3, <1>4 DEF Live, Wake, Due, Pending
<1>6. ASSUME NEW j \in Jobs
      PROVE  /\ after'[j] <= clock'
             /\ \/ fires'[j] = fires[j] /\ after'[j] = after[j]
                \/ /\ j \in {entries[a].job : a \in Live}
                   /\ fires'[j] = fires[j] + 1
                   /\ JQ!IsSlot(j, after'[j])
                   /\ after[j] < after'[j]
                   /\ after'[j] <= clock
  <2>1. CASE Fired(j, tick) = {}
    BY <1>1, <2>1, FiredOnce DEF PromiseInv
  <2>2. CASE Fired(j, tick) # {}
    <3>1. PICK a \in Live : /\ Fired(j, tick) = {a} /\ entries[a].job = j
                            /\ fires'[j] = fires[j] + 1 /\ after'[j] = entries[a].next
      BY <2>2, FiredOnce
    <3>2. entries[a].next # 0 /\ entries[a].next <= tick
      BY <3>1 DEF Fired, Due, Pending
    <3>3. JQ!IsSlot(j, entries[a].next) /\ after[j] < entries[a].next
      BY <1>2, <3>1, <3>2 DEF EntryFits
    <3>4. entries[a].next <= clock
      BY <1>1, <1>2, <3>2
    <3> QED BY <1>1, <3>1, <3>3, <3>4
  <2> QED BY <2>1, <2>2
<1>7. PromiseInv'
  BY <1>3, <1>4, <1>5, <1>6 DEF PromiseInv
<1>8. {entries'[a].job : a \in Live'} = {entries[a].job : a \in Live}
  BY <1>3, <1>4, <1>5
<1>9. fires' \in [Jobs -> Nat] /\ after' \in [Jobs -> Nat]
  BY DEF SerialInv, TypeInv, TypeOK
<1>10. JQ!Fire
  BY <1>1, <1>6, <1>8, <1>9 DEF JQ!Fire
<1> QED BY <1>7, <1>10 DEF Kept, JQ!Next

LEMMA LoopRefines ==
  ASSUME Recurring, PromiseInv, SerialInv', Loop
  PROVE  Kept
<1>1. TypeOK /\ clock \in Times /\ clock \in Nat
  BY TimesAreNat DEF PromiseInv, SerialInv, TypeInv, TypeOK
<1>2. CASE UNCHANGED <<entries, after, fires, clock>>
  <2>1. Live' = Live
    BY <1>2 DEF Live
  <2> QED BY <1>1, <1>2, <2>1, PromiseKept, Stutters DEF Kept
<1>3. CASE LoopStart \/ Arm \/ WakeEmpty \/ RecvStop
  BY <1>2, <1>3 DEF LoopStart, Arm, WakeEmpty, RecvStop, history
<1>4. CASE Compute
  BY <1>4, ComputeRefines
<1>5. CASE Wake
  BY <1>5, WakeRefines
<1>6. CASE LoopRemove
  <2>1. PICK id : id = rmJob
    OBVIOUS
  <2>2. RemoveEntry(id) /\ UNCHANGED <<after, fires, clock>>
    BY <1>6, <2>1 DEF LoopRemove, history
  <2> QED BY <2>2, RemoveRefines
<1>7. ASSUME NEW c \in Callers, RecvAdd(c) PROVE Kept
  <2>1. PICK n : n = CronNext[arg[c]][clock]
    OBVIOUS
  <2>2. arg[c] \in Jobs /\ pc[c] \in {"schedule", "send"}
    BY <1>7 DEF RecvAdd, PromiseInv, SerialInv, TypeInv
  <2>3. n \in Nat /\ (n # 0 => JQ!IsSlot(arg[c], n) /\ clock < n)
    BY <1>1, <2>1, <2>2, CronNextAssumption DEF JQ!IsSlot, Times
  <2>4. CASE n = 0
    BY <1>2, <1>7, <2>1, <2>4 DEF RecvAdd
  <2>5. CASE n # 0
    <3>1. /\ Insert(arg[c], n) /\ UNCHANGED <<fires, clock>>
          /\ after' = [after EXCEPT ![arg[c]] = clock]
      BY <1>7, <2>1, <2>5 DEF RecvAdd
    <3> QED BY <2>2, <2>3, <3>1, InsertRefines
  <2> QED BY <2>4, <2>5
<1>8. ASSUME NEW c \in Callers, RecvRm(c) PROVE Kept
  BY <1>2, <1>8 DEF RecvRm, history
<1> QED BY <1>3, <1>4, <1>5, <1>6, <1>7, <1>8 DEF Loop

LEMMA PromiseStep ==
  OneCallerPerJob /\ Recurring /\ PromiseInv /\ [Next]_vars => Kept
<1> SUFFICES ASSUME OneCallerPerJob, Recurring, PromiseInv, [Next]_vars PROVE Kept
  OBVIOUS
<1>1. SerialInv'
  BY SerialStep DEF PromiseInv
<1>2. clock \in Nat
  BY TimesAreNat DEF PromiseInv, SerialInv, TypeInv, TypeOK
<1>3. ASSUME NEW c \in Callers, Caller(c) PROVE Kept
  BY <1>1, <1>3, CallerRefines
<1>4. CASE Loop
  BY <1>1, <1>4, LoopRefines
<1>5. CASE TimePasses
  <2>1. Live' = Live /\ UNCHANGED <<entries, after, fires>> /\ clock' = clock + 1
    BY <1>5 DEF TimePasses, Live, history
  <2>2. PromiseInv'
    BY <1>1, <1>2, <2>1, PromiseKept
  <2>3. JQ!TimePasses
    BY <2>1 DEF JQ!TimePasses
  <2> QED BY <2>2, <2>3 DEF Kept, JQ!Next
<1>6. CASE TimerFires \/ UNCHANGED vars
  <2>1. Live' = Live /\ UNCHANGED <<entries, after, fires, clock>>
    BY <1>6 DEF TimerFires, vars, Live, history
  <2> QED BY <1>1, <1>2, <2>1, PromiseKept, Stutters DEF Kept
<1> QED BY <1>3, <1>4, <1>5, <1>6 DEF Next

\* With one caller for each job and recurring schedules the timer keeps the
\* promise of JobQueue, for any number of jobs and callers.
THEOREM ImplementsJobQueue == OneCallerPerJob /\ Recurring => (Spec => JobQueueSpec)
<1> SUFFICES ASSUME OneCallerPerJob, Recurring PROVE Spec => JobQueueSpec
  OBVIOUS
<1>1. Init => JQ!Init
  <2> SUFFICES ASSUME Init PROVE JQ!Init
    OBVIOUS
  <2>1. TypeInv
    BY TypeInit
  <2>2. \A a \in Live : entries[a].job \in Jobs
    BY <2>1, EntryFacts DEF TypeInv
  <2> QED BY <2>2 DEF Init, JQ!Init
<1>2. PromiseInv /\ [Next]_vars => PromiseInv' /\ [JQ!Next]_JQ!vars
  BY PromiseStep DEF Kept
<1> QED BY <1>1, <1>2, PromiseInit, PTL DEF Spec, JobQueueSpec, JQ!Spec

(***************************************************************************)
(* EdgeTimer implements JobSet                                             *)
(***************************************************************************)
Scheduled == {entries[a].job : a \in Live}

\* The loop has an id in hand exactly while it is about to remove it, and once the loop
\* has begun no caller goes past it.
LeavingInv ==
  /\ SerialInv
  /\ rmJob # NoJob <=> loop = "remove"
  /\ ~running => loop = "start"

LEMMA LeavingInit == Init => LeavingInv
BY SerialInit DEF Init, LeavingInv

LEMMA LeavingStep ==
  ASSUME OneCallerPerJob, NeverStopped, LeavingInv, [Next]_vars
  PROVE  LeavingInv'
<1>1. SerialInv' /\ TypeInv
  BY SerialStep DEF LeavingInv, SerialInv
<1>2. ASSUME NEW c \in Callers, Caller(c) PROVE UNCHANGED <<rmJob, loop, running>>
  BY <1>2 DEF Caller, AddCheck, DeleteJob, ScheduleDirect, ScheduleSend, MarkAdded, RemoveDirect,
              Stop, NeverStopped, MapRace, SliceRace, loopVars
<1>3. CASE LoopStart \/ Compute \/ Arm \/ Wake \/ WakeEmpty \/ LoopRemove \/ RecvStop
  BY <1>1, <1>3 DEF LeavingInv, LoopStart, Compute, Arm, Wake, WakeEmpty, LoopRemove, RecvStop,
                    Continue, LeaveLoop, loopVars
<1>4. ASSUME NEW c \in Callers, RecvAdd(c) PROVE LeavingInv'
  BY <1>1, <1>4 DEF LeavingInv, RecvAdd, Continue
<1>5. ASSUME NEW c \in Callers, RecvRm(c) PROVE LeavingInv'
  <2>1. arg[c] \in Jobs
    BY <1>1, <1>5 DEF RecvRm, TypeInv
  <2> QED BY <1>1, <1>5, <2>1, NoneAssumption DEF LeavingInv, RecvRm
<1>6. CASE TimePasses \/ TimerFires \/ UNCHANGED vars
  BY <1>1, <1>6 DEF LeavingInv, TimePasses, TimerFires, vars, loopVars
<1> QED BY <1>1, <1>2, <1>3, <1>4, <1>5, <1>6 DEF Next, Loop, LeavingInv

\* A step that keeps the jobs of the entries.
LEMMA SameSet ==
  ASSUME Live' = Live, \A a \in Live : entries'[a].job = entries[a].job
  PROVE  Scheduled' = Scheduled
BY DEF Scheduled

LEMMA SetInsert ==
  ASSUME SerialInv, NEW c \in Callers, pc[c] \in {"schedule", "send"}, NEW n,
         Insert(arg[c], n), loop # "remove", LeavingInv, rmJob' = rmJob
  PROVE  \E j \in Jobs : JS!Add(j)
<1>1. PICK j \in Jobs : j = arg[c]
  BY DEF SerialInv, TypeInv
<1>2. PICK a \in Addrs : /\ a \notin Live /\ Live' = Live \cup {a}
                         /\ entries'[a].job = j
                         /\ \A b \in Live : entries'[b] = entries[b]
  BY <1>1, InsertEffect DEF SerialInv, TypeInv
<1>3. Scheduled' = Scheduled \cup {j}
  BY <1>2 DEF Scheduled
<1>4. j \notin Scheduled
  BY <1>1, SerialFacts DEF Matches, Scheduled
<1> QED BY <1>1, <1>3, <1>4 DEF LeavingInv, JS!Add, Scheduled

LEMMA SetRemove ==
  ASSUME SerialInv, NEW id, RemoveEntry(id)
  PROVE  Scheduled' = Scheduled \ {id}
<1>1. /\ Live' = Live \ Matches(id)
      /\ \A a \in Live' : entries'[a] = entries[a]
  BY RemoveEffect, SerialFacts DEF SerialInv, TypeInv
<1> QED BY <1>1 DEF Scheduled, Matches

LEMMA SetCaller ==
  ASSUME NeverStopped, LeavingInv, NEW c \in Callers, Caller(c)
  PROVE  [JS!Next]_JS!vars
<1>1. SerialInv /\ TypeInv
  BY DEF LeavingInv, SerialInv
<1>2. CASE ScheduleDirect(c)
  <2>1. \E j \in Jobs : JS!Add(j)
    BY <1>1, <1>2, SetInsert DEF ScheduleDirect, LeavingInv, loopVars
  <2> QED BY <2>1 DEF JS!Next
<1>3. CASE RemoveDirect(c)
  <2>1. PICK j : j = arg[c]
    OBVIOUS
  <2>2. j \in Jobs /\ RemoveEntry(j) /\ rmJob' = rmJob
    BY <1>1, <1>3, <2>1 DEF RemoveDirect, TypeInv, loopVars
  <2>3. Scheduled' = Scheduled \ {j}
    BY <1>1, <2>2, SetRemove
  <2>4. CASE j \in Scheduled
    BY <2>2, <2>3, <2>4 DEF JS!Next, JS!Remove, Scheduled
  <2>5. CASE j \notin Scheduled
    <3>1. Scheduled' = Scheduled
      BY <2>3, <2>5
    <3> QED BY <2>2, <3>1 DEF JS!vars, Scheduled
  <2> QED BY <2>4, <2>5
<1>4. CASE ~ScheduleDirect(c) /\ ~RemoveDirect(c)
  <2>1. UNCHANGED <<entries, rmJob>>
    BY <1>4 DEF Caller, AddCheck, DeleteJob, ScheduleSend, MarkAdded, Stop, MapRace, SliceRace,
                loopVars
  <2>2. Scheduled' = Scheduled
    BY <2>1 DEF Scheduled, Live
  <2> QED BY <2>1, <2>2 DEF JS!vars, Scheduled
<1> QED BY <1>2, <1>3, <1>4

LEMMA SetLoop ==
  ASSUME LeavingInv, Loop
  PROVE  [JS!Next]_JS!vars
<1>1. SerialInv /\ TypeInv /\ TypeOK
  BY DEF LeavingInv, SerialInv, TypeInv
<1>2. ASSUME UNCHANGED <<entries, rmJob>> PROVE [JS!Next]_JS!vars
  <2>1. Scheduled' = Scheduled
    BY <1>2 DEF Scheduled, Live
  <2> QED BY <1>2, <2>1 DEF JS!vars, Scheduled
<1>3. CASE LoopStart \/ Arm \/ WakeEmpty \/ RecvStop
  BY <1>2, <1>3 DEF LoopStart, Arm, WakeEmpty, RecvStop, loopVars
<1>4. CASE Compute \/ Wake
  <2>1. \A a \in Addrs : entries[a] \in [job : Jobs \cup {NoJob}, next : Nat]
    BY <1>1 DEF TypeOK, Entry, NoEntry
  <2>2. \A a \in Addrs : \A t : Advance(entries[a], t).job = entries[a].job
    BY <2>1 DEF Advance
  <2>3. (\A a \in Addrs : entries'[a].job = entries[a].job) /\ rmJob' = rmJob
    BY <1>4, <2>2 DEF Compute, Wake
  <2>4. Live' = Live
    BY <2>3 DEF Live
  <2>5. Scheduled' = Scheduled
    BY <2>3, <2>4, SameSet DEF Live
  <2> QED BY <2>3, <2>5 DEF JS!vars, Scheduled
<1>5. CASE LoopRemove
  <2>1. PICK id : id = rmJob
    OBVIOUS
  <2>2. RemoveEntry(id) /\ rmJob # NoJob /\ rmJob' = NoJob
    BY <1>5, <2>1 DEF LoopRemove, LeavingInv
  <2>3. Scheduled' = Scheduled \ {id}
    BY <1>1, <2>2, SetRemove
  <2> QED BY <2>1, <2>2, <2>3 DEF JS!Next, JS!Leave, Scheduled
<1>6. ASSUME NEW c \in Callers, RecvAdd(c) PROVE [JS!Next]_JS!vars
  <2>1. PICK n : n = CronNext[arg[c]][clock]
    OBVIOUS
  <2>2. CASE n = 0
    BY <1>2, <1>6, <2>1, <2>2 DEF RecvAdd
  <2>3. CASE n # 0
    <3>1. Insert(arg[c], n) /\ pc[c] = "send" /\ loop # "remove" /\ rmJob' = rmJob
      BY <1>6, <2>1, <2>3 DEF RecvAdd
    <3>2. \E j \in Jobs : JS!Add(j)
      BY <1>1, <3>1, SetInsert
    <3> QED BY <3>2 DEF JS!Next
  <2> QED BY <2>2, <2>3
<1>7. ASSUME NEW c \in Callers, RecvRm(c) PROVE [JS!Next]_JS!vars
  <2>1. PICK j \in Jobs : j = arg[c]
    BY <1>1, <1>7 DEF RecvRm, TypeInv
  <2>2. rmJob = NoJob /\ rmJob' = j /\ entries' = entries
    BY <1>7, <2>1 DEF RecvRm, LeavingInv
  <2>3. Scheduled' = Scheduled
    BY <2>2 DEF Scheduled, Live
  <2> QED BY <2>2, <2>3 DEF JS!Next, JS!Take, Scheduled
<1> QED BY <1>3, <1>4, <1>5, <1>6, <1>7 DEF Loop

\* With one caller for each job, and as nobody stops it, the timer is a set of jobs to
\* those who call it (AddJobToRunQueue, DeleteJob, run).
THEOREM ImplementsJobSet == OneCallerPerJob /\ NeverStopped => (Spec => JobSetSpec)
<1> SUFFICES ASSUME OneCallerPerJob, NeverStopped PROVE Spec => JobSetSpec
  OBVIOUS
<1>1. Init => JS!Init
  <2> SUFFICES ASSUME Init PROVE JS!Init
    OBVIOUS
  <2>1. \A a \in Live : entries[a].job \in Jobs
    BY TypeInit, EntryFacts DEF TypeInv
  <2> QED BY <2>1 DEF Init, JS!Init
<1>2. LeavingInv /\ [Next]_vars => LeavingInv' /\ [JS!Next]_JS!vars
  <2> SUFFICES ASSUME LeavingInv, [Next]_vars PROVE LeavingInv' /\ [JS!Next]_JS!vars
    OBVIOUS
  <2>1. LeavingInv'
    BY LeavingStep
  <2>2. CASE TimePasses \/ TimerFires \/ UNCHANGED vars
    <3>1. UNCHANGED <<entries, rmJob>>
      BY <2>2 DEF TimePasses, TimerFires, vars, loopVars
    <3>2. Scheduled' = Scheduled
      BY <3>1 DEF Scheduled, Live
    <3> QED BY <2>1, <3>1, <3>2 DEF JS!vars, Scheduled
  <2> QED BY <2>1, <2>2, SetCaller, SetLoop DEF Next
<1> QED BY <1>1, <1>2, LeavingInit, PTL DEF Spec, JobSetSpec, JS!Spec
=============================================================================
