------------------------------ MODULE JobQueue ------------------------------
(***************************************************************************)
(* What the core promises of its timed scenes, without goroutines, locks   *)
(* or channels: a set of scheduled jobs, each fired once for a time of its *)
(* cron schedule, in the order of those times, never before the time has   *)
(* come and never for a time at or before the one the job was added at.    *)
(* EdgeTimer is shown to implement this.                                   *)
(***************************************************************************)
EXTENDS Naturals

CONSTANTS
  Jobs,      \* job ids; a timed scene's id is its job's id
  MaxTime,   \* bound: the last instant of the clock
  CronNext   \* CronNext[j][t]: the first time of j's schedule after t, or 0

VARIABLES
  scheduled, \* the jobs that may fire
  after,     \* after[j]: j fires only for times later than this one
  fires,     \* fires[j]: how often j has fired
  clock

vars == <<scheduled, after, fires, clock>>

\* s is a time of j's cron schedule.
IsSlot(j, s) == s # 0 /\ \E t \in 0..MaxTime : CronNext[j][t] = s

Init ==
  /\ scheduled \in SUBSET Jobs
  /\ after = [j \in Jobs |-> 0]
  /\ fires = [j \in Jobs |-> 0]
  /\ clock = 0

Add(j) ==
  /\ scheduled' = scheduled \cup {j}
  /\ after' = [after EXCEPT ![j] = clock]
  /\ UNCHANGED <<fires, clock>>

Remove(j) ==
  /\ scheduled' = scheduled \ {j}
  /\ UNCHANGED <<after, fires, clock>>

\* Some scheduled jobs fire, each for one due time it has not fired for.
Fire ==
  /\ \A j \in Jobs :
       \/ fires'[j] = fires[j] /\ after'[j] = after[j]
       \/ /\ j \in scheduled
          /\ fires'[j] = fires[j] + 1
          /\ IsSlot(j, after'[j])
          /\ after[j] < after'[j]
          /\ after'[j] <= clock
  /\ fires' \in [Jobs -> Nat]
  /\ after' \in [Jobs -> Nat]
  /\ UNCHANGED <<scheduled, clock>>

TimePasses ==
  /\ clock' = clock + 1
  /\ UNCHANGED <<scheduled, after, fires>>

Next ==
  \/ \E j \in Jobs : Add(j) \/ Remove(j)
  \/ Fire
  \/ TimePasses

Spec == Init /\ [][Next]_vars
=============================================================================
