-------------------------------- MODULE JobSet -------------------------------
(***************************************************************************)
(* The cron timer as its callers see it, without time: a set of jobs.  A   *)
(* job that is there is not added again, and nothing is added while        *)
(* another is on its way out; DeleteJob comes back when the loop has taken *)
(* the job's id, before the job is gone; and one id is taken at a time.    *)
(* EdgeTimer is shown to implement this; SceneLinkage takes its timer to   *)
(* be such a set.                                                          *)
(***************************************************************************)
CONSTANTS Job, NoJob

VARIABLES jobs,     \* the jobs on the timer
          leaving   \* the one that the loop is taking away, or NoJob

vars == <<jobs, leaving>>

Init == jobs \in SUBSET Job /\ leaving = NoJob

Add(j) ==
    /\ leaving = NoJob
    /\ j \notin jobs
    /\ jobs' = jobs \cup {j}
    /\ UNCHANGED leaving

\* Of a job that is there or not.
Take(j) ==
    /\ leaving = NoJob
    /\ leaving' = j
    /\ UNCHANGED jobs

Leave ==
    /\ leaving # NoJob
    /\ jobs' = jobs \ {leaving}
    /\ leaving' = NoJob

\* Deleted by a call that found the loop not running yet.
Remove(j) ==
    /\ j \in jobs
    /\ jobs' = jobs \ {j}
    /\ UNCHANGED leaving

Next ==
    \/ \E j \in Job : Add(j) \/ Take(j) \/ Remove(j)
    \/ Leave

Spec == Init /\ [][Next]_vars
=============================================================================
