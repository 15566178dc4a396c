---------------------------- MODULE MCEdgeTimer -----------------------------
(***************************************************************************)
(* Instances of EdgeTimer for TLC.                                         *)
(***************************************************************************)
EXTENDS EdgeTimer, TLC

CONSTANTS c1, c2, j1, j2, j3

\* j1's schedule has the times 1, 2, 4 and 6, j2's 2 and 5, j3's none at all.
After(S, t) ==
  LET later == {s \in S : s > t}
  IN IF later = {} THEN 0 ELSE CHOOSE s \in later : \A r \in later : s <= r
Cron(slots) == [j \in Jobs |-> [t \in Times |-> After(slots[j], t)]]

MCCron == Cron(j1 :> {1, 2, 4, 6} @@ j2 :> {2, 5} @@ j3 :> {})

\* Each job is one caller's, or every caller may call with every job, or only c1.
OwnJobs == c1 :> Jobs \cap {j1} @@ c2 :> Jobs \cap {j2, j3}
AllJobs == [c \in Callers |-> Jobs]
OneRemoves == c1 :> Jobs @@ c2 :> {}
=============================================================================
