CONSTANTS
  c1 = c1
  c2 = c2
  j1 = j1
  j2 = j2
  j3 = j3
  Callers = {c1, c2}
  Jobs = {j1, j2, j3}
  Addrs = {1, 2}
  MaxTime = 3
  CronNext <- MCCron
  AddJobs <- OwnJobs
  RmJobs <- OwnJobs
  Stoppers = {}
SPECIFICATION Spec
INVARIANT NoLostWakeup
PROPERTIES JobQueueSpec JobSetSpec
\* The loop and an adder may wait for each other, and the clock ends at MaxTime.
CHECK_DEADLOCK FALSE
