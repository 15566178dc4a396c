CONSTANTS
  c1 = c1
  c2 = c2
  j1 = j1
  j2 = j2
  j3 = j3
  Callers = {c1, c2}
  Jobs = {j1}
  Addrs = {1, 2}
  MaxTime = 2
  CronNext <- MCCron
  AddJobs <- AllJobs
  RmJobs <- OneRemoves
  Stoppers = {c2}
SPECIFICATION FairSpec
INVARIANTS OneEntryPerJob EntriesAreMapped
PROPERTIES AddReturns DueJobsFire StopEndsLoop
\* Every job may be added, every time passed, the process may die, and the loop
\* and an adder may wait for each other.
CHECK_DEADLOCK FALSE
