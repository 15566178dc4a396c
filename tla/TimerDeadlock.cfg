CONSTANTS
  c1 = c1
  c2 = c2
  j1 = j1
  j2 = j2
  j3 = j3
  Callers = {c1, c2}
  Jobs = {j1, j2}
  Addrs = {1, 2}
  MaxTime = 1
  CronNext <- MCCron
  AddJobs <- OwnJobs
  RmJobs <- OwnJobs
  Stoppers = {}
SPECIFICATION FairSpec
PROPERTY HandlesNewEntries
CHECK_DEADLOCK FALSE
