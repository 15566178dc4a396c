CONSTANTS
  Ports = {1}
  Requesters = {r1, r2}
  Faults = {"ping", "box", "docker", "db", "crash"}
  MaxRequests = 3
  MaxFaults = 2
SPECIFICATION FairSpec
INVARIANTS TypeOK NeverStuck
PROPERTIES NoOrphans StateSettles
\* The requests and the faults are bounded.
CHECK_DEADLOCK FALSE
