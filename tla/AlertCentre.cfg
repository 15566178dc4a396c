CONSTANTS
  Rules = {r1}
  Clients = {c1, c2}
  Silences = {0, 1}
  Faults = {"crash", "call", "db", "rule"}
  MaxRequests = 4
  MaxFaults = 1
  MaxTime = 1
  MaxAlerts = 3
SPECIFICATION Spec
SYMMETRY ClientsAlike
INVARIANTS ReportsFindConditions SilenceIsKept
PROPERTY ThrottledSpec
\* The requests, the faults and the clock are bounded.
CHECK_DEADLOCK FALSE
