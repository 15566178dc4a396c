CONSTANTS
  Rules = {r1, r2}
  Clients = {c1, c2}
  Faults = {"crash", "call", "db", "rule"}
  MaxRequests = 6
  MaxFaults = 2
SPECIFICATION FairSpec
INVARIANTS StraysAreNew StartsAreChecked
PROPERTIES StatusSettles RuleLifeSpec
\* The requests and the faults are bounded.
CHECK_DEADLOCK FALSE
