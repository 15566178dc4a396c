CONSTANTS
  s1 = s1
  s2 = s2
  s3 = s3
  Scenes = {s1}
  Admins = {a1, a2}
  Kinds <- AnyKind
  Patient = FALSE
  Faults = {"crash", "call", "db"}
  MaxRequests = 5
  MaxFaults = 2
SPECIFICATION FairSpec
PROPERTY StatusSettles
\* The requests and the faults are bounded.
CHECK_DEADLOCK FALSE
