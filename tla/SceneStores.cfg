CONSTANTS
  s1 = s1
  s2 = s2
  s3 = s3
  Scenes = {s1, s2, s3}
  Admins = {a1}
  Kinds <- Apart
  Patient = TRUE
  Faults = {"crash", "call"}
  MaxRequests = 8
  MaxFaults = 2
SPECIFICATION Spec
INVARIANT TimerAgrees
\* The requests and the faults are bounded.
CHECK_DEADLOCK FALSE
