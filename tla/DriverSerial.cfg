CONSTANTS
  Ports = {1, 2}
  Requesters = {r1}
  Faults = {"ping", "box"}
  MaxRequests = 7
  MaxFaults = 2
SPECIFICATION Spec
INVARIANT AddressKnown
\* The requests and the faults are bounded.
CHECK_DEADLOCK FALSE
