SPECIFICATION Spec
CONSTANTS
  Pods = {"pod1"}
  Clients = {"w1"}
  PodOf <- MCPodOf
  Nothing = Nothing
  MaxFaults = 1
  IPs = {ip1, ip2}
  Any = Any
  MaxIPs = 1
  OneTimeCodes = TRUE
  MaxNonces = 1
SYMMETRY MCSymmetry
INVARIANTS TypeOK AcceptedWhereIssued
CHECK_DEADLOCK FALSE
