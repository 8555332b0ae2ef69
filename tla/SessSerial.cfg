SPECIFICATION SerialSpec
CONSTANTS
  Pods = {"pod1", "pod2"}
  Clients = {"w1", "w2"}
  PodOf <- MCPodOf
  Nothing = Nothing
  MaxFaults = 0
  IPs = {ip1, ip2, ip3}
  Any = Any
  MaxIPs = 2
  OneTimeCodes = FALSE
  MaxNonces = 3
SYMMETRY MCSymmetry
PROPERTY ServesTable
CHECK_DEADLOCK FALSE
