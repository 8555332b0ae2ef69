SPECIFICATION MCFairSpec
CONSTANTS
  Pods = {"pod1", "pod2"}
  Clients = {"c1", "c3"}
  PodOf <- MCPodOf
  Values = {"a", "long"}
  Empty = ""
  Large = {"long"}
  Nothing = Nothing
  MaxFaults = 1
INVARIANTS TypeOK ReadsWereStored SerialCopyIsCurrent
PROPERTIES SerialGetIsCurrent CopyConverges ConvergedStays
CHECK_DEADLOCK FALSE
