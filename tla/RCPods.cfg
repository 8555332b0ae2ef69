SPECIFICATION Spec
CONSTANTS
  pod1 = pod1
  pod2 = pod2
  h1 = h1
  h2 = h2
  Pods = {pod1, pod2}
  Volumes = {pod1, pod2}
  VolumeOf <- MCVolumeOf
  Ephemeral = {pod1, pod2}
  Handlers = {h1, h2}
  PodOf <- MCPodOf
  None = None
  MaxSaves = 2
  MaxFaults = 1
SYMMETRY MCSymmetry
INVARIANTS TypeOK SavedIsInForce
CHECK_DEADLOCK FALSE
PROPERTY NotedIsInForce
