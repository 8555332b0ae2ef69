SPECIFICATION FairSpec
CONSTANTS
  pod1 = pod1
  pod2 = pod2
  h1 = h1
  h2 = h2
  Pods = {pod1, pod2}
  Volumes = {pod1, pod2}
  VolumeOf <- MCVolumeOf
  Ephemeral = {pod2}
  Handlers = {h2}
  PodOf <- MCPodOf
  None = None
  MaxSaves = 3
  MaxFaults = 0
PROPERTY PollersFollow
CHECK_DEADLOCK FALSE
