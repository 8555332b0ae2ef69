SPECIFICATION Spec
CONSTANTS
  Timers = {"timer1"}
  Manuals = {}
  Requests = {"delete1"}
  Pods = {"pod1"}
  PodOf <- MCPodOf
  Ingresses = {"i1"}
  Hosts = {"h1"}
  Urls = {"u1"}
  Panels = {"panel1"}
  PanelIds = {"", "panel1"}
  DefaultPanel = "panel1"
  Specs <- OneHost
  NoIngress = NoIngress
  NoUrl = NoUrl
  NoTarget = NoTarget
  NoWorker = NoWorker
  Attempts = 4
  DeleteRetries = 3
  MaxFaults = 0
  MaxEdits = 1
  MaxCrashes = 0
INVARIANT DeletedSiteStaysGone
CHECK_DEADLOCK FALSE
