SPECIFICATION FairSpec
CONSTANTS
  Timers = {"timer1"}
  Manuals = {}
  Requests = {"delete1"}
  Pods = {"pod1"}
  PodOf <- MCPodOf
  Ingresses = {"i1", "i2"}
  Hosts = {"h1"}
  Urls = {"u1"}
  Panels = {"panel1", "panel2"}
  PanelIds = {"", "panel1", "panel2", "unknown"}
  DefaultPanel = "panel1"
  Specs <- SeveralPanels
  NoIngress = NoIngress
  NoUrl = NoUrl
  NoTarget = NoTarget
  NoWorker = NoWorker
  Attempts = 2
  DeleteRetries = 1
  MaxFaults = 2
  MaxEdits = 2
  MaxCrashes = 1
INVARIANTS OnlyAskedIsServed ReportedOKIsServed
PROPERTIES ManagedIsServed ReportComesToRest
CHECK_DEADLOCK FALSE
