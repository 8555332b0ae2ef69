SPECIFICATION Spec
CONSTANTS
  Timers = {"timer1"}
  Manuals = {"manual1", "manual2"}
  Requests = {"delete1"}
  Pods = {"pod1", "pod2"}
  PodOf <- MCPodOf
  Ingresses = {"i1"}
  Hosts = {"h1"}
  Urls = {"u1"}
  Panels = {"panel1"}
  PanelIds = {"", "panel1"}
  DefaultPanel = "panel1"
  Specs <- WithHTTPS
  NoIngress = NoIngress
  NoUrl = NoUrl
  NoTarget = NoTarget
  NoWorker = NoWorker
  Attempts = 2
  DeleteRetries = 1
  MaxFaults = 2
  MaxEdits = 1
  MaxCrashes = 1
INVARIANTS TypeOK RunHoldsLock FinishedReportIsComplete ReportedOKIsServed
CHECK_DEADLOCK FALSE
PROPERTIES RunsEnd DeletesEnd
