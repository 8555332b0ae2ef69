----------------------------- MODULE UiInspect -----------------------------
(***************************************************************************)
(* The inspection pages: log collection and log details, the settings of   *)
(* the inspection, alerts, reports and monitoring panels.                  *)
(***************************************************************************)
EXTENDS Ui

-----------------------------------------------------------------------------
\* pages/ai-inspect/VmLogShipperAssistant.tsx

ShipperStatusQ == Query(<<"ops-vmlog-status">>, {"vmlog.status"})
ShipperHostsQ == Query(<<"cloud-hosts-list">>, {"cloud.hosts"})
ShipperVmsQ == Query(<<"vcenter-vms-vmlog-shipper">>, {"vcenter.vms"})
ShipperTaskQ == Each(PolledWhileBusy(Query(<<"ops-vmlog-shipper-task">>, {"shipper.task"})))
ShipperTasksQ == Polled(Query(<<"ops-vmlog-shipper-task-list">>, {"shipper.tasks"}))
GenerateShipper == Mutation({}, {})
InspectShipper == Mutation({}, {})
\* The page turns to the new task, which has an entry of its own; the list is polled.
ApplyShipper == Works(Mutation({"shipper.tasks"}, {}))
ShipperButtons == {Control(GenerateShipper), Control(InspectShipper)}
ShipperHostSelect == View(ShipperHostsQ)
ShipperVmSelect == View(ShipperVmsQ)
ShipperTask == View(ShipperTaskQ)
EnabledCollectors == View(ShipperTasksQ)
ShipperVerify == View(ShipperTaskQ)
ShipperTaskList == View(ShipperTasksQ)
ShipperState == View(ShipperTaskQ)
ApplyShipperDialog == Control(ApplyShipper)
VmLogShipperAssistant ==
    Page({ShipperHostSelect, ShipperVmSelect, ShipperTask, EnabledCollectors, ShipperVerify,
          ShipperTaskList, ShipperState, View(ShipperStatusQ)},
         ShipperButtons \cup {ApplyShipperDialog})

-----------------------------------------------------------------------------
\* pages/ai-inspect/AiInspectLogDetails.tsx

LogStatusQ == Query(<<"ops-vmlog-status">>, {"vmlog.status"})
AdvisoryPollQ == Polled(Query(<<"ops-cluster-advisory">>, {"ops.advisory"}))
LogNamespacesQ == Query(<<"ops-vmlog-namespaces">>, {"vmlog"})
LogDetailsQ == Each(Polled(Query(<<"ops-vmlog-details">>, {"vmlog"})))
LogStatsQ == Each(Polled(Query(<<"ops-vmlog-stats">>, {"vmlog"})))
AnalyzeLogs == Mutation({"vmlog.fingerprints"}, {})
ClearFingerprints == Mutation({"vmlog.fingerprints"}, {})
AnalyzeRow == Mutation({}, {})
LogStatusCard == Reloadable(LogStatusQ)
LogFilters == View(LogNamespacesQ)
LogStatCards == Reloadable(LogStatsQ)
AdvisoryCard == Reloadable(AdvisoryPollQ)
NginxCards == View(LogStatsQ)
LogTable == Reloadable(LogDetailsQ)
LogButtons == {RowControl(AnalyzeLogs), Control(ClearFingerprints)}
LogRowDialog == RowControl(AnalyzeRow)
AiInspectLogDetails ==
    Page({LogStatusCard, LogFilters, LogStatCards, AdvisoryCard, NginxCards, LogTable},
         LogButtons \cup {LogRowDialog})

-----------------------------------------------------------------------------
\* pages/ai-inspect/AiInspectLogs.tsx

OverviewStatusQ == Query(<<"ops-vmlog-status">>, {"vmlog.status"})
LogOverviewQ == Each(Polled(Query(<<"ops-vmlog-overview">>, {"vmlog"})))
OverviewCard == View(LogOverviewQ)
OverviewFilters == Reloadable(OverviewStatusQ)
OverviewCards == Reloadable(LogOverviewQ)
AiInspectLogs == Page({OverviewCard, OverviewFilters, OverviewCards, View(AdvisoryPollQ)}, {})

-----------------------------------------------------------------------------
\* pages/ai-inspect/AiInspectHome.tsx

InspectConfigQ == Query(<<"ops-openclaw">>, {"ops.openclaw"})
InspectTaskQ == Each(PolledWhileBusy(Query(<<"ops-inspect-task">>, {"inspect.task"})))
InspectTasksQ == Polled(Query(<<"ops-inspect-task-list">>, {"inspect.tasks"}))
InspectInstancesQ == Query(<<"app-openclaw-instances">>, {"openclaw.instances"})
InspectK8sStatusQ == Polled(Query(<<"app-openclaw-k8s-status">>, {"openclaw.k8s"}))
SaveInspect == Mutation({"ops.openclaw"}, {Every(<<"ops-openclaw">>)})
RunInspect ==
    Works(Mutation({"inspect.tasks"}, {Every(<<"ops-inspect-task-list">>)}))
InspectDraft == View(InspectConfigQ)
EndpointForm == View(InspectInstancesQ)
EndpointFields == View(InspectConfigQ)
ProfileForms == View(InspectK8sStatusQ)
InspectOptions == View(InspectConfigQ)
InspectTaskPanel == View(InspectTasksQ)
InspectTaskResult == View(InspectTaskQ)
InspectButtons == {Control(SaveInspect), Control(RunInspect)}
AiInspectHome ==
    Page({InspectDraft, EndpointForm, EndpointFields, ProfileForms, InspectOptions,
          InspectTaskPanel, InspectTaskResult},
         InspectButtons)

-----------------------------------------------------------------------------
\* pages/ai-inspect/AiInspectAlerts.tsx

AlertsQ == Query(<<"ops-alerts">>, {"ops.alerts"})
AlertsLogQ == Query(<<"ops-alerts-log">>, {"ops.alerts.log"})
NewWebhook == Mutation({"ops.alerts"}, {Every(<<"ops-alerts">>)})
SaveAlerts == Mutation({"ops.alerts"}, {Every(<<"ops-alerts">>)})
TestChannel == Mutation({}, {})
AlertsDraft == View(AlertsQ)
AlertWebhook == View(AlertsQ)
AlertRules == View(AlertsQ)
AlertChannels == View(AlertsQ)
AlertChannelForms == View(AlertsQ)
AlertSilences == View(AlertsQ)
AlertLog == View(AlertsLogQ)
AiInspectAlerts ==
    Page({AlertsDraft, AlertWebhook, AlertRules, AlertChannels, AlertChannelForms, AlertSilences,
          AlertLog},
         {RowControl(NewWebhook), RowControl(SaveAlerts), RowControl(TestChannel)})

-----------------------------------------------------------------------------
\* pages/ai-inspect/AiInspectReports.tsx

ReportsQ == Each(Query(<<"ops-inspect-reports">>, {"inspect.reports"}))
CorrelationQ == Query(<<"k8s-pod-restart-ai-correlation">>, {"restart.reports"})
RollupQ == Query(<<"k8s-pod-restart-ai-rollup">>, {"restart.reports"})
ClusterReportsQ ==
    Each(Query(<<"k8s-pod-restart-ai-reports", "cluster">>, {"restart.reports"}))
PodReportsQ == Each(Query(<<"k8s-pod-restart-ai-reports", "pod">>, {"restart.reports"}))
WorkloadReportsQ ==
    Each(Query(<<"k8s-pod-restart-ai-reports", "workload">>, {"restart.reports"}))
DeleteReport == Mutation({"restart.reports"}, {Every(<<"k8s-pod-restart-ai-reports">>)})
PlatformReports == View(ReportsQ)
AiInspectReportsPlatform == Page({PlatformReports}, {})
ClusterReports == View(ClusterReportsQ)
AiInspectReportsK8s == Page({ClusterReports, View(CorrelationQ), View(RollupQ)}, {})
PodReports == Reloadable(PodReportsQ)
AiInspectReportsPod == Page({PodReports}, {RowControl(DeleteReport)})
WorkloadReports == Reloadable(WorkloadReportsQ)
AiInspectReportsWorkload == Page({WorkloadReports}, {RowControl(DeleteReport)})

-----------------------------------------------------------------------------
\* pages/ai-inspect/AiInspectMonitoring.tsx

PromStatusQ == Query(<<"prometheus-status">>, {"settings"})
PanelsQ == Query(<<"ops-monitoring-panels">>, {"monitoring.panels"})
PanelChartsQ == Each(Query(<<"ops-monitoring-charts">>, {"k8s.metrics"}))
\* The whole list is sent, made from the one the page has loaded.
SavePanels == Mutation({"monitoring.panels"}, {Every(<<"ops-monitoring-panels">>)})
DeletePanel == RowControl(SavePanels)
SubmitPanel == Control(SavePanels)
PanelSheet == View(PanelsQ)
PanelCharts == View(PanelChartsQ)
AiInspectMonitoring ==
    Page({PanelSheet, PanelCharts, View(PromStatusQ)}, {DeletePanel, SubmitPanel})

-----------------------------------------------------------------------------
\* pages/ai-inspect/AiInspectDashboard.tsx

AdvisoryQ == Polled(Query(<<"ops-cluster-advisory">>, {"ops.advisory"}))
ReportsHeadQ == Query(<<"ops-inspect-reports-head">>, {"inspect.reports"})
AckAdvisory == Mutation({"ops.advisory"}, {Every(<<"ops-cluster-advisory">>)})
RunAdvisory == Mutation({"ops.advisory"}, {Every(<<"ops-cluster-advisory">>)})
AdvisoryBanner == View(AdvisoryQ)
SummaryGrid == View(ReportsHeadQ)
AiInspectDashboard ==
    Page({AdvisoryBanner, SummaryGrid, View(AlertsQ), View(InspectConfigQ), View(PanelsQ),
          View(PromStatusQ)},
         {Control(RunAdvisory), RowControl(AckAdvisory)})

Pages == {VmLogShipperAssistant, AiInspectLogDetails, AiInspectLogs, AiInspectHome,
          AiInspectAlerts, AiInspectReportsPlatform, AiInspectReportsK8s, AiInspectReportsPod,
          AiInspectReportsWorkload, AiInspectMonitoring, AiInspectDashboard}

=============================================================================
