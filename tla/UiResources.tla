---------------------------- MODULE UiResources ----------------------------
(***************************************************************************)
(* More of the cluster pages: services, ingresses, secrets and config maps *)
(* with their detail pages, the dialogs that edit an object, revisions,    *)
(* nodes, RBAC, etcd and the IP scan.                                      *)
(***************************************************************************)
EXTENDS Ui

-----------------------------------------------------------------------------
\* pages/cluster/K8sRelationsCard.tsx

RelationsQ == Each(Query(<<"k8s-resource-relations">>, {"k8s.relations"}))
MatchingPorts == View(RelationsQ)
K8sRelationsCard == Page({View(RelationsQ), MatchingPorts}, {})
\* What a service selects or an ingress routes to decides what is related; no page refreshes
\* the card.
Relating(m) ==
    [m EXCEPT !.writes = @ \cup {"k8s.relations"}, !.forgets = @ \cup {"k8s.relations"}]

-----------------------------------------------------------------------------
\* components/K8sObjectRevisionDialog.tsx

RevisionsQ == Each(Query(<<"k8s-object-revisions">>, {"k8s.revisions"}))
RevisionYamlQ == Each(Query(<<"k8s-object-revision-yaml">>, {}))
DiffRevisions == Mutation({}, {})
\* What a success refreshes is up to the page that opened the dialog.
RollbackTo(writes, onApplied) == Mutation(writes \cup {"k8s.revisions"}, onApplied)
RevisionTable == View(RevisionsQ)
RevisionPreview == View(RevisionYamlQ)
RevisionDiff == RowControl(DiffRevisions)
\* Offered once there are revisions to choose from.
RollbackButton == RowControl(RollbackTo({}, {Shown(<<"k8s-object-revisions">>)}))
K8sObjectRevisionDialog ==
    Page({RevisionTable, RevisionPreview}, {RevisionDiff, RollbackButton})

-----------------------------------------------------------------------------
\* pages/cluster/k8s/K8sGraphicEditDialog.tsx

\* Not asked for when a service is created.
GraphicObjectQ == Each(Query(<<"k8s-object-json">>, {"k8s.object"}))
GraphicNodesQ == Copied(Query(<<"k8s-nodes", "graphic-workload">>, {"k8s.nodes"}))
\* The object that the dialog has loaded is not refreshed by its own save: whoever opens the
\* dialog again within the minute finds the object from before it.  The rest is up to the page
\* that opened it.
SaveGraphic(writes, onSuccess) ==
    Forgets(Mutation(writes \cup {"k8s.object", "k8s.revisions"}, onSuccess), {"k8s.object"})
NodeChoice == View(GraphicNodesQ)
GraphicForm == View(GraphicObjectQ)
\* The form itself is only there with an object, or for a new service.
GraphicSaveButton == RowControl(SaveGraphic({}, {}))
K8sGraphicEditDialog == Page({NodeChoice, GraphicForm}, {GraphicSaveButton})

-----------------------------------------------------------------------------
\* pages/cluster/ClusterServices.tsx

ServicesQ == Each(Query(<<"k8s-services">>, {"k8s.services"}))
ApplyService ==
    Mutation({"k8s.services"}, {Every(<<"k8s-services">>), Every(<<"k8s-namespaces-stats">>)})
DeleteService ==
    Mutation({"k8s.services"}, {Every(<<"k8s-services">>), Every(<<"k8s-namespaces-stats">>)})
ServiceTable == Reloadable(ServicesQ)
ServiceGraphic ==
    Control(SaveGraphic({"k8s.services"},
                {Shown(<<"k8s-services">>), Every(<<"k8s-namespaces-stats">>)}))
ServiceYamlDialog == Control(ApplyService)
DeleteServiceDialog == RowControl(DeleteService)
ClusterServices ==
    Page({ServiceTable}, {ServiceGraphic, ServiceYamlDialog, DeleteServiceDialog})

-----------------------------------------------------------------------------
\* pages/cluster/ClusterServiceDetail.tsx

ServiceQ == Each(Query(<<"k8s-services">>, {"k8s.services"}))
ServiceYamlQ == Each(Query(<<"k8s-object-yaml">>, {"k8s.services"}))
ApplyThisService ==
    Relating(Mutation({"k8s.services", "k8s.revisions"},
             {Every(<<"k8s-services">>), Every(<<"k8s-namespaces-stats">>),
              Shown(<<"k8s-object-yaml">>), Shown(<<"k8s-object-revisions">>)}))
RollbackService ==
    Relating(RollbackTo({"k8s.services"},
             {Every(<<"k8s-services">>), Every(<<"k8s-namespaces-stats">>),
              Shown(<<"k8s-object-yaml">>), Shown(<<"k8s-object-revisions">>)}))
ServiceHead == View(ServiceQ)
ServiceRelations == View(RelationsQ)
ServiceYamlTab == Reloadable(ServiceYamlQ)
ServiceYamlButton == RowControl(ApplyThisService)
ServiceGraphicDialog ==
    Control(Relating(SaveGraphic({"k8s.services"},
                         {Shown(<<"k8s-services">>), Shown(<<"k8s-object-yaml">>),
                          Shown(<<"k8s-object-revisions">>)})))
ServiceEditDialog == Control(ApplyThisService)
ClusterServiceDetail ==
    Page({ServiceHead, ServiceRelations, ServiceYamlTab},
         {ServiceYamlButton, ServiceGraphicDialog, ServiceEditDialog,
          Control(RollbackService)})

-----------------------------------------------------------------------------
\* pages/cluster/ClusterIngresses.tsx

IngressesQ == Each(Query(<<"k8s-ingresses">>, {"k8s.ingresses"}))
ApplyIngress ==
    Mutation({"k8s.ingresses"}, {Every(<<"k8s-ingresses">>), Every(<<"k8s-namespaces-stats">>)})
DeleteIngress ==
    Mutation({"k8s.ingresses"}, {Every(<<"k8s-ingresses">>), Every(<<"k8s-namespaces-stats">>)})
IngressTable == Reloadable(IngressesQ)
IngressDialog == Control(ApplyIngress)
ApplyIngressDialog == Control(ApplyIngress)
DeleteIngressDialog == RowControl(DeleteIngress)
ClusterIngresses ==
    Page({IngressTable}, {IngressDialog, ApplyIngressDialog, DeleteIngressDialog})

-----------------------------------------------------------------------------
\* pages/cluster/ClusterIngressDetail.tsx

IngressQ == Each(Query(<<"k8s-ingresses">>, {"k8s.ingresses"}))
IngressYamlQ == Each(Query(<<"k8s-object-yaml">>, {"k8s.ingresses"}))
ApplyThisIngress ==
    Relating(Mutation({"k8s.ingresses", "k8s.revisions"},
             {Every(<<"k8s-ingresses">>), Every(<<"k8s-namespaces-stats">>),
              Shown(<<"k8s-object-yaml">>), Shown(<<"k8s-object-revisions">>)}))
RollbackIngress ==
    Relating(RollbackTo({"k8s.ingresses"},
             {Shown(<<"k8s-ingresses">>), Every(<<"k8s-namespaces-stats">>),
              Shown(<<"k8s-object-yaml">>), Shown(<<"k8s-object-revisions">>)}))
IngressHead == View(IngressQ)
IngressRelations == View(RelationsQ)
IngressYamlTab == Reloadable(IngressYamlQ)
IngressYamlButton == RowControl(ApplyThisIngress)
IngressEditDialog == Control(ApplyThisIngress)
ClusterIngressDetail ==
    Page({IngressHead, IngressRelations, IngressYamlTab},
         {IngressYamlButton, IngressEditDialog,
          Control(RollbackIngress)})

-----------------------------------------------------------------------------
\* pages/cluster/ClusterSecretDetail.tsx

SecretQ == Each(Query(<<"k8s-secrets">>, {"k8s.secrets"}))
SecretYamlQ == Each(Query(<<"k8s-object-yaml">>, {"k8s.secrets"}))
ApplyThisSecret ==
    Mutation({"k8s.secrets", "k8s.revisions"},
             {Every(<<"k8s-secrets">>), Every(<<"k8s-namespaces-stats">>),
              Shown(<<"k8s-object-yaml">>), Shown(<<"k8s-object-revisions">>)})
RollbackSecret ==
    RollbackTo({"k8s.secrets"},
             {Every(<<"k8s-secrets">>), Every(<<"k8s-namespaces-stats">>),
              Shown(<<"k8s-object-yaml">>), Shown(<<"k8s-object-revisions">>)})
SecretHead == View(SecretQ)
SecretRelations == View(RelationsQ)
SecretYamlTab == Reloadable(SecretYamlQ)
SecretYamlButton == RowControl(ApplyThisSecret)
SecretEditDialog == Control(ApplyThisSecret)
ClusterSecretDetail ==
    Page({SecretHead, SecretRelations, SecretYamlTab},
         {SecretYamlButton, SecretEditDialog,
          Control(RollbackSecret)})

-----------------------------------------------------------------------------
\* pages/cluster/ClusterConfigMapDetail.tsx

ConfigMapQ == Each(Query(<<"k8s-configmaps">>, {"k8s.configmaps"}))
ConfigMapYamlQ == Each(Query(<<"k8s-object-yaml">>, {"k8s.configmaps"}))
ApplyThisConfigMap ==
    Mutation({"k8s.configmaps", "k8s.revisions"},
             {Every(<<"k8s-configmaps">>), Every(<<"k8s-namespaces-stats">>),
              Shown(<<"k8s-object-yaml">>), Shown(<<"k8s-object-revisions">>)})
RollbackConfigMap ==
    RollbackTo({"k8s.configmaps"},
             {Every(<<"k8s-configmaps">>), Every(<<"k8s-namespaces-stats">>),
              Shown(<<"k8s-object-yaml">>), Shown(<<"k8s-object-revisions">>)})
ConfigMapHead == View(ConfigMapQ)
ConfigMapRelations == View(RelationsQ)
ConfigMapYamlTab == Reloadable(ConfigMapYamlQ)
ConfigMapYamlButton == RowControl(ApplyThisConfigMap)
ConfigMapEditDialog == Control(ApplyThisConfigMap)
ClusterConfigMapDetail ==
    Page({ConfigMapHead, ConfigMapRelations, ConfigMapYamlTab},
         {ConfigMapYamlButton, ConfigMapEditDialog,
          Control(RollbackConfigMap)})

-----------------------------------------------------------------------------
\* pages/cluster/PodResourceNetworkTrendCharts.tsx

PodTrendQ == Deaf(Each(Polled(Query(<<"k8s-pod-detail-metrics-range">>, {"k8s.metrics"}))))
PodTrend == View(PodTrendQ)
PodResourceNetworkTrendCharts == Page({PodTrend}, {})

-----------------------------------------------------------------------------
\* pages/cluster/ClusterRBAC.tsx

RbacQ == Copied(Query(<<"k8s-rbac">>, {"k8s.rbac"}))
CreateReader == Mutation({"k8s.rbac"}, {Every(<<"k8s-rbac">>)})
CreateReaderCard == Control(CreateReader)
RbacTabs == View(RbacQ)
RbacRows == View(RbacQ)
ClusterRBAC == Page({RbacTabs, RbacRows}, {CreateReaderCard})

-----------------------------------------------------------------------------
\* pages/cluster/ClusterNodes.tsx

PodsOnNodeQ == Each(Query(<<"k8s-pods-on-node">>, {"k8s.pods"}))
NodesQ == Copied(Polled(Query(<<"k8s-nodes">>, {"k8s.nodes"})))
NodeResources == View(NodesQ)
NodeDialog == View(PodsOnNodeQ)
NodeTable == View(NodesQ)
ClusterNodes == Page({NodeResources, NodeDialog, NodeTable}, {})

-----------------------------------------------------------------------------
\* pages/cluster/ClusterEtcdPage.tsx

EtcdQ == Polled(Query(<<"k8s", "etcd", "summary">>, {"k8s.etcd"}))
Defrag == Works(Mutation({"k8s.etcd"}, {Every(<<"k8s", "etcd", "summary">>)}))
DefragYaml == Mutation({}, {})
EtcdCards == View(EtcdQ)
DefragButton == Control(Defrag)
DefragYamlButton == Control(DefragYaml)
ClusterEtcdPage == Page({EtcdCards}, {DefragButton, DefragYamlButton})

-----------------------------------------------------------------------------
\* pages/cluster/ClusterEtcdMonitorCharts.tsx

\* Key and refetchInterval; the key ends with the time window, one of four.
EtcdChartsQ == Each(Polled(Query(<<"k8s", "etcd", "prometheus-charts">>, {"k8s.metrics"})))
EtcdLeaders == View(EtcdChartsQ)
EtcdDisk == View(EtcdChartsQ)
EtcdStorage == View(EtcdChartsQ)
EtcdNetwork == View(EtcdChartsQ)
ClusterEtcdMonitorCharts == Page({EtcdLeaders, EtcdDisk, EtcdStorage, EtcdNetwork}, {})

-----------------------------------------------------------------------------
\* pages/cluster/ClusterK8sDashboardMonitoringSection.tsx

DashboardConfigQ == Query(<<"app-config">>, {"settings"})
DashboardStatusQ == Copied(Polled(Query(<<"k8s-addons-status">>, {"k8s.addons"})))
InstallDashboard == Works(Mutation({"k8s.addons"}, {Every(<<"k8s-addons-status">>)}))
VerifyDashboard == Mutation({}, {Every(<<"k8s-addons-status">>)})
DashboardCard == Reloadable(DashboardStatusQ)
InstallDashboardDialog == Control(InstallDashboard)
VerifyDashboardButton == Control(VerifyDashboard)
DashboardMirror == View(DashboardConfigQ)
ClusterK8sDashboardMonitoringSection ==
    Page({DashboardCard, DashboardMirror}, {InstallDashboardDialog, VerifyDashboardButton})

-----------------------------------------------------------------------------
\* pages/cluster/ToolNetworkIpScan.tsx

ScanConfigQ == Query(<<"toolbox-ip-scan-config">>, {"scan.config"})
ScanHistoryQ == Query(<<"toolbox-ip-scan-history">>, {"scan.history"})
SaveScanConfig == Mutation({"scan.config"}, {Every(<<"toolbox-ip-scan-config">>)})
RunScan == Mutation({"scan.history"}, {Every(<<"toolbox-ip-scan-history">>)})
\* Filled in from the first answer that has segments, and never again.
ScanSegments == View(ScanConfigQ)
\* Save, scan the first of the segments, scan the one that was typed in.
ScanButtons == {Control(SaveScanConfig), Control(RunScan)}
ScanHistory == Reloadable(ScanHistoryQ)
ToolNetworkIpScan == Page({ScanSegments, ScanHistory}, ScanButtons)

-----------------------------------------------------------------------------
\* pages/cluster/ClusterOverview.tsx

ClusterSummaryQ == Copied(Query(<<"k8s-summary">>, {"k8s.summary"}))
SummaryCards == Reloadable(ClusterSummaryQ)
BadPods == View(ClusterSummaryQ)
ClusterOverview == Page({SummaryCards, BadPods}, {})

-----------------------------------------------------------------------------
\* pages/cluster/ClusterNamespacePicker.tsx

NamespacesQ ==
    Copied(Query(<<"k8s-namespaces-stats">>,
                 {"k8s.namespaces", "k8s.pods", "k8s.workloads", "k8s.services", "k8s.pvcs"}))
NamespaceTable == Reloadable(NamespacesQ)
ClusterNamespacePicker == Page({NamespaceTable}, {})

Pages == {ClusterServices, ClusterServiceDetail, ClusterIngresses, ClusterIngressDetail,
          ClusterSecretDetail, ClusterConfigMapDetail, K8sGraphicEditDialog,
          K8sObjectRevisionDialog, K8sRelationsCard, PodResourceNetworkTrendCharts,
          ClusterRBAC, ClusterNodes, ClusterEtcdPage, ClusterEtcdMonitorCharts,
          ClusterK8sDashboardMonitoringSection, ToolNetworkIpScan, ClusterOverview,
          ClusterNamespacePicker}

=============================================================================
