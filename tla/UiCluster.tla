----------------------------- MODULE UiCluster -----------------------------
(***************************************************************************)
(* The cluster pages: overview, lists and details of workloads and pods,   *)
(* the files of a volume, custom resources, and the add-ons.               *)
(***************************************************************************)
EXTENDS Ui

-----------------------------------------------------------------------------
\* pages/cluster/ClusterPrometheusPanel.tsx

SnapshotQ == Polled(Query(<<"cluster-prometheus-snapshot">>, {"k8s.metrics"}))
PodNetTopQ == Polled(Query(<<"cluster-prometheus-pod-network-top">>, {"k8s.metrics"}))
ChartsQ == Each(Polled(Query(<<"cluster-prometheus-charts">>, {"k8s.metrics"})))
SnapshotCards == View(SnapshotQ)
PodNetTop == View(PodNetTopQ)
Charts == View(ChartsQ)
ClusterPrometheusPanel == Page({SnapshotCards, PodNetTop, Charts}, {})

-----------------------------------------------------------------------------
\* pages/cluster/ClusterOverviewPodsWorkloadPanel.tsx

RestartsQ == Copied(Query(<<"k8s-pod-restarts">>, {"k8s.pods"}))
EfficiencyQ == Copied(Query(<<"k8s-pods-resource-efficiency">>, {"k8s.pods"}))
AdvisoryQ == Copied(Query(<<"k8s-workloads-resource-advisory">>, {"k8s.workloads"}))
SummaryQ == Copied(Query(<<"k8s-summary">>, {"k8s.summary"}))
AskAboutPods == Mutation({}, {})
AskAboutAdvice == Mutation({}, {})
ApplyAdvice ==
    Works(Mutation({"k8s.workloads", "k8s.pods"},
                   {Every(<<"k8s-workloads-resource-advisory">>),
                    Every(<<"k8s-pods-resource-efficiency">>),
                    Every(<<"k8s-pod-restarts">>)}))
RefreshAll(q) == Reloadable(q)
AdvicePanel == RefreshAll(AdvisoryQ)
AttentionPods == RefreshAll(RestartsQ)
EfficiencyCells == RefreshAll(EfficiencyQ)
ClusterOverviewPodsWorkloadPanel ==
    Page({AdvicePanel, AttentionPods, EfficiencyCells, RefreshAll(SummaryQ)},
         {RowControl(ApplyAdvice), RowControl(AskAboutPods), RowControl(AskAboutAdvice)})

-----------------------------------------------------------------------------
\* pages/cluster/ClusterK8sAddonsSection.tsx

AddonsConfigQ == Query(<<"app-config">>, {"settings"})
AddonsStatusQ == Copied(Polled(Query(<<"k8s-addons-status">>, {"k8s.addons"})))
AddonsNodesQ == Copied(Query(<<"k8s-nodes", "ingress-addons">>, {"k8s.nodes"}))
InstallIngress ==
    Works(Mutation({"k8s.addons", "settings"},
                   {Every(<<"k8s-addons-status">>), Every(<<"app-config">>)}))
PinController ==
    Works(Mutation({"k8s.addons", "settings"},
                   {Every(<<"k8s-addons-status">>), Every(<<"app-config">>)}))
SetHostPorts ==
    Works(Mutation({"k8s.addons", "settings"},
                   {Every(<<"k8s-addons-status">>), Every(<<"app-config">>)}))
VerifyIngress == Mutation({}, {Every(<<"k8s-addons-status">>)})
UninstallIngress == Works(Mutation({"k8s.addons"}, {Every(<<"k8s-addons-status">>)}))
AddonsCard == Reloadable(AddonsStatusQ)
AddonsNodes == View(AddonsNodesQ)
AddonsConfirm(m) == RowControl(m)
HostPortsForm == AddonsConfirm(SetHostPorts)
AddonsButtons ==
    {AddonsConfirm(InstallIngress), AddonsConfirm(PinController), HostPortsForm,
     AddonsConfirm(UninstallIngress), RowControl(VerifyIngress)}
ClusterK8sAddonsSection == Page({AddonsCard, AddonsNodes, View(AddonsConfigQ)}, AddonsButtons)

-----------------------------------------------------------------------------
\* pages/cluster/ClusterK8sKubePrometheusStackSection.tsx

StackStatusQ == Copied(Polled(Query(<<"k8s-addons-status">>, {"k8s.addons"})))
InstallStack ==
    Works(Mutation({"k8s.addons", "settings"},
                   {Every(<<"k8s-addons-status">>), Every(<<"app-config">>),
                    Every(<<"runtime-status">>)}))
VerifyStack == Mutation({}, {Every(<<"k8s-addons-status">>)})
StackCard == Reloadable(StackStatusQ)
StackConfirm == RowControl(InstallStack)
StackForm == StackConfirm
ClusterK8sKubePrometheusStackSection == Page({StackCard}, {StackForm, RowControl(VerifyStack)})

-----------------------------------------------------------------------------
\* pages/cluster/ClusterK8sListPage.tsx

\* The same page lists objects of several kinds; its key names the kind and the namespace.
ListQ(key, reads) == Each(Query(key, reads))
ApplyYaml(key, reads) ==
    Works(Mutation(reads, {Every(key), Every(<<"k8s-namespaces-stats">>),
                           Every(<<"k8s-object-revisions">>)}))
DeleteObject(key, reads) ==
    Works(Mutation(reads, {Every(key), Every(<<"k8s-namespaces-stats">>)}))
ExpandVolume(key, reads) ==
    Works(Mutation(reads, {Every(key), Every(<<"k8s-namespaces-stats">>)}))
ListTable(q) == Reloadable(q)
ListGraphicDialog(m) == RowControl(m)
ListYamlDialog(m) == Control(m)
ExpandDialog(m) == RowControl(m)
DeleteObjectDialog(m) == RowControl(m)
ClusterK8sListPage(key, reads) ==
    Page({ListTable(ListQ(key, reads))},
         {ListGraphicDialog(ApplyYaml(key, reads)), ListYamlDialog(ApplyYaml(key, reads)),
          ExpandDialog(ExpandVolume(key, reads)), DeleteObjectDialog(DeleteObject(key, reads))})

-----------------------------------------------------------------------------
\* pages/cluster/ClusterWorkloadPages.tsx

WorkloadLists ==
    {ClusterK8sListPage(<<"k8s-deployments">>, {"k8s.workloads"}),
     ClusterK8sListPage(<<"k8s-statefulsets">>, {"k8s.workloads"}),
     ClusterK8sListPage(<<"k8s-daemonsets">>, {"k8s.workloads"}),
     ClusterK8sListPage(<<"k8s-pvcs">>, {"k8s.pvcs"}),
     ClusterK8sListPage(<<"k8s-configmaps">>, {"k8s.configmaps"}),
     ClusterK8sListPage(<<"k8s-secrets">>, {"k8s.secrets"})}

-----------------------------------------------------------------------------
\* pages/cluster/K8sRelationsCard.tsx

RelatedQ == Each(Query(<<"k8s-resource-relations">>, {"k8s.relations"}))

-----------------------------------------------------------------------------
\* pages/cluster/ClusterPodDetail.tsx

PodQ == Each(Query(<<"k8s-pod">>, {"k8s.pod"}))
PodMetricsQ == Copied(Each(Polled(Query(<<"k8s-pods-metrics">>, {"k8s.metrics"}))))
\* The page leaves the pod it has deleted.
DeletePod ==
    Works(Leaves(Mutation({"k8s.pod", "k8s.pods", "k8s.summary", "k8s.relations"},
                          {Every(<<"k8s-pods">>), Every(<<"k8s-summary">>)}),
                 {"k8s.pod", "k8s.relations"}))
ContainerUsage == View(PodMetricsQ)
ContainerActions == View(PodQ)
PodHead == View(PodQ)
PodContainers == View(PodMetricsQ)
PodRelations == View(RelatedQ)
PodVolumes == View(PodQ)
DeletePodDialog == RowControl(DeletePod)
ClusterPodDetail ==
    Page({ContainerUsage, ContainerActions, PodHead, PodContainers, PodRelations, PodVolumes},
         {DeletePodDialog})

-----------------------------------------------------------------------------
\* pages/cluster/PodListBlock.tsx

PodsQ == Each(Query(<<"k8s-pods">>, {"k8s.pods"}))
PodsMetricsQ == Copied(Each(Polled(Query(<<"k8s-pods-metrics">>, {"k8s.metrics"}))))
ApplyPodYaml ==
    Works(Mutation({"k8s.pods"}, {Every(<<"k8s-pods">>), Every(<<"k8s-namespaces-stats">>)}))
DeletePodRow ==
    Works(Mutation({"k8s.pods"}, {Every(<<"k8s-pods">>), Every(<<"k8s-namespaces-stats">>)}))
PodCard == View(PodsMetricsQ)
PodTable == Reloadable(PodsQ)
PodRows == Reloadable(PodsMetricsQ)
PodYamlDialog == Control(ApplyPodYaml)
DeletePodRowDialog == RowControl(DeletePodRow)
PodListBlock == Page({PodCard, PodTable, PodRows}, {PodYamlDialog, DeletePodRowDialog})

-----------------------------------------------------------------------------
\* pages/cluster/ClusterWorkloadDetail.tsx

WorkloadKeys == {<<"k8s-deployments">>, <<"k8s-statefulsets">>, <<"k8s-daemonsets">>}
WorkloadQ(key) == Each(Query(key, {"k8s.workloads"}))
WorkloadYamlQ == Each(Query(<<"k8s-object-yaml">>, {"k8s.workloads"}))
\* The card of related objects, which names the pods and what they mount, is not refreshed.
RestartPods(key) ==
    Works(Forgets(Mutation({"k8s.workloads", "k8s.pods", "k8s.relations"},
                           {Every(key), Every(<<"k8s-pods">>),
                            Every(<<"k8s-namespaces-stats">>), Shown(<<"k8s-object-yaml">>)}),
                  {"k8s.relations"}))
ApplyWorkload(key) ==
    Works(Forgets(Mutation({"k8s.workloads", "k8s.pods", "k8s.revisions", "k8s.relations"},
                           {Every(key), Every(<<"k8s-pods">>),
                            Every(<<"k8s-namespaces-stats">>), Shown(<<"k8s-object-yaml">>),
                            Shown(<<"k8s-object-revisions">>)}),
                  {"k8s.relations"}))
RestartButton(key) == RowControl(RestartPods(key))
WorkloadHead(key) == View(WorkloadQ(key))
WorkloadRelations == View(RelatedQ)
WorkloadYamlTab == Reloadable(WorkloadYamlQ)
WorkloadYamlButton(key) == RowControl(ApplyWorkload(key))
WorkloadGraphicDialog(key) == RowControl(ApplyWorkload(key))
WorkloadYamlDialog(key) == RowControl(ApplyWorkload(key))
ClusterWorkloadDetail(key) ==
    Page({WorkloadHead(key), WorkloadRelations, WorkloadYamlTab},
         {RestartButton(key), WorkloadYamlButton(key), WorkloadGraphicDialog(key),
          WorkloadYamlDialog(key)})

-----------------------------------------------------------------------------
\* pages/cluster/ClusterPVCFilesPage.tsx

MountsQ == Each(Query(<<"k8s-pvc-mounts">>, {"k8s.pods"}))
VolumeListQ == Each(Query(<<"k8s-pvc-list">>, {"volume.files"}))
SaveVolumeFile == Mutation({"volume.files"}, {Every(<<"k8s-pvc-list">>)})
DeleteVolumeFile == Mutation({"volume.files"}, {Every(<<"k8s-pvc-list">>)})
MakeDirectory == Mutation({"volume.files"}, {Every(<<"k8s-pvc-list">>)})
RenameFile == Mutation({"volume.files"}, {Every(<<"k8s-pvc-list">>)})
UploadVolumeFile == Mutation({"volume.files"}, {Every(<<"k8s-pvc-list">>)})
MountSelect == View(MountsQ)
VolumeTable == View(VolumeListQ)
UploadVolumeButton == Control(UploadVolumeFile)
VolumeFileDialog == RowControl(SaveVolumeFile)
MakeDirectoryDialog == Control(MakeDirectory)
RenameDialog == RowControl(RenameFile)
DeleteVolumeFileDialog == RowControl(DeleteVolumeFile)
ClusterPVCFilesPage ==
    Page({MountSelect, VolumeTable},
         {UploadVolumeButton, VolumeFileDialog, MakeDirectoryDialog, RenameDialog,
          DeleteVolumeFileDialog})

-----------------------------------------------------------------------------
\* pages/cluster/ClusterCustomResources.tsx

CrdsQ == Query(<<"k8s-crds">>, {"k8s.crds"})
DeleteCrd == Mutation({"k8s.crds"}, {Every(<<"k8s-crds">>)})
CrdTable == View(CrdsQ)
DeleteCrdDialog == RowControl(DeleteCrd)
ClusterCustomResourceCrdList == Page({CrdTable}, {DeleteCrdDialog})
InstancesQ == Each(Query(<<"k8s-cr-instances">>, {"k8s.crs"}))
CreateInstance == Mutation({"k8s.crs"}, {Shown(<<"k8s-cr-instances">>)})
InstanceTable == View(InstancesQ)
CreateInstanceDialog == Control(CreateInstance)
ClusterCustomResourceInstances == Page({InstanceTable}, {CreateInstanceDialog})
InstanceQ == Each(Query(<<"k8s-cr-one">>, {"k8s.cr"}))
SaveInstance == Mutation({"k8s.cr"}, {Shown(<<"k8s-cr-one">>)})
DeleteInstance ==
    Leaves(Mutation({"k8s.cr", "k8s.crs"}, {Shown(<<"k8s-cr-instances">>)}), {"k8s.cr"})
InstanceEditor == RowControl(SaveInstance)
InstanceRelated == View(InstanceQ)
InstanceJson == View(InstanceQ)
DeleteInstanceDialog == RowControl(DeleteInstance)
ClusterCustomResourceDetail ==
    Page({InstanceRelated, InstanceJson}, {InstanceEditor, DeleteInstanceDialog})
Pages == {ClusterPrometheusPanel, ClusterOverviewPodsWorkloadPanel, ClusterK8sAddonsSection,
          ClusterK8sKubePrometheusStackSection, ClusterPodDetail, PodListBlock, ClusterPVCFilesPage,
          ClusterCustomResourceCrdList, ClusterCustomResourceInstances, ClusterCustomResourceDetail}
         \cup WorkloadLists \cup {ClusterWorkloadDetail(key) : key \in WorkloadKeys}

=============================================================================
