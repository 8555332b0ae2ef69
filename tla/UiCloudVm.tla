----------------------------- MODULE UiCloudVm -----------------------------
(***************************************************************************)
(* The cloud host and OpenSearch pages of the application centre, and its  *)
(* dashboard.                                                              *)
(***************************************************************************)
EXTENDS Ui

-----------------------------------------------------------------------------
\* pages/AppCenterCloudVm.tsx

VmBootstrapQ == Query(<<"app-center-cloud-vm-bootstrap">>, {"vm.images"})
VmInstancesQ == Query(<<"app-center-cloud-vm-instances">>, {"vm.instances"})
VmUsageQ == Polled(Query(<<"app-center-cloud-vm-usage">>, {"vm.usage"}))
CreateVm ==
    Works(Mutation({"vm.instances"}, {Every(<<"app-center-cloud-vm-instances">>)}))
VmUsageCell == View(VmUsageQ)
VmTable == View(VmInstancesQ)
CreateVmForm == Control(CreateVm)
VmImages == View(VmBootstrapQ)
AppCenterCloudVm == Page({VmUsageCell, VmTable, VmImages}, {CreateVmForm})

-----------------------------------------------------------------------------
\* pages/AppCenterCloudVmDetail.tsx

\* Every 2.5 seconds until the host is ready, every 20 after that.
VmQ == Each(Polled(Query(<<"app-center-cloud-vm-instance">>, {"vm.config", "vm.pods"})))
VmMetricsQ == Each(Polled(Query(<<"app-center-cloud-vm-metrics">>, {"vm.usage"})))
VmCpuQ == Each(Polled(Query(<<"cloud-vm-prom-cpu">>, {"vm.usage"})))
VmMemoryQ == Each(Polled(Query(<<"cloud-vm-prom-mem">>, {"vm.usage"})))
VmReceivedQ == Each(Polled(Query(<<"cloud-vm-prom-rx">>, {"vm.usage"})))
VmSentQ == Each(Polled(Query(<<"cloud-vm-prom-tx">>, {"vm.usage"})))
SaveVm == Works(Mutation({"vm.config", "vm.pods"}, {Shown(<<"app-center-cloud-vm-instance">>)}))
RevealClient == Mutation({}, {})
SyncPassword == Mutation({"vm.config"}, {Shown(<<"app-center-cloud-vm-instance">>)})
ScaleVm ==
    Works(Mutation({"vm.config", "vm.pods", "vm.instances"},
                   {Shown(<<"app-center-cloud-vm-instance">>),
                    Every(<<"app-center-cloud-vm-instances">>)}))
ResetPassword == Mutation({"vm.config"}, {Shown(<<"app-center-cloud-vm-instance">>)})
\* The list of hosts, to which the page goes back, is not refreshed.
DeleteVm ==
    Leaves(Mutation({"vm.instances", "vm.config", "vm.pods"}, {}), {"vm.config", "vm.pods"})
DeployProgress == Reloadable(VmQ)
VmSpec == View(VmMetricsQ)
InitForm == RowControl(SaveVm)
PasswordForm == RowControl(SyncPassword)
RevealDialog == RowControl(RevealClient)
\* Its fields are filled again whenever the polled host has changed while it is open.
ScaleDialog == RowControl(ScaleVm)
DeleteVmDialog == RowControl(DeleteVm)
ResetDialog == RowControl(ResetPassword)
AppCenterCloudVmDetail ==
    Page({DeployProgress, VmSpec, View(VmCpuQ), View(VmMemoryQ), View(VmReceivedQ), View(VmSentQ)},
         {InitForm, PasswordForm, RevealDialog, ScaleDialog, DeleteVmDialog, ResetDialog})

-----------------------------------------------------------------------------
\* pages/AppCenterCloudVmBootstrap.tsx

AccessNodesQ == Query(<<"app-center-cloud-vm-access-nodes">>, {"k8s.nodes"})
SaveVmImages == Mutation({"vm.images"}, {Every(<<"app-center-cloud-vm-bootstrap">>)})
VmImagesForm == RowControl(SaveVmImages)
VmImageRows == View(VmBootstrapQ)
AppCenterCloudVmBootstrap == Page({VmImageRows, View(AccessNodesQ)}, {VmImagesForm})

-----------------------------------------------------------------------------
\* pages/AppCenterOpenSearch.tsx

SearchStatusQ == Query(<<"app-center-opensearch-status">>, {"mysql"})
SearchTemplatesQ == Query(<<"app-center-opensearch-templates">>, {"search.templates"})
SearchInstancesQ == Query(<<"app-center-opensearch-instances">>, {"search.instances"})
SearchHealthQ == Each(Query(<<"opensearch-cluster-health">>, {"search.health"}))
IndicesQ == Each(Query(<<"opensearch-indices">>, {"search.indices"}))
IndexQ == Each(Query(<<"opensearch-index-detail">>, {"search.index"}))
PutSettings ==
    Mutation({"search.index", "search.indices"},
             {Shown(<<"opensearch-index-detail">>), Shown(<<"opensearch-indices">>)})
\* The detail of an index is closed, not loaded again.
DeleteIndex ==
    Leaves(Mutation({"search.index", "search.indices"}, {Shown(<<"opensearch-indices">>)}),
           {"search.index"})
PruneIndices == Mutation({"search.indices"}, {Shown(<<"opensearch-indices">>)})
DeploySearch ==
    Works(Mutation({"search.instances"}, {Every(<<"app-center-opensearch-instances">>)}))
SaveSearchTemplate ==
    Mutation({"search.templates"}, {Every(<<"app-center-opensearch-templates">>)})
DeleteSearchTemplate ==
    Mutation({"search.templates"}, {Every(<<"app-center-opensearch-templates">>)})
DeploySearchForm == RowControl(DeploySearch)
SearchTemplateTable == View(SearchTemplatesQ)
SearchInstanceTable == View(SearchInstancesQ)
SearchHealth == Reloadable(SearchHealthQ)
IndexTable == Reloadable(IndicesQ)
PruneForm == RowControl(PruneIndices)
IndexDetail == View(IndexQ)
IndexSettings == RowControl(PutSettings)
DeleteIndexDialog == RowControl(DeleteIndex)
SearchTemplateDialog == Control(SaveSearchTemplate)
DeleteSearchTemplateDialog == RowControl(DeleteSearchTemplate)
AppCenterOpenSearch ==
    Page({SearchTemplateTable, SearchInstanceTable, SearchHealth, IndexTable, IndexDetail,
          View(SearchStatusQ)},
         {DeploySearchForm, PruneForm, IndexSettings, DeleteIndexDialog, SearchTemplateDialog,
          DeleteSearchTemplateDialog})

-----------------------------------------------------------------------------
\* pages/AppCenterDashboard.tsx

RedisStatusQ == Query(<<"app-center-redis-status">>, {"mysql"})
RedisCountQ == Query(<<"app-center-redis-instances">>, {"redis.instances"})
OpenClawCountQ == Query(<<"app-center-openclaw-instances">>, {"openclaw.instances"})
KafkaCountQ == Query(<<"app-center-kafka-instances-dash">>, {"kafka.instances"})
SearchCountQ == Query(<<"app-center-opensearch-instances-dash">>, {"search.instances"})
DnsAccountCountQ == Query(<<"app-center-dns-accounts-dash">>, {"dns.accounts"})
DnsDomainCountQ == Query(<<"app-center-dns-domains-dash">>, {"dns.domains"})
AppCenterDashboard ==
    Page({View(RedisStatusQ), View(RedisCountQ), View(VmInstancesQ), View(OpenClawCountQ),
          View(KafkaCountQ), View(SearchCountQ), View(DnsAccountCountQ), View(DnsDomainCountQ)}, {})
Pages == {AppCenterCloudVm, AppCenterCloudVmDetail, AppCenterCloudVmBootstrap, AppCenterOpenSearch,
          AppCenterDashboard}

=============================================================================
