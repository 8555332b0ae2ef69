------------------------------ MODULE UiRedis ------------------------------
(***************************************************************************)
(* The Redis pages of the application centre: instances, their data and    *)
(* clients, the deployment wizard and its templates.                       *)
(***************************************************************************)
EXTENDS Ui

-----------------------------------------------------------------------------
\* pages/AppCenterRedis.tsx

RedisNetworkQ == Each(Polled(Query(<<"app-redis-k8s-network">>, {"redis.network"})))
PingQ == Each(Polled(Query(<<"app-redis-ping">>, {"redis.health"})))
RedisStatusQ == Query(<<"app-center-redis-status">>, {"mysql"})
RedisInstancesQ == Query(<<"app-center-redis-instances">>, {"redis.instances"})
RuntimeQ == Each(Polled(Query(<<"app-redis-runtime">>, {"redis.health"})))
ClientsQ == Each(Polled(Query(<<"app-redis-clients">>, {"redis.clients"})))
RedisRolloutQ == Each(PolledWhileBusy(Query(<<"app-redis-k8s-status">>, {"redis.pods"})))
DeployTemplatesQ == Query(<<"app-center-redis-templates">>, {"redis.templates"})
StorageClassesQ == Query(<<"k8s-storage-classes">>, {"k8s.storageclasses"})
DeployNamespacesQ == Query(<<"namespaces", "k8s-redis">>, {"k8s.namespaces"})
DeleteKeys == Mutation({"redis.keys"}, {Every(<<"app-center-redis-instances">>)})
ReleaseInstance ==
    Mutation({"redis.instances"}, {Every(<<"app-center-redis-instances">>)})
\* The answer names the instance, and the rollout of its pods goes on.
DeployRedis ==
    Works(Mutation({"redis.instances", "redis.network"},
                   {Every(<<"app-center-redis-instances">>),
                    Target(<<"app-redis-k8s-network">>)}))
ManageInstance ==
    Mutation({"redis.instances"}, {Every(<<"app-center-redis-instances">>)})
NetworkSection == View(RedisNetworkQ)
PingCell == View(PingQ)
RolloutCell == View(RedisRolloutQ)
RedisTable == Reloadable(RedisInstancesQ)
ManageForm == Control(ManageInstance)
DeployWizard == Control(DeployRedis)
\* What the settings ask for fills the form again when they change.
DeployForm == DeployWizard
DeployTemplate == View(DeployTemplatesQ)
DeployNamespace == View(DeployNamespacesQ)
DeployStorage == View(StorageClassesQ)
AppCenterRedis ==
    Page({RedisTable, PingCell, RolloutCell, View(RedisStatusQ), DeployTemplate, DeployNamespace,
          DeployStorage, NetworkSection},
         {ManageForm, DeployForm})
RuntimeView == Reloadable(RuntimeQ)
ClientsView == Reloadable(ClientsQ)
DeleteKeyButton == RowControl(DeleteKeys)
ReleaseDialog == RowControl(ReleaseInstance)
RedisInstanceDetail ==
    Page({RuntimeView, ClientsView}, {DeleteKeyButton, ReleaseDialog})

-----------------------------------------------------------------------------
\* pages/AppCenterRedisTemplates.tsx

RedisTemplatesQ == Query(<<"app-center-redis-templates">>, {"redis.templates"})
SaveTemplate == Mutation({"redis.templates"}, {Every(<<"app-center-redis-templates">>)})
DeleteTemplate == Mutation({"redis.templates"}, {Every(<<"app-center-redis-templates">>)})
TemplatePicker == View(RedisTemplatesQ)
TemplateTable == View(RedisTemplatesQ)
TemplateDialog == Control(SaveTemplate)
DeleteTemplateDialog == RowControl(DeleteTemplate)
RedisTemplatesPage ==
    Page({TemplateTable, TemplatePicker}, {TemplateDialog, DeleteTemplateDialog})
Pages == {AppCenterRedis, RedisInstanceDetail, RedisTemplatesPage}

=============================================================================
