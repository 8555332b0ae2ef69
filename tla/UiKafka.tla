------------------------------ MODULE UiKafka ------------------------------
(***************************************************************************)
(* The Kafka pages of the application centre: instances, their topics,     *)
(* consumers, access rules, users, load tests and throttling.              *)
(***************************************************************************)
EXTENDS Ui

-----------------------------------------------------------------------------
\* pages/AppCenterKafka.tsx

KafkaStatusQ == Query(<<"app-center-kafka-status">>, {"mysql"})
NamespacesQ == Query(<<"kafka-deploy-namespaces">>, {"k8s.namespaces"})
TemplatesQ == Query(<<"app-center-kafka-templates">>, {"kafka.templates"})
InstancesQ == Query(<<"app-center-kafka-instances">>, {"kafka.instances"})
RolloutQ == Each(Polled(Query(<<"kafka-rollout">>, {"kafka.pods"})))
ExposureQ == Each(Query(<<"kafka-exposure">>, {"kafka.exposure"}))
TopicsQ == Each(Query(<<"kafka-topics">>, {"kafka.topics"}))
GroupsQ == Each(Query(<<"kafka-groups">>, {"kafka.groups"}))
AclsQ == Each(Query(<<"kafka-acls">>, {"kafka.acls"}))
QuotasQ == Each(Query(<<"kafka-quotas">>, {"kafka.quotas"}))
ClusterQ == Each(Query(<<"kafka-cluster">>, {"kafka.brokers"}))
TopicCfgQ == Each(Query(<<"kafka-topic-cfg">>, {"kafka.topic.config"}))
GroupLagQ == Each(Query(<<"kafka-group-lag">>, {"kafka.groups"}))
PerfJobsQ == Each(Polled(Query(<<"kafka-perf-jobs">>, {"kafka.perf"})))
PerfReportQ == Each(PolledWhileBusy(Query(<<"kafka-perf-report">>, {"kafka.perf"})))
SetExposure ==
    Mutation({"kafka.exposure", "kafka.pods", "kafka.brokers"},
             {Shown(<<"kafka-exposure">>), Shown(<<"kafka-rollout">>),
              Shown(<<"kafka-cluster">>)})
ValidatePerf == Mutation({}, {})
StartPerf ==
    Works(Mutation({"kafka.perf"},
                   {Target(<<"kafka-perf-report">>), Shown(<<"kafka-perf-jobs">>)}))
DeletePerf ==
    Mutation({"kafka.perf"}, {Shown(<<"kafka-perf-report">>), Shown(<<"kafka-perf-jobs">>)})
Deploy ==
    Works(Mutation({"kafka.instances"},
                   {Every(<<"app-center-kafka-instances">>), Target(<<"kafka-rollout">>)}))
SaveTemplate == Mutation({"kafka.templates"}, {Every(<<"app-center-kafka-templates">>)})
DeleteTemplate == Mutation({"kafka.templates"}, {Every(<<"app-center-kafka-templates">>)})
CreateTopic == Mutation({"kafka.topics"}, {Shown(<<"kafka-topics">>)})
DeleteTopic == Mutation({"kafka.topics"}, {Shown(<<"kafka-topics">>)})
\* One request per rule, then the quota: the first that fails ends it.
GrantAcls ==
    Mutation({"kafka.acls", "kafka.quotas"}, {Shown(<<"kafka-acls">>),
      Shown(<<"kafka-quotas">>)})
DeleteAcls == Mutation({"kafka.acls"}, {Shown(<<"kafka-acls">>)})
SaveUser == Mutation({"kafka.users"}, {})
DeleteUser == Mutation({"kafka.users"}, {})
DeleteInstance == Mutation({"kafka.instances"}, {Every(<<"app-center-kafka-instances">>)})
PatchTopicCfg == Mutation({"kafka.topic.config"}, {Shown(<<"kafka-topic-cfg">>)})
Produce == Mutation({"kafka.messages"}, {})
Browse == Mutation({}, {})
RolloutCard == Reloadable(RolloutQ)
ClusterTab == Reloadable(ClusterQ)
ExposureTab == Reloadable(ExposureQ)
ExposureForm == RowControl(SetExposure)
ExposureEndpoints == View(ExposureQ)
TopicsTab == Reloadable(TopicsQ)
TopicConfig == Reloadable(TopicCfgQ)
TopicConfigForm == RowControl(PatchTopicCfg)
ProduceForm == RowControl(Produce)
BrowseForm == RowControl(Browse)
PerfJobsTable == Reloadable(PerfJobsQ)
PerfForm == RowControl(StartPerf)
DeletePerfButton == RowControl(DeletePerf)
PerfReport == Reloadable(PerfReportQ)
ConsumersTab == Reloadable(GroupsQ)
GroupLag == Reloadable(GroupLagQ)
AclForm == RowControl(GrantAcls)
DeleteAclsButton == RowControl(DeleteAcls)
AclTable == Reloadable(AclsQ)
UserForm == RowControl(SaveUser)
DeleteUserButton == RowControl(DeleteUser)
UserQuota == Reloadable(QuotasQ)
UserAcls == Reloadable(AclsQ)
KafkaInstancePage ==
    Page({RolloutCard, ClusterTab, ExposureTab, ExposureEndpoints, TopicsTab, TopicConfig,
          PerfJobsTable, PerfReport, ConsumersTab, GroupLag, AclTable, UserQuota, UserAcls},
         {ExposureForm, Control(CreateTopic), RowControl(DeleteTopic),
          TopicConfigForm, ProduceForm, BrowseForm, RowControl(ValidatePerf), PerfForm,
          DeletePerfButton, AclForm, DeleteAclsButton, UserForm, DeleteUserButton})
InstanceTable == View(InstancesQ)
DeployForm == RowControl(Deploy)
TemplateTable == View(TemplatesQ)
DeleteInstanceDialog == RowControl(DeleteInstance)
TemplateDialog == Control(SaveTemplate)
KafkaListPage ==
    Page({InstanceTable, TemplateTable, View(NamespacesQ), View(KafkaStatusQ)},
         {DeployForm, DeleteInstanceDialog, TemplateDialog, RowControl(DeleteTemplate)})

-----------------------------------------------------------------------------
\* pages/AppCenterKafkaThrottle.tsx

ThrottleRolloutQ == Each(Polled(Query(<<"kafka-rollout">>, {"kafka.pods"})))
ThrottleQ == Deaf(Each(Query(<<"kafka-topic-throttle">>, {"kafka.throttle"})))
\* A limit is sent and then read back, up to six times, before it counts as set.
SetThrottle == Mutation({"kafka.throttle"}, {Shown(<<"kafka-topic-throttle">>)})
SetQuota == Mutation({"kafka.quotas"}, {Shown(<<"kafka-quotas">>)})
CheckThrottle == Mutation({}, {})
CheckQuotas == Mutation({}, {Shown(<<"kafka-quotas">>)})
ThrottleForm == RowControl(SetThrottle)
ThrottleCard == Reloadable(ThrottleQ)
QuotaForm == RowControl(SetQuota)
QuotaTable == Reloadable(QuotasQ)
KafkaThrottlePage ==
    Page({ThrottleCard, QuotaTable, View(ThrottleRolloutQ), View(TopicsQ), View(InstancesQ)},
         {ThrottleForm, QuotaForm, RowControl(CheckThrottle), RowControl(CheckQuotas)})
Pages == {KafkaInstancePage, KafkaListPage, KafkaThrottlePage}

=============================================================================
