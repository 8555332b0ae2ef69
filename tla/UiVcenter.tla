----------------------------- MODULE UiVcenter -----------------------------
(***************************************************************************)
(* The pages of virtual machines, their hosts, the bastion and the cloud   *)
(* hosts.                                                                  *)
(***************************************************************************)
EXTENDS Ui

-----------------------------------------------------------------------------
\* hooks/use-app-config.ts

AppConfigQ == Query(<<"app-config">>, {"settings"})

-----------------------------------------------------------------------------
\* pages/vcenter/VCenterVMDetail.tsx

VmQ == Each(Polled(Query(<<"vcenter-vm">>, {"vc.vms"})))
PortsQ == Each(Query(<<"vcenter-vm-listening-ports">>, {"vc.vm.guest"}))
\* One task at a time, whose id is the key; asked for until it has ended.
TaskQ == Each(PolledUntilDone(Query(<<"vcenter-task">>, {"vc.tasks"})))
RefreshVm == {Shown(<<"vcenter-vm">>), Every(<<"vcenter-vms">>)}
\* vCenter answers with a task, which the page then shows and loads under its own key, or
\* has finished: then the machine is fetched again at once.
SetPower ==
    {Works(Mutation({"vc.vms", "vc.tasks"}, {Target(<<"vcenter-task">>)})),
     Mutation({"vc.vms"}, RefreshVm)}
MorePower ==
    {Works(Mutation({"vc.vms", "vc.tasks"}, {Target(<<"vcenter-task">>)})),
     Mutation({"vc.vms"}, RefreshVm)}
\* Nobody's click: the answer that the task has ended has the machine fetched again.
TaskEnds == Mutation({}, RefreshVm)
SetHardware == Mutation({"vc.vms"}, RefreshVm)
ExpandDisk == Mutation({"vc.vms"}, RefreshVm)
VmSummary == View(VmQ)
PowerState == {View(VmQ), View(TaskQ)}
PowerButtons == {RowControl(m) : m \in SetPower}
PowerProgress == View(TaskQ)
HardwareDialog == RowControl(SetHardware)
MorePowerButtons == {RowControl(m) : m \in MorePower}
DiskTable == RowControl(ExpandDisk)
PortsPanel == Reloadable(PortsQ)
GuestAndNetworks == View(VmQ)
\* Outside of what is shown only with data; the button that opens it is inside.
PowerOffDialog == {Control(m) : m \in SetPower}
VCenterVMDetail ==
    Page({VmSummary, PowerProgress, PortsPanel, GuestAndNetworks} \cup PowerState,
         {HardwareDialog, DiskTable, Control(TaskEnds)} \cup PowerButtons
            \cup MorePowerButtons \cup PowerOffDialog)

-----------------------------------------------------------------------------
\* pages/vcenter/VCenterList.tsx

StatusQ == Query(<<"vcenter-status">>, {"settings"})
\* A timer of the page calls fetchQuery every 22 seconds, for which what is younger than
\* a minute is fresh enough.  Lists of vCenter are kept in Redis and repeated for two
\* minutes; a change of a machine deletes them, but an older answer may be stored after it.
VmsQ == PolledIfStale(Copied(Query(<<"vcenter-vms">>, {"vc.vms"})))
VmStreamsQ == Polled(Query(<<"vcenter-vms-ikuai-client-stream">>, {"router.metrics"}))
FilteredVms == View(VmsQ)
VmCounts == {View(VmsQ), View(StatusQ)}
VmTable == View(VmsQ)
VmRows == {View(VmsQ), View(VmStreamsQ)}
TopologyDialog == View(VmStreamsQ)
VmListConfig == View(AppConfigQ)
VCenterList ==
    Page({FilteredVms, VmTable, TopologyDialog, VmListConfig} \cup VmCounts \cup VmRows, {})

-----------------------------------------------------------------------------
\* pages/vcenter/VCenterHubDashboard.tsx

HostsQ == Copied(Query(<<"vcenter-hosts">>, {"vc.hosts"}))
HubVmsQ == Copied(Query(<<"vcenter-vms">>, {"vc.vms"}))
HubCloudQ == Query(<<"cloud-hosts">>, {"cloud.hosts"})
HostResources == View(HostsQ)
HubCards == {View(HostsQ), View(HubVmsQ), View(HubCloudQ), View(AppConfigQ)}
VCenterHubDashboard == Page({HostResources} \cup HubCards, {})

-----------------------------------------------------------------------------
\* pages/vcenter/VCenterHosts.tsx

HostListQ == Copied(Query(<<"vcenter-hosts">>, {"vc.hosts"}))
HostCard == View(HostListQ)
VCenterHosts == Page({HostCard, View(StatusQ)}, {})

-----------------------------------------------------------------------------
\* pages/vcenter/VCenterHostDetail.tsx

HostQ == Each(Query(<<"vcenter-host">>, {"vc.hosts"}))
VCenterHostDetail == Page({View(HostQ)}, {})

-----------------------------------------------------------------------------
\* pages/vcenter/VCenterConsolePanel.tsx

ConsoleQ == Each(Query(<<"vcenter-console-html">>, {"vc.vms"}))
TicketQ == Each(Query(<<"vcenter-webmks">>, {"vc.vms"}))
VCenterConsolePanel == Page({View(ConsoleQ), View(TicketQ), View(AppConfigQ)}, {})

-----------------------------------------------------------------------------
\* pages/vcenter/VCenterConnectWizard.tsx

SaveConnection ==
    Mutation({"settings", "vc.vms"},
             {Every(<<"app-config">>), Every(<<"runtime-status">>), Every(<<"vcenter-status">>),
              Every(<<"vcenter-vms">>)})
ConnectForm == Control(SaveConnection)
VCenterConnectWizard == Page({}, {ConnectForm})

-----------------------------------------------------------------------------
\* pages/vcenter/CloudHosts.tsx

CloudHostsQ == Query(<<"cloud-hosts">>, {"cloud.hosts"})
\* The key ends with the number of hosts.
CloudMetricsQ ==
    Each(Polled(Query(<<"cloud-hosts-metrics">>, {"cloud.hosts", "cloud.metrics"})))
CloudPortsQ == Each(Query(<<"cloud-host-listening-ports">>, {"cloud.host.guest"}))
SaveCloudHost ==
    Mutation({"cloud.hosts"}, {Every(<<"cloud-hosts">>), Every(<<"cloud-hosts-metrics">>)})
DeleteCloudHost ==
    Mutation({"cloud.hosts"}, {Every(<<"cloud-hosts">>), Every(<<"cloud-hosts-metrics">>)})
EditCloudHost == RowControl(SaveCloudHost)
CloudHostConfig == View(AppConfigQ)
CloudHostTable == View(CloudHostsQ)
CloudHostRows == View(CloudMetricsQ)
CloudPortsDialog == Reloadable(CloudPortsQ)
\* Opened for a new host, and by EditCloudHost for one of a row.
CloudHostDialog == Control(SaveCloudHost)
DeleteCloudHostDialog == RowControl(DeleteCloudHost)
CloudHosts ==
    Page({CloudHostTable, CloudHostRows, CloudPortsDialog, CloudHostConfig},
         {CloudHostDialog, EditCloudHost, DeleteCloudHostDialog})

-----------------------------------------------------------------------------
\* pages/vcenter/CloudHostSftpPanel.tsx

SshSettingsQ == Each(Query(<<"cloud-host-ssh-settings">>, {"cloud.hosts"}))
RemoteFilesQ == Each(Query(<<"cloud-host-sftp-list">>, {"cloud.files"}))
\* All directories of the host that is shown when the upload has succeeded.
UploadFile == Mutation({"cloud.files"}, {Shown(<<"cloud-host-sftp-list">>)})
DownloadFile == Mutation({}, {})
RemoteFileTable == View(RemoteFilesQ)
UploadButton == Control(UploadFile)
DownloadButton == RowControl(DownloadFile)
CloudHostSftpPanel ==
    Page({RemoteFileTable, View(SshSettingsQ)}, {UploadButton, DownloadButton})

-----------------------------------------------------------------------------
\* pages/vcenter/CloudHostSshPage.tsx

CloudHostSshPage == Page({View(CloudHostsQ)}, {})

-----------------------------------------------------------------------------
\* pages/vcenter/VCenterBastionAdmin.tsx

PolicyVmsQ == Copied(Query(<<"vcenter-bastion-vms-policy">>, {"vc.vms"}))
PolicyQ == Query(<<"vcenter-bastion-policy">>, {"bastion.policy"})
SavePolicy ==
    Mutation({"bastion.policy"},
             {Every(<<"vcenter-bastion-policy">>), Every(<<"vcenter-bastion-vms">>),
              Every(<<"vcenter-bastion-vms-policy">>), Every(<<"vcenter-bastion-native-ssh">>)})
\* Fills every draft of the form, each time the policy in the cache has changed.
PolicyForm == View(PolicyQ)
AclPickTargets == {View(PolicyVmsQ), View(PolicyQ)}
NativeSshDraft == View(PolicyQ)
AclDraft == AclPickTargets
AclAdvancedDraft == View(PolicyQ)
HiddenVmsDraft == {View(PolicyVmsQ), View(PolicyQ)}
ExtraHostsDraft == View(PolicyQ)
ManualGroupsDraft == {View(PolicyVmsQ), View(PolicyQ)}
RdpWebDraft == {View(PolicyVmsQ), View(PolicyQ)}
\* Also offered before the policy has loaded.
SaveButton == Control(SavePolicy)
VCenterBastionAdmin ==
    Page({PolicyForm, NativeSshDraft, AclAdvancedDraft, ExtraHostsDraft} \cup AclDraft
            \cup HiddenVmsDraft \cup ManualGroupsDraft \cup RdpWebDraft,
         {SaveButton})

-----------------------------------------------------------------------------
\* pages/vcenter/VCenterBastion.tsx

SidebarVmsQ == Query(<<"bastion-sidebar-cloud-vm">>, {"vm.instances"})
SidebarRedisQ == Query(<<"bastion-sidebar-redis">>, {"redis.instances"})
\* Every ten minutes; every five seconds while the server still looks up folders.
BastionVmsQ == Polled(Copied(Query(<<"vcenter-bastion-vms">>, {"bastion.policy", "vc.vms"})))
QuickStatsQ == Each(Polled(Query(<<"vcenter-vm-quickstats">>, {"vc.metrics"})))
NetPerfQ == Each(Polled(Query(<<"vcenter-vm-netperf">>, {"vc.metrics"})))
SidebarGroups == View(BastionVmsQ)
SelectedVm == {View(BastionVmsQ), View(QuickStatsQ)}
SelectedHost == View(BastionVmsQ)
SidebarPick == View(BastionVmsQ)
ExtraHostList == View(BastionVmsQ)
BastionShortcuts == {View(SidebarVmsQ), View(SidebarRedisQ)}
VmGroupList == View(BastionVmsQ)
TerminalPanes == View(BastionVmsQ)
InsightPanel == {View(QuickStatsQ), View(NetPerfQ)}
VCenterBastion ==
    Page({SidebarGroups, SelectedHost, SidebarPick, ExtraHostList, VmGroupList, TerminalPanes,
          View(AppConfigQ)}
            \cup SelectedVm \cup BastionShortcuts \cup InsightPanel, {})

-----------------------------------------------------------------------------
\* pages/bastion/BastionConsoleHome.tsx

ConsoleVmsQ == Copied(Query(<<"bastion-console-vms">>, {"bastion.policy", "vc.vms"}))
ConsoleHostsQ == Copied(Query(<<"bastion-console-hosts">>, {"vc.hosts"}))
ConsoleCloudVmQ == Query(<<"bastion-console-cloud-vm">>, {"vm.instances"})
ConsoleRedisQ == Query(<<"bastion-console-redis">>, {"redis.instances"})
NativeSshQ == Query(<<"vcenter-bastion-native-ssh">>, {"bastion.policy"})
NativeSshCard == View(NativeSshQ)
ConsoleCards ==
    {View(ConsoleVmsQ), View(ConsoleHostsQ), View(ConsoleCloudVmQ), View(ConsoleRedisQ),
     View(AppConfigQ)}
BastionConsoleHome == Page({NativeSshCard} \cup ConsoleCards, {})
Pages == {VCenterVMDetail, VCenterList, VCenterHubDashboard, VCenterHosts, VCenterHostDetail,
          VCenterConsolePanel, VCenterConnectWizard, CloudHosts, CloudHostSftpPanel,
          CloudHostSshPage, VCenterBastionAdmin, VCenterBastion, BastionConsoleHome}

=============================================================================
