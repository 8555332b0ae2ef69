---------------------------- MODULE UiOpenClaw ----------------------------
(***************************************************************************)
(* The OpenClaw pages of the application centre: the list of gateways and  *)
(* its wizard, one gateway with its files and settings, and the templates  *)
(* of the deployment modes.                                                *)
(***************************************************************************)
EXTENDS Ui

-----------------------------------------------------------------------------
\* pages/AppCenterOpenClaw.tsx

BootstrapQ == Query(<<"app-openclaw-bootstrap">>, {"openclaw.modes"})
RbacPresetsQ == Query(<<"app-openclaw-rbac-presets">>, {})
NamespacesQ == Query(<<"namespaces", "openclaw">>, {"k8s.namespaces"})
InstancesQ == Query(<<"app-openclaw-instances">>, {"openclaw.instances"})
RolloutQ == Polled(Query(<<"app-openclaw-k8s-status">>, {"openclaw.pods"}))
GatewayHealthQ == Polled(Query(<<"openclaw-gateway-service-health">>, {"openclaw.health"}))
EgressVmsQ == Query(<<"app-center-cloud-vm-instances", "openclaw-wizard">>, {"vm.instances"})
ToolchainsQ == Query(<<"openclaw-toolchain-options">>, {})
ProbeGateway == Mutation({}, {})
Deploy ==
    Works(Mutation({"openclaw.instances", "openclaw.pods"},
                   {Every(<<"app-openclaw-instances">>), Every(<<"app-openclaw-k8s-status">>),
                    Every(<<"app-center-openclaw-instances">>)}))
Precheck == Mutation({}, {})
DeleteInstance ==
    Mutation({"openclaw.instances", "openclaw.pods", "openclaw.health"},
             {Every(<<"app-openclaw-instances">>), Every(<<"app-openclaw-k8s-status">>),
              Every(<<"app-center-openclaw-instances">>),
              Every(<<"openclaw-gateway-service-health">>)})
HealthAlerts == View(GatewayHealthQ)
InstanceTable == Reloadable(InstancesQ)
RolloutCells == Reloadable(RolloutQ)
DeleteDialog == RowControl(DeleteInstance)
ProbeButton == RowControl(ProbeGateway)
ModeStep == View(BootstrapQ)
NamespaceStep == View(NamespacesQ)
ToolchainStep == View(ToolchainsQ)
EgressStep == View(EgressVmsQ)
SubmitDeploy == Control(Deploy)
PrecheckButton == Control(Precheck)
AppCenterOpenClaw ==
    Page({HealthAlerts, InstanceTable, RolloutCells, ModeStep, NamespaceStep, ToolchainStep,
          EgressStep, View(RbacPresetsQ)},
         {DeleteDialog, ProbeButton, SubmitDeploy, PrecheckButton})

-----------------------------------------------------------------------------
\* pages/AppCenterOpenClawDetail.tsx

FileQ == Each(Query(<<"app-openclaw-file">>, {"openclaw.files"}))
DetailHealthQ == Polled(Query(<<"openclaw-gateway-service-health">>, {"openclaw.health"}))
DetailVmsQ == Query(<<"app-center-cloud-vm-instances", "openclaw-detail">>, {"vm.instances"})
TelegramQ == Each(Query(<<"openclaw-telegram-settings">>, {"openclaw.telegram"}))
DetailRolloutQ == Polled(Query(<<"app-openclaw-k8s-status">>, {"openclaw.pods"}))
SaveFile == Mutation({"openclaw.files"}, {Shown(<<"app-openclaw-file">>)})
SetRbac ==
    Mutation({"openclaw.instances", "openclaw.pods"},
             {Every(<<"app-openclaw-instances">>), Every(<<"app-openclaw-k8s-status">>)})
ApplyToolchain ==
    Works(Mutation({"openclaw.instances", "openclaw.pods", "openclaw.files"},
                   {Every(<<"app-openclaw-instances">>), Every(<<"app-openclaw-k8s-status">>),
                    Shown(<<"app-openclaw-file">>),
                    Every(<<"openclaw-gateway-service-health">>)}))
ApplyRuntime ==
    Works(Mutation({"openclaw.instances", "openclaw.pods"},
                   {Every(<<"app-openclaw-instances">>), Every(<<"app-openclaw-k8s-status">>),
                    Every(<<"openclaw-gateway-service-health">>)}))
CheckUpstream == Mutation({}, {Every(<<"app-openclaw-instances">>)})
SetEgress == Mutation({"openclaw.instances"}, {Every(<<"app-openclaw-instances">>)})
CheckGoogle ==
    Mutation({"openclaw.telegram"},
             {Shown(<<"openclaw-telegram-settings">>), Every(<<"app-openclaw-instances">>)})
SaveTelegram ==
    Mutation({"openclaw.telegram"},
             {Shown(<<"openclaw-telegram-settings">>), Every(<<"app-openclaw-instances">>)})
SetImage ==
    Works(Mutation({"openclaw.instances", "openclaw.pods"},
                   {Every(<<"app-openclaw-instances">>), Every(<<"app-openclaw-k8s-status">>)}))
VerifyTelegram == Mutation({}, {})
ApplyTelegram == Mutation({"openclaw.files"}, {Shown(<<"app-openclaw-file">>)})
FilePanel == View(FileQ)
FileEditor == RowControl(SaveFile)
HealthPanel == View(DetailHealthQ)
RbacForm == RowControl(SetRbac)
RbacSelect == View(RbacPresetsQ)
ToolchainSelect == View(ToolchainsQ)
ToolchainForm == RowControl(ApplyToolchain)
ImageForm == RowControl(SetImage)
ImageCard == View(BootstrapQ)
RuntimeDialog == RowControl(ApplyRuntime)
UpstreamButton == RowControl(CheckUpstream)
EgressSelect == View(DetailVmsQ)
EgressForm == RowControl(SetEgress)
TelegramForm == RowControl(SaveTelegram)
TelegramCard == View(TelegramQ)
AppCenterOpenClawDetail ==
    Page({FilePanel, HealthPanel, RbacSelect, ToolchainSelect, ImageCard, EgressSelect,
          TelegramCard, View(DetailRolloutQ), View(InstancesQ)},
         {FileEditor, RbacForm, ToolchainForm, ImageForm, RuntimeDialog, UpstreamButton, EgressForm,
          TelegramForm, RowControl(CheckGoogle), RowControl(VerifyTelegram),
          RowControl(ApplyTelegram)})

-----------------------------------------------------------------------------
\* pages/AppCenterOpenClawBootstrap.tsx

ImageCatalogQ == Query(<<"app-openclaw-image-catalog">>, {"openclaw.images"})
SaveCatalog == Mutation({"openclaw.images"}, {Every(<<"app-openclaw-image-catalog">>)})
SaveBootstrap == Mutation({"openclaw.modes"}, {Every(<<"app-openclaw-bootstrap">>)})
CatalogEditor == RowControl(SaveCatalog)
BootstrapForm == RowControl(SaveBootstrap)
CatalogCard == View(ImageCatalogQ)
BootstrapRows == View(BootstrapQ)
AppCenterOpenClawBootstrap == Page({CatalogCard, BootstrapRows}, {CatalogEditor, BootstrapForm})
Pages == {AppCenterOpenClaw, AppCenterOpenClawDetail, AppCenterOpenClawBootstrap}

=============================================================================
