------------------------------ MODULE UiAdmin ------------------------------
(***************************************************************************)
(* The pages of the administrator: platform users, the audit log and       *)
(* statistics of the site, the attachments of the documents, and the       *)
(* registry (Harbor).                                                      *)
(***************************************************************************)
EXTENDS Ui

-----------------------------------------------------------------------------
\* pages/account/PlatformUsers.tsx

UsersQ == Query(<<"admin-users">>, {"users"})
SaveUser == Mutation({"users"}, {Every(<<"admin-users">>)})
DeleteUser == Mutation({"users"}, {Every(<<"admin-users">>)})
ProvisionTotp == Mutation({"users"}, {Every(<<"admin-users">>)})
DisableTotp == Mutation({"users"}, {Every(<<"admin-users">>)})
UnbindOidc == Mutation({"users"}, {Every(<<"admin-users">>)})
UsersHead == View(UsersQ)
UserTable == View(UsersQ)
UserDialog == Control(SaveUser)
ProvisionTotpDialog == RowControl(ProvisionTotp)
DisableTotpDialog == RowControl(DisableTotp)
UnbindOidcDialog == RowControl(UnbindOidc)
DeleteUserDialog == RowControl(DeleteUser)
PlatformUsers ==
    Page({UsersHead, UserTable},
         {UserDialog, ProvisionTotpDialog, DisableTotpDialog, UnbindOidcDialog, DeleteUserDialog})

-----------------------------------------------------------------------------
\* pages/account/PlatformAudit.tsx

AuditLogQ == Query(<<"audit-logs-full">>, {"audit"})
AuditSummaryQ == Query(<<"audit-summary">>, {"audit"})
AuditHead == View(AuditSummaryQ)
AuditTable == View(AuditLogQ)
PlatformAudit == Page({AuditHead, AuditTable}, {})

-----------------------------------------------------------------------------
\* pages/account/SiteStats.tsx

SiteStatsQ == Query(<<"audit-site-stats">>, {"audit"})
HarborDashboardQ == Query(<<"audit-harbor-dashboard">>, {"audit"})
SiteCards == View(SiteStatsQ)
HarborCards == View(HarborDashboardQ)
SiteStats == Page({SiteCards, HarborCards}, {})

-----------------------------------------------------------------------------
\* pages/docs/DocsMedia.tsx

MediaQ == Query(<<"docs-media">>, {"docs.media"})
StorageQ == Query(<<"docs-attachment-storage">>, {"docs.storage"})
SaveStorage == Mutation({"docs.storage"}, {Every(<<"docs-attachment-storage">>)})
TestStorage == Mutation({}, {})
ClearStorage == Mutation({"docs.storage"}, {Every(<<"docs-attachment-storage">>)})
DeleteMedia == Mutation({"docs.media"}, {Every(<<"docs-media">>)})
UploadMedia == Mutation({"docs.media"}, {Every(<<"docs-media">>)})
StorageFields == View(StorageQ)
StorageCard == View(StorageQ)
StorageButtons ==
    {Control(SaveStorage), Control(TestStorage), Control(ClearStorage)}
\* Files that are dropped while others are being sent are sent beside them.
UploadCard == Control(UploadMedia)
MediaTable == View(MediaQ)
DocsMedia ==
    Page({StorageFields, StorageCard, MediaTable},
         StorageButtons \cup {UploadCard, RowControl(DeleteMedia)})

-----------------------------------------------------------------------------
\* pages/harbor/HarborProjectsPage.tsx

HarborStatusQ == Copied(Query(<<"harbor-status">>, {"settings"}))
HarborIndexQ == Query(<<"harbor-index-status">>, {"harbor.index"})
HarborProjectsQ == Deaf(Each(Query(<<"harbor-projects">>, {"harbor.projects"})))
HarborStatisticsQ == Copied(Query(<<"harbor-statistics">>, {"harbor.statistics"}))
HarborHead == View(HarborStatisticsQ)
HarborIndexNote == View(HarborIndexQ)
HarborProjects == Reloadable(HarborProjectsQ)
HarborProjectsPage ==
    Page({HarborHead, HarborIndexNote, HarborProjects, View(HarborStatusQ)}, {})

-----------------------------------------------------------------------------
\* pages/harbor/HarborArtifactsPage.tsx

ArtifactsQ == Each(Query(<<"harbor-artifacts">>, {"harbor.artifacts"}))
BuildHistoryQ == Each(Query(<<"harbor-artifact-build-history">>, {}))
DeleteArtifact ==
    Mutation({"harbor.artifacts"}, {Shown(<<"harbor-artifacts">>), Shown(<<"harbor-repos">>)})
BuildHistory == View(BuildHistoryQ)
ArtifactTable == View(ArtifactsQ)
DeleteArtifactButton == RowControl(DeleteArtifact)
HarborArtifactsPage == Page({BuildHistory, ArtifactTable}, {DeleteArtifactButton})

Pages == {PlatformUsers, PlatformAudit, SiteStats, DocsMedia, HarborProjectsPage,
          HarborArtifactsPage}

=============================================================================
