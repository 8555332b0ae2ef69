------------------------------- MODULE UiDns -------------------------------
(***************************************************************************)
(* The DNS pages (src/react/src/pages/dns): accounts at providers,         *)
(* domains, records, certificates, failover and scheduled tasks.  Lists    *)
(* also show what their rows refer to: a domain its account, a task its    *)
(* domain.                                                                 *)
(***************************************************************************)
EXTENDS Ui

-----------------------------------------------------------------------------
\* pages/dns/DnsAccounts.tsx

AccountsQ == Query(<<"dns-accounts">>, {"dns.accounts"})
\* Faulty: the list is not refreshed.
SaveAccountQuietly == Mutation({"dns.accounts"}, {})
SaveAccount == Mutation({"dns.accounts"}, {Every(<<"dns-accounts">>)})
DeleteAccount == Mutation({"dns.accounts"}, {Every(<<"dns-accounts">>)})
TestAccount == Mutation({}, {})
SyncDomains == Mutation({"dns.domains"}, {Every(<<"dns-domains">>)})
AccountTable == Reloadable(AccountsQ)
AccountDialog == Control(SaveAccount)
DeleteAccountDialog == RowControl(DeleteAccount)
DnsAccounts ==
    Page({AccountTable}, {AccountDialog, DeleteAccountDialog, RowControl(TestAccount),
      RowControl(SyncDomains)})

-----------------------------------------------------------------------------
\* pages/dns/DnsDomains.tsx

DomainsQ == Query(<<"dns-domains">>, {"dns.domains", "dns.accounts"})
SaveDomain == Mutation({"dns.domains"}, {Every(<<"dns-domains">>)})
\* The server deletes the records of the domain first.
DeleteDomain == Mutation({"dns.domains", "dns.records"}, {Every(<<"dns-domains">>)})
SyncRecords == Mutation({"dns.records"}, {Target(<<"dns-records">>)})
\* Account after account: what fails is skipped, and the list is refreshed once at the end.
SyncAllDomains == Mutation({"dns.domains"}, {Every(<<"dns-domains">>)})
DomainTable == Reloadable(DomainsQ)
AccountNames == View(AccountsQ)
DomainDialog == Control(SaveDomain)
DeleteDomainDialog == RowControl(DeleteDomain)
DnsDomains ==
    Page({DomainTable, AccountNames}, {DomainDialog, DeleteDomainDialog,
      RowControl(SyncRecords), Control(SyncAllDomains)})

-----------------------------------------------------------------------------
\* pages/dns/DnsRecords.tsx

\* The key of the records ends with the selected domain, and so do the refreshes: a domain
\* selected while a request is pending is refreshed in place of the one it was sent for.
RecordsQ == Each(Query(<<"dns-records">>, {"dns.records"}))
PullRecords == Mutation({"dns.records"}, {Shown(<<"dns-records">>)})
SaveRecord == Mutation({"dns.records"}, {Shown(<<"dns-records">>)})
DeleteRecord == Mutation({"dns.records"}, {Shown(<<"dns-records">>)})
ToggleRecord == Mutation({"dns.records"}, {Shown(<<"dns-records">>)})
\* The header: the buttons need a selected domain, not its records.
PullControl == Control(PullRecords)
DomainSelect == View(DomainsQ)
RecordTable == View(RecordsQ)
RecordDialog == Control(SaveRecord)
DeleteRecordDialog == RowControl(DeleteRecord)
DnsRecords ==
    Page({RecordTable, DomainSelect}, {RecordDialog, DeleteRecordDialog, PullControl,
      RowControl(ToggleRecord)})

-----------------------------------------------------------------------------
\* pages/dns/DnsCerts.tsx

CertsQ == Query(<<"dns-certs">>, {"dns.certs"})
SaveCert == Mutation({"dns.certs"}, {Every(<<"dns-certs">>)})
DeleteCert == Mutation({"dns.certs"}, {Every(<<"dns-certs">>)})
PatchBaota == Mutation({"dns.certs"}, {Every(<<"dns-certs">>)})
\* Deploys the certificate on the Baota site, and leaves the order as it is.
PushBaota == Mutation({}, {Every(<<"dns-certs">>)})
\* Marks the order as applied for; nothing is issued yet.
ApplyCert == Mutation({"dns.certs"}, {Every(<<"dns-certs">>)})
CertTable == Reloadable(CertsQ)
CertDialog == Control(SaveCert)
BaotaDialog == {RowControl(PatchBaota), RowControl(PushBaota)}
DeleteCertDialog == RowControl(DeleteCert)
DnsCerts ==
    Page({CertTable}, BaotaDialog \cup {CertDialog, DeleteCertDialog, RowControl(ApplyCert)})

-----------------------------------------------------------------------------
\* pages/dns/DnsFailover.tsx

FailoverQ == Query(<<"dns-failover">>, {"dns.failover", "dns.domains"})
FailoverLogsQ == Each(Query(<<"dns-failover-logs">>, {"dns.failover.logs"}))
SaveFailover == Mutation({"dns.failover"}, {Every(<<"dns-failover">>)})
DeleteFailover == Mutation({"dns.failover"}, {Every(<<"dns-failover">>)})
\* A check writes the state of the task and a log; the open panel of logs is not loaded again.
CheckFailover ==
    Forgets(Mutation({"dns.failover", "dns.failover.logs"}, {Every(<<"dns-failover">>)}),
            {"dns.failover.logs"})
FailoverTable == Reloadable(FailoverQ)
FailoverLogs == View(FailoverLogsQ)
FailoverDialog == Control(SaveFailover)
DeleteFailoverDialog == RowControl(DeleteFailover)
DnsFailover ==
    Page({FailoverTable, FailoverLogs, View(DomainsQ)}, {FailoverDialog,
      DeleteFailoverDialog, RowControl(CheckFailover)})

-----------------------------------------------------------------------------
\* pages/dns/DnsScheduled.tsx

ScheduledQ == Query(<<"dns-scheduled">>, {"dns.scheduled", "dns.domains"})
SaveScheduled == Mutation({"dns.scheduled"}, {Every(<<"dns-scheduled">>)})
DeleteScheduled == Mutation({"dns.scheduled"}, {Every(<<"dns-scheduled">>)})
ScheduledTable == Reloadable(ScheduledQ)
ScheduledDialog == Control(SaveScheduled)
DeleteScheduledDialog == RowControl(DeleteScheduled)
DnsScheduled == Page({ScheduledTable, View(DomainsQ)}, {ScheduledDialog, DeleteScheduledDialog})

-----------------------------------------------------------------------------
\* pages/dns/DnsDashboard.tsx

\* The counts of every table.
DnsStatusQ ==
    Query(<<"dns-status">>, {"dns.accounts", "dns.domains", "dns.records", "dns.failover",
                             "dns.scheduled", "dns.certs"})
DnsDashboard == Page({View(DnsStatusQ)}, {})

-----------------------------------------------------------------------------
\* pages/dns/DnsLayout.tsx

Pages == {DnsAccounts, DnsDomains, DnsRecords, DnsCerts, DnsFailover, DnsScheduled, DnsDashboard}

=============================================================================
