# Verification of kube-bt-sync

kube-bt-sync is one Go server (`src/main.go`, package `src/internal`) with a
React UI (`src/react`).  It publishes the Ingress objects of a Kubernetes
cluster as reverse-proxied sites of one or several Baota panels, and around that
it is an operations platform: a Kubernetes console, an application centre, a
vCenter console, alerting, a Harbor index, DNS, documents and a bastion.  The
server is deployed with one or more replicas (`charts/`, `helm/`), which share a
MySQL database and a Redis, and the file of a volume.

This directory holds TLA+ models of the parts whose correctness depends on the
order of things, their TLC configurations, and machine-checked proofs.

## 1. Inventory

| Part (source under `src/internal`) | State | Operations | Hard behaviour |
|---|---|---|---|
| Ingress to Baota sync (`baota_sync_run.go`, `baota_sync_handlers.go`, `syncer.go`, `baota.go`, `baota_delete.go`, `baota_ssl.go`, `baota_targets.go`, `annotations.go`, `handleDeleteIngress` of `web.go`) | a mutex per pod; the run's targets and results; the report in the platform KV; the panels themselves (external) | sync run (timer, "sync now"), delete an Ingress with its site, retry a delete | several pods and the timer at once, retries of calls that took effect, sites of Ingresses deleted meanwhile, crashes |
| Platform KV (`platform_kv_iface.go`, `mysql_platform.go`, `platform_kv_file.go`, `platform_kv_redis_hot.go`) | a row per key in MySQL (or an entry of a JSON file); a Redis copy for 300 s | `Get`, `Set` | the read-through fill races a write; a lost write of Redis; pods that go round Redis |
| Session nonce (`session_nonce.go`, `login_last_ip.go`, `auth.go`, `auth_totp.go`) | per user: one nonce, or a map of nonces by client address | login, logout, check of every request | read-modify-write by two logins; logout against a stale cache; trimming of the map |
| Runtime configuration and replicas (`runtime_settings.go`, `settings_runtime_handlers.go`, `server_app.go`, `runtime_cluster_sync.go`, `mysql_cluster_meta.go`, `redis_reconnect.go`, `setup_handlers.go`) | a file, its copy in MySQL, a revision number, the connections of each process | `PUT /settings/runtime`, `Reload`, the 10 s poll of the revision, the 15 s Redis reconnect | pods that miss a revision; a load-merge-save race; MySQL against file; a failed reconnection |
| Login protection (`login_throttle.go`, `login_security_store.go`) | failures and bans per address, in memory and in the KV | failed and successful login, admin release, load at start | snapshots written out of order, pods that overwrite each other |
| Accounts, TOTP, OIDC, permissions (`admin_*_handlers.go`, `dashboard_users.go`, `dashboard_permissions.go`, `permissions_redis_cache.go`, `totp_*.go`, `oidc_auth.go`, `rbac_middleware.go`) | rows of users and permissions, Redis copies | create, change, delete users; check of a request | stale permissions; the last administrator |
| Harbor image index (`harbor_index*.go`) | index payload and meta in Redis or memory, a hash | build, incremental refresh, search, worker | payload and meta written separately, a refresh skipped on equal hash |
| Alert worker (`ops_center_alert_worker.go`, `ops_center_store.go`, `ops_alertmanager_webhook.go`) | rules, state of each rule in the KV | evaluate, notify, silence, resolve | notification before the state is saved; stale read-modify-write |
| vCenter session (`vcenter_session.go`, `vcenter_*.go`) | one cached client, last use | use, keep alive, reset | a reset that meets a fresh client |
| Object revisions (`k8s_object_revision_*.go`) | a history per object in MySQL, its list cached in Redis | record, list, roll back | numbering, trimming, stale list |
| Kubernetes console (`k8s_*.go`) | none of its own: the API server's objects | read, apply, delete, restart, exec, addons | mostly calls passed on |
| Application centre (`app_*.go`, `cloud_*.go`, `openclaw_*.go`) | rows of instances; workloads in the cluster | deploy, scale, delete Redis, Kafka, OpenSearch, OpenClaw, cloud hosts | partial deployments |
| vCenter console, bastion (`vcenter_*`, `bastion_native_ssh.go`, `ssh_*`) | credentials, connections | console, SSH, SFTP | websockets |
| Documents (`docs_handlers.go`, `docs_cache.go`) | rows, tags and versions in MySQL; Redis copies of documents and lists for 120 s | create, read, list, save, restore, delete | single statements; copies stored after the answer; version numbers |
| DNS, audit, site statistics, IP scan (`dns_*`, `audit_*`, `site_stats.go`, `toolbox_ip_scan.go`) | rows of MySQL | CRUD | little |
| Pages of the console (`src/react/src/pages`, `lib`; `api_response_cache.go`) | what React Query caches in a tab, answers the server keeps in Redis; drafts of forms | fetch, poll, mutate, refresh what a success has changed | answers out of order, leaving and switching under way, entries a success does not name |
| Document editor (`src/react/src/md-editor`) | one text for the open document, its query, three kinds of mutation | open, type, save, share, restore, create, delete | answers that find another document open; text that is older than its own saves |
| Charts, scripts, vendored Excalidraw | - | - | - |

How they interact: HTTP handlers and background goroutines (started by
`src/main.go`) call each other directly inside a pod; pods share the MySQL rows,
the Redis copies, the configuration revision, the cluster and the panels, and
nothing else: no leader is elected, so a pod with background jobs enabled runs
its own timers next to any other.

Per part, what makes it correct:

- *Sync*: a pod runs one sync at a time; only what a managed Ingress asked for
  is exposed; a report is complete and claims no more than the panel serves;
  every managed host is served in the end; a deleted site stays deleted.
- *Platform KV*: a read returns a value that was written; copies differ from the
  row only for a reason and not for ever.
- *Session nonce*: a request is accepted only with a nonce that a login issued;
  logout and a newer login take hold; several addresses may be signed in at once.
- *Runtime configuration*: every pod ends up with the last saved configuration;
  a save does not lose the fields another save changed.
- *Login protection*: a ban is not forgotten; an address is not banned below
  the limit.
- *Permissions*: a revocation takes hold; one administrator remains.
- *Harbor index*: a search sees payload and meta of the same build.
- *Alerts*: a firing rule notifies, a notification is not repeated in its
  interval.
- *vCenter*: nobody is given a closed client for ever.
- *Documents*: a version that was kept stays; a reader sees what was answered
  before he asked, or a copy that is behind for a known reason and not for ever.
- *Pages*: what a success message told the user is what the page shows in the
  end; a page that polls shows how things stand.
- *Editor*: a text is saved only to the document it came from, and undoes
  nothing its user was told was saved.

`PROJECT.json` lists every component, and under `hazards` the places where this
goes wrong unnoticed by a test.

## 2. Plan

| Order | Module | Models | State |
|---|---|---|---|
| 1 | `BaotaSync` | sync, report, deletion, panels | done |
| 1 | `BaotaSyncProofs` | proofs of its five invariants, and that runs and deletions end | done |
| 2 | `PlatformKV` | `Get`/`Set` over MySQL or file with the Redis copy, reloads, backup | done |
| 2 | `PlatformKVProofs` | proofs of its four invariants, and that agreement of row and copy lasts | done |
| 3 | `SessionNonce` | login, logout, check, composed with `PlatformKV` for one user | done |
| 3 | `SessionTable` | what a user may expect of sessions; `SessionNonce` implements it when requests come one at a time | done |
| 3 | `SessionNonceProofs` | types, provenance of accepted nonces, use of the store | done |
| 3 | `SessionTableProofs` | `SessionNonce` implements `SessionTable` | done |
| 4 | `RuntimeConfig` | file, MySQL, backup, revision poll, reload, reconnect, set-up, `PUT` | done |
| 4 | `RuntimeConfigProofs` | types, saves that were answered as a success or followed by a poller are in force | done |
| 5 | `Ui`, `UiDns`, `UiKafka`, `UiRedis`, `UiOpenClaw`, `UiCloudVm`, `UiMonitor`, `UiVcenter`, `UiCluster`, `UiResources`, `UiInspect`, `UiAdmin` | the pages of the console: queries, mutations, controls, views | done |
| 5 | `QueryCache` | one entry of the tab's cache, beside any view and control of the catalogue | done |
| 5 | `QueryCacheProofs` | proofs of its safety properties, for any catalogue of pages | done |
| 6 | `DocStore` | documents in MySQL with the copies in Redis | done |
| 6 | `DocStoreProofs` | proofs of its safety invariants | done |
| 6 | `DocEditor` | the editor of one tab | done |
| 6 | `DocEditorProofs` | proofs of its three invariants | done |
| 7 | `LoginThrottle` | failures and bans, snapshots, several pods | planned |
| 8 | `OpsAlerts` | evaluation, silence, notification, saved state | planned |
| 8 | `HarborIndex` | payload, meta, hash, concurrent builds | planned |
| 9 | `VCenterSession`, `ObjectRevisions`, `Permissions` | the remaining caches | planned |
| 10 | forms | drafts of the dialogs of the console, the canvas | planned |

Abstract specifications worth stating: one session table per user
(`SessionTable`, done); a register that calls see when they come one at a time
(stated by the `Serial...` properties of `PlatformKV`); one configuration that
every pod ends up with (`RuntimeConfig`).

Runs: per module one with several actors and faults for the invariants, one
with fairness for the liveness properties, one for each disagreement between
the documents and the code.

Theorems: type correctness, the safety invariants and the action properties of
each module (done for the modules that are modelled: every property of a passing
run is proved but the eight that say what comes in the end),
that `SessionNonce` implements `SessionTable` (done), and rules for a page of the
console that hold in any catalogue (done); for `LoginThrottle`, that a ban in
memory is not shortened by what is loaded.  Proofs cannot reach liveness under
fairness: `ManagedIsServed`, `ReportComesToRest`, `CopyConverges`,
`PollersFollow`, `ToldIsShown`, `PollCatchesUp`, `JobEndIsSeen` and
`CopiesCatchUp` are only model-checked.  What can be said without fairness is
proved: `RunsEnd` and `DeletesEnd` give a number that falls with every step of a
run and of a deletion, `ConvergedStays` says that a copy which has caught up stays
so, `NotedIsInForce` that a pod which goes on to a revision runs it.

## 3. `BaotaSync`

One action per step that other actors can see or interrupt:

| Code | Actions |
|---|---|
| `StartSyncer`, `handleBaotaIngressSyncRun`: look whether the cluster is connected (and the timer is switched on), then call | `Call` |
| `RunBaotaIngressSync`: `TryLock` fails / succeeds, snapshot of the switch, report with `Running` | `Busy`, `Begin` |
| switched off or not connected; the list fails; the list | `Skip`, `ListFails`, `List` |
| the loop over the targets | `Take`, `AddSite`, `CreateProxy`, `EnsureHTTPS`, `Record` |
| `baotaPOSTWithRetry` | `Post`, `Refused`, with `Succeed` and `FailAttempt` |
| the last report, the deferred `Unlock` | `Finish`, `Release` |
| `handleDeleteIngress`, `DeleteBaotaSiteAndProxy`, `ScheduleBaotaDeleteRetry` | `DelRead`, `DelIngress`, `DelProxy`, `DelLookup`, `DelSite`, `DelFails` |
| a pod that stops | `Crash` |

Variables: `cluster` (the Ingress objects), `panel` (what each panel has for each host),
`report` (the value under the report's key), `lock` (the mutex of each pod), `enabled` and
`k8s` (the switch and the connection), the local variables of each run (`pc`, `targets`,
`domains`, `cur`, `tries`, `ok`), the delete requests (`del`), and two histories: `asked`,
what managed Ingresses ever asked for, and `misread`, the sites of which a refusal was
taken for a success. `faults`, `edits`, `crashes` count what the environment has done.

What is abstracted: an Ingress has one rule (a host, an origin, HTTPS or not, a panel);
the cluster's list comes in any order; a panel's answers are those the code tells apart
(accepted, "already exists", refused, no answer, with or without effect);
`interpretBaotaJSONBody` goes by the words of a message (`baota.go:217`), so that a
refusal for another cause may count as a success (`Post`, `Refused`), which
`ReportedOKIsServed` excepts; `enabled` and `k8s` are the same for all pods; the table of
panels does not change; a report is written to one register, the Redis copy above it and
the mirror are left to `PlatformKV`; a write of the report that fails is ignored, as in
the code. A report's summary counts domains; the model keeps the counted set instead of
its size, so that the comparison is per target and not by number.

### Runs

| Run | Question | Bounds |
|---|---|---|
| `baota_pods` | mutual exclusion, complete and truthful reports, an end of every run and deletion | two pods, three goroutines, a delete request, one HTTPS host, two attempts, two faults, one crash |
| `baota_live` | only what was asked for is exposed, on the right panel; every managed host is served in the end; the report comes to rest | one pod with its timer, a delete request, two Ingresses for one host, two panels, an annotation with an unknown panel, unmanaged Ingresses, two faults, two edits, one crash |
| `baota_orphan` | violation: a deleted site comes back | one Ingress, one delete request |

Two pods and two callers of one pod meet every conflict of the mutex (inside a
pod) and of the report (between pods); a third adds no new pair.  Two attempts
tell apart "succeeded at once", "after a retry", "given up"; the code has four
(`baotaSyncRetryDelays`), as the violation run has.  One delete request
with one retry is a deletion that overlaps a sync and a later one.  Two faults
are enough for a call to be given up, or for a lost answer and a lost KV write
together.

Deadlock is not checked: with no timer due and no user the system may stop.

The properties, and what breaks them, are stated in the module next to their
definitions.  For every property of a passing run a faulty variant of one
definition (`AnyTargets`, `BeginAnyway`, `TryOnceMore`, `GiveUpSilently`,
`TryForever`, `DelFailsAgain`, `ProxyOnDefault`, `RecordMerging`, `FinishRunning`,
`ReleaseLocked`) is kept
beside the definition, and TLC finds the property violated with it.

Fairness: the timer's goroutine is in an endless loop with a sleep, so its
`Call` is weakly fair; a started run or deletion goes on because every call it
makes has a time-out; users, "sync now", configuration changes, faults and
crashes are under no obligation.  Liveness is stated under the assumption that
the switch and the connection stay on (`Switched`); faults are finitely many.

### Disagreements with the documents

- `IngressList.tsx:129` says that the origin column shows what the Baota proxy
  uses; it is computed from the Ingress, and `baotaPOSTWithRetry` counts
  "already exists" as success, so a changed origin never reaches the panel.  It
  is seen by reading: no step of the code updates a proxy.
- `web.go:929` answers that the Ingress and its site have been deleted; a sync
  that listed the Ingress before creates the site again (`baota_orphan`).

### Proofs (`BaotaSyncProofs`)

For every value of the constants that satisfies the named assumptions of
`BaotaSync`, with no bound on pods, goroutines, Ingresses, hosts or panels:

| Theorem | Argument |
|---|---|
| `TypeCorrect` | `TypeOK` alone is not inductive: `AddSite` and the others use `cur`, which may be null. `Typed` adds `HasTarget` (a worker at a panel call has a target). |
| `RunsExclude` | mutual exclusion is inductive with the types: a worker in a run holds its pod's mutex, `Begin` needs it free, `Crash` frees it together with the pod's workers. |
| `ServedWasAsked` | `AskedInv`: the targets of every run, the current target, and what the panels serve were asked for at some time. |
| `FinishedReportsAreComplete` | `ReportInv`: the results of a run are for targets it listed (`ResultsAreListed`), so a loop that finds nothing to do has one for each. |
| `ReportedOKsAreServed` | `OKInv`: what a run has achieved for its current target, its recorded results and the published report is served unless someone asked to delete that site; `Keeps` says which steps cannot take that away. |
| `RunsComeToAnEnd` | `StepsLeft` of a run counts the targets that have no result (each with three calls of `Attempts` attempts, taking it and recording it), less what is done of the current one; each step of the run lowers it (`RunStepLeft`: `AttemptLeft`, `ListLeft`, `RecordLeft`), and no other step raises it (`OthersLeft`). `WorkInv`: a run's list is finite, and its current target has no result yet, so that `Record` removes one; a list is no longer than there are Ingresses (`ListIsBounded`). |
| `DeletesComeToAnEnd` | the same for a deletion, whose retries go back to its first call of the panel (`DelMoves`). |

The two last are action properties: they say that a run takes fewer steps than a
number that is known when it begins, whatever fails; that it takes them at all is
fairness, and stays with the run `baota_live`.  `Ingresses` is assumed finite for
it.

Only model-checked: liveness, and the violation.  The proofs use SMT, Zenon
and LS4.

## 4. `PlatformKV`

One key of the store, seen by all pods.

| Code | Actions |
|---|---|
| `platformKVRedisHot.Get`: Redis, the inner store, the fill | `BeginGet`, `Look`, `Read`, `Fill` |
| `platformKVRedisHot.Set`: the inner store, then Redis (`SET`, or `DEL` of a long value) | `BeginSet`, `Write`, `Cache` |
| the caller has its answer | `Return` |
| the 300 s of a copy | `Expire` |
| `ServerApp.Reload`: new pool, Redis, object; `wirePlatformKVRedisDualWrite` | `Reload`, `ReloadWithoutRedis`, `ReloadUnlisted`, `ReloadOnFile` |
| `TryRedisReconnect` | `Reconnect` |
| handlers that mirror the whole store (`mirrorPlatformKVSecurity` and others) | `Mirror` |
| a `Set` of another key on a pod's file, which writes the whole map | `SaveOther` |

Variables: `db` (the row), `file` (for each pod the entry in the memory of its file
object, which is what it serves and mirrors, and the one on the disk), `hot` (the
copy in Redis), `mirror` (the entry of the backup in Redis), `wiring` (which
store each pod's object has, whether the pod has Redis, whether the object has),
`call` (for each client the call it is in), and two histories: `stored`, what was
ever in a store, and `serial`, that no call failed or overlapped another.

A call keeps the object it began on: `Reload` closes the connections under it (`cut`), so
that its next access of MySQL fails, and one of Redis is as if there were no copy. A call
of MySQL or Redis that fails has either taken effect or not. A file that cannot be saved
has taken the value into memory all the same: the pod answers with it until the file is
opened anew, or another key's save writes it to the disk (`platform_kv_file.go:45`).
`ReadsWereStored` counts it as stored: what it rules out is a value whose write had no
effect. The other keys appear only in that a listing of the table is never empty;
importing `platform_kv.json` into an empty table is not modelled. Values are told apart by
what the code looks at: empty, short, longer than 1 MiB.

| Run | Question | Bounds |
|---|---|---|
| `kv_store` | is an answer ever invented; is it one register when nothing overlaps or fails; does a stale copy go away, and stay away | two pods with a client each, of which one may have been started without MySQL, a short and a long value, one failure |

Two clients on two pods meet both pairs that matter, a `Get` against a `Set` and
two `Set`s, through the same row and copy; clients of one pod differ only in
that a reload cuts the connections of both.  One failure is enough for every
action (each has its own), and for its consequences in later calls; it need not be
spent on losing MySQL, since a pod may begin on its file.  Deadlock is
not checked: the bound on failures and callers that are done may stop it.

Faulty variants: `ReadAndFill`, `WriteAnyway`, `CacheNothing`, `CacheSmall`,
`ExpireNever`, `ReconnectWarm` (a reconnection that puts the backup's entry into
the copy).  Fairness: every call of MySQL and Redis has a time-out, so a
step that was begun ends (`WF` on `Step`); Redis drops what has expired (`WF` on
`Expire`).  Callers, reloads and failures are under no obligation.

A disagreement that `ReloadUnlisted` shows: `server_app.go:65` says that the
store is restored from Redis when its snapshot is empty; `Snapshot` is also
empty when its query failed, and then the backup overwrites newer rows.

Proofs (`PlatformKVProofs`), for any number of pods, clients, values, failures:

| Theorem | Argument |
|---|---|
| `TypeCorrect` | `TypeOK` is inductive as it stands, since it says which calls carry a value |
| `ReadsAreOfStored` | `StoredInv`: the row, the copy, the backup, every file entry and every value on its way to the copy or to a caller was in a store |
| `CopyIsCurrent` | `SerialInv`: in serial use one call at most is active, its object is on MySQL with a copy, what it carries is the row, and the copy is the row except between the two writes of a `Set` |
| `GetIsCurrent` | from the same invariant, by the steps that end a `Get` |
| `AgreementLasts` | `Converged` asks more than that the copy is the row or absent: no call may be about to fill it with something else, and none may read a pod's file for it. `OpInv`: only a `Set` writes and caches. Then each step of a call (`StepConverged`) and of the environment (`EnvironmentConverged`) keeps it, as long as the row stays and every pod is on MySQL with nobody writing (`Settled`) |

`CopyConverges`, that they come to agree at all, is only model-checked.

## 5. `SessionNonce`, over `PlatformKV`

The sessions of one user.  `SessionNonce` instantiates `PlatformKV` with the
values under `sess_nonce:v1:<user>` and conjoins its own steps with the store's:
each handler (`job`) begins a call of the store, waits for its steps, and
returns.  A value is a function from addresses to nonces; an account for one
client has a single entry at `Any`, and so has a value of the older form (a bare
nonce, which `SessionNonceMatchesWithIP` and `SetSessionNonceAfterLogin` treat
alike).

| Code | Actions |
|---|---|
| `respondAfterPasswordOk` with one-time codes | `PasswordStep` |
| `finalizePasswordLoginSession`, `handleAuthLoginTotp`, the OIDC callback, up to `SetSessionNonceAfterLogin` | `LoginAlone`, `LoginBeside` |
| the merge with what was read, `trimIPNonceMap`, `setSessionNonceJSON` | `Merge`, `Save` |
| the cookie, or the error | `Issue`, `LoginFails` |
| `sessionAuthFromCookie`, `SessionNonceMatchesWithIP` | `Check`, `Verdict`, `Answered` |
| `handleAuthLogout` | `Logout`, `Verdict`, `ClearSession`, `LoggedOut` |
| an account is disabled or deleted | `Dismiss`, `LoggedOut` |

Not modelled: passwords, captchas, codes and the signature and expiry of tokens
(taken as right), the gate that refuses disabled accounts on each request, the
note of the last login address.  Which of the two kinds a login is, is read from
MySQL at that moment and may change between logins: the model lets either
happen.  A login whose write took effect but was reported as failed
(`auth.go:389`, `LoginFails`) ends the other sessions and sends no cookie.

`SessionTable` says what a user may expect: a set of logins in force; a login
ends the others, or for an account with several addresses only its own
address's; a logout ends all; a request is accepted if its login is in force.

| Run | Question | Bounds |
|---|---|---|
| `sess_serial` | requests that come one at a time see `SessionTable` (refinement: `live` is the row's entries, `reply` the answers) | two pods with a handler each, three addresses of which two fit, three nonces; addresses are symmetric |
| `sess_safe` | whatever fails, is a nonce accepted only where it was issued | one handler, two addresses of which one fits, one failure, a code that can be entered again |

The code keeps sixteen addresses (`MaxIPs`); two or one of three or two reach the
trimming.  `sess_safe` has one handler, because stale values come there from
failures, files and backups; the theorem below has no such bound.  Faulty
variants: `MergeNone`, `TrimmedLate`, `AcceptAnywhere`.  That a session which was
ended is refused in the end follows from `CopyConverges` of `PlatformKV` and is
not checked again.

Disagreements: `session_nonce.go:160` says that a logout makes the old cookie
invalid at once; row and copy are written in two steps, and the copy may end up
the older, for 300 s (`Write`, `Cache` and `Fill` of `PlatformKV` allow it).  Two
more follow from steps of the model that
`SessionTable` has to allow or that its serial runs exclude: `:89` says that
different addresses may be online side by side, but read, merge and write are
not one step, and of two logins at once one is lost; `auth.go:407` answers that
the login succeeded, but its own entry may be the one that `trimIPNonceMap`
drops.

Proofs (`SessionNonceProofs`), for any number of pods, handlers, addresses (of a
finite set), nonces and failures:

| Theorem | Argument |
|---|---|
| `UsesStore` | every step of `SessionNonce` is one of `PlatformKV` or leaves the store alone, so that its lemmas can be used for this instance |
| `TypeCorrect` | `Inv`: the types, what each request knows of its login (`Knows`), and the store's `StoredInv` |
| `AcceptedsWereIssued` | in `Inv` every entry of every value that was ever stored, or is about to be, stands for a login from that address (`Good`); what a request accepts was read, so it was stored (`StoredInv` of `PlatformKV`) |

`TableServed` of `SessionTableProofs` proves the refinement that `sess_serial`
checks, `SerialSpec => ServesTable`, for the same constants.  Its invariant is
`SerialRequests`: `Inv`, the store's `SerialInv` (the copy is the row), and for
each request `Pending`: what it has read is still the row, and what it is about
to write is the row after the sign-in (`Signs`) or empty.  The write of the row
is then the table's `SignIn` or `SignOut`, the verdict its `Respond`, and every
other step shows the table nothing.  That dropping entries of a row drops as
many logins is counted by a bijection (`AsManyLogins`).

## 6. `RuntimeConfig`

The settings of the whole program on several pods: a file in each data volume, a
row of MySQL with a revision beside it, a backup in Redis, and what each pod
runs.

| Code | Actions |
|---|---|
| `NewServerApp`, a container that is started again | `Start` |
| `ServerApp.Reload`: close the pool and read the file; the backup; the new pool; `migrateRuntimeFromFileIfMySQLEmpty`; the row; the file, when the backup or the row replaces it; Redis, the backup and the new settings | `Enter` (in `Start`, `Follow`, `Activate`), `Restore`, `Connect`, `Import`, `Load`, `Keep`, `Install` |
| `StartCrossPodRuntimeSync` | `Tick`, `Follow` |
| `StartRedisReconnectLoop`, `TryRedisReconnect` | `Reconnect` |
| `handleGetRuntimeSettings` | `Get` |
| `handlePutRuntimeSettings`, `handleSetupSave`, `PatchRuntimePrometheusK8sURL` up to the save | `Put`, `Setup`, `Patch`, `GetPool` |
| `SaveRuntimeSettingsUnified`: file, row, revision | `WriteFile`, `WriteRow`, `Bump` |
| certificate and backup, `Reload`, the answer | `Mirror`, `Activate`, `Return` |
| a pod that stops, with its volume if that is ephemeral | `Crash` |

Variables: `row`, `revision`, `backup`, `file` (of each volume); per pod
`running`, `masked`, `mysql`, `redis` (the fields of `ServerApp`), `seen` and
`poll` (`lastRev`, and the revision of the reload under way), `reload` (the one
`Reload` that holds `ServerApp.mu`, with its local variables); `job` (what each
handler does); the histories `order` (what reached the row, in which order) and
`source` (whether a pod runs the row).  Settings are told apart by their save
and by the key of the panel, which a save takes from the file unless a new one
was entered, and which `GET` replaces by `***`.

`Reload` keeps the mutex from its first line to its last: other methods of
`ServerApp` wait (`Free`), the stores and the other pods do not.  A read or a
write that fails has taken effect or not.  The settings are also a row of
`platform_kv`, so that the restoring of that table from its backup, when it
cannot be listed, puts an older row back (`Install`); which one is left open,
since every handler that stores something mirrors the table at its own time.

Not modelled: settings that change the address of MySQL or Redis (they come from
the environment here); the shared name of the temporary file; the contents of
certificates; the import of `platform_kv.json`, which may itself hold an old
row, into a table that was emptied.

| Run | Question | Bounds |
|---|---|---|
| `rc_pods` | is what was answered as saved in force, and what a poller followed | two pods with volumes of their own, both ephemeral, a handler on each, two saves, one failure or crash; the pods are symmetric, each with its handler and its volume |
| `rc_follow` | do pods follow the revision | two pods, the second with a handler and an ephemeral volume, three saves, no failure, no symmetry |

Two pods and a handler on each meet the conflicts of two saves at the row and of
a save with the `Reload` of the other pod and of its own (a poller's, after a
save elsewhere).  Two saves are the least for one to overtake the other, and for
a revision after the first; the third of `rc_follow` is one that comes while both
pollers follow the second.  Two handlers that save at once and three saves are
beyond TLC here; `NotedIsInForce` is proved for any number.  Deadlock is not
checked: saves are bounded.

Faulty variants: `TickAlways`, `WriteRowUnchecked`, `TickNoting` (the revision is
noted without a `Reload`), `LoadForEmpty`.  Fairness:
the pollers are endless loops, a `Reload` and a handler go on because every call
has a time-out, and a stopped container is started again; `Crash`, failures and
users are under no obligation, and the reconnection is not needed.
`PollersFollow` is checked without failures since one failed load of the row is
enough for a pod to stay behind.  It says that a pod comes to run the save whose
revision MySQL has, or a later one; not that it comes to run the row.  A `Reload`
closes the pool that a save on the same pod still uses, and the save of the
revision that fails then (`Bump`, whose error the code ignores) is noticed by
nobody: the row has gone on, the revision has not.  A pod that is left without a
pool by its `Reload` (`server_app.go:99`) follows nothing either.

Disagreements: `runtime_cluster_sync.go:10` says that the other pods reload after a save
so that all agree; a poller that has seen no revision yet notes the first one and loads
nothing (`Tick`), so `PollersFollow` is stated for the revisions after it; and a save
whose revision was lost to a closed pool, without any failure from outside, leaves the
other pods behind the row until the next save. `README.md:189` calls the copy in Redis a
backup; `GET` masks the list it shares with the pod (`masked`), and a reconnection writes
that out.

Proofs (`RuntimeConfigProofs`), for any number of pods, volumes, handlers, saves
and failures:

| Theorem | Argument |
|---|---|
| `TypeCorrect` | `Shape`: the types, with who owns which `Reload` (`ReloadIsOwned`) and what a handler that saves has (`JobIsSound`); without the first, a `Reload` of another pod could answer a handler |
| `SavesAreInForce` | `OrderInv`: the row is the last of `order` (`RowIsLast`); a save that has passed the row is in `order` (`SaveIsStored`); what a `Reload` has loaded from the row for a handler that waits came no earlier than its save (`LoadedIsLater`); what the pod runs once the handler has its answer came no earlier (`InForce`) |
| `NotedSavesAreInForce` | `NotedInv`: the revision, what pollers have read of it, and what handlers are about to write as revision are all saves that are in `order`; so what a poller's `Reload` has loaded from the row came no earlier than the save it follows (`NotedReloading`), and `Install` notes the revision and runs that (`NextFollows`) |

`SavedIsInForce` alone is not inductive: `Install` makes the pod run what `Load`
has read some steps before, while other pods write the row.  `order` only grows
(`Grows`), so what came no earlier stays so; each step is then a lemma
(`...Keeps`), and `OrderFrame` and `OneJobOrder` hold what they share.

`NotedIsInForce` is about the step in which `lastRev` goes on; that it goes on at
all is `PollersFollow`, which is only model-checked.  It leaves out the pods that
could not read the row: they note the revision, too, and run their file.

## 7. The pages of the console: `Ui` and its catalogue, `QueryCache`

Nearly every page under `src/react/src/pages` is made of the same parts: queries
of React Query, views that show them, and controls (buttons, switches, dialogs)
whose mutation changes something on the server and on success refreshes entries
of the cache by the head of their key.  `Ui` defines these words; the eleven
modules of the catalogue say in them, page by page and next to the file they
describe, what each page has.  `QueryCache` is the engine: one entry of the
cache, one view, one control.

| Word of `Ui` | In the code |
|---|---|
| `Query(key, reads)` | `useQuery` with its fixed key; `reads` names what the answer depends on on the server |
| `Each` | the key goes on with the id of an object (route parameter, selection) |
| `Polled`, `PolledWhileBusy`, `PolledUntilDone` | `refetchInterval` as a constant, or as a function of the data that says a job is running, or has not said that it ended |
| `PolledIfStale` | a timer of the page that calls `fetchQuery`, which fetches only what is stale |
| `Deaf` | the query function takes no `signal`: leaving the page does not abort it |
| `Copied` | the server keeps answers to the path in Redis and repeats them (`api_response_cache.go`, and the lists of vCenter) |
| `Mutation(writes, refreshes)` | `useMutation` or an awaited call of `lib/api`; `refreshes` are the keys its success names |
| `Every`, `Target`, `Shown` | a key without id, with the id the mutation was sent for, with the id the page shows when the answer comes |
| `Works` | the server goes on after its answer |
| `Leaves` | the mutation deletes the object that the page shows of these, and the page is left |
| `Forgets` | a success refreshes nothing of these, though it changes them and the page goes on showing them: a flaw of the page, kept as it is |
| `Control`, `RowControl` | offered at once, or only on loaded data |
| `View`, `Reloadable` | shown; shown with a button that fetches again |

| Module | Pages |
|---|---|
| `UiDns` | accounts, domains, records, certificates, failover, tasks |
| `UiKafka`, `UiRedis`, `UiOpenClaw`, `UiCloudVm` | the application centre |
| `UiMonitor` | hosts, router, graphics cards |
| `UiVcenter` | virtual machines, hosts, bastion |
| `UiCluster`, `UiResources` | the Kubernetes console |
| `UiInspect` | log collection, inspection, alerts, reports |
| `UiAdmin` | users, audit, statistics, attachments, registry |

`ScreenOf` makes of a view and a control the facts the engine tells apart.
`ScreensOf` forms the pairs of a catalogue: each view beside every control of its
page, beside none, and beside the controls of other pages that refresh it.  Equal
facts are one screen: the several thousand pairs of this catalogue are 102
screens.  `MCScreens` leaves out those that add nothing: a screen without a button
to reload where there is the same one with it, since nobody has to press it; and
of the 27 whose answers Redis repeats, which have ten times the states of another,
all but one for each way of polling, beside a control that changes what is shown.
TLC checks each of the 54 that remain, and the theorems hold for all.  A change of
one page of the catalogue (a key that is no longer refreshed, say) changes the set
of screens, which is how the run is about the pages: `SaveAccountQuietly` is such
a change.

| Code (`App.tsx`, React Query 5) | Actions |
|---|---|
| a page, a route parameter or a selection shows the entry, another object's, or none | `Visit`, `Switch`, `Leave` |
| `refetch` of a button, `refetchInterval` | `Reload`, `Tick` |
| `mutate`; the server; `onSuccess`; `onError` | `Submit`, `Apply`, `Succeed`, `Fail` |
| the answer to a fetch; failure after the one retry | `Respond`, `Receive`, `FetchFails` |
| `apiResponseCacheMiddleware` (`api_response_cache.go`): run the handler and keep its answer, or repeat the one in Redis; another user's request does the same; the time to live | `RespondAnew`, `RespondAgain`, `OthersAsk`, `OthersStore`, `Expire` |
| `staleTime` 60 s, `gcTime` 5 min | `Age`, `Collect` |
| a job of the server, other users | `JobEnds`, `Others` |

What is taken from React Query 5, which is not part of the repository (the map
marks it external): an invalidated entry that is shown is fetched again, and a
fetch in flight is cancelled for it if there is data already and joined if not;
showing an entry joins a fetch in flight and starts one if the entry is empty,
invalidated or stale; a query whose function listens to the signal is aborted
when nothing shows it; a failed fetch leaves the data and counts as stale; a
callback keeps the last props of the component it was made in.  `App.tsx` switches
off that a window which gets the focus fetches; seven queries switch it on again
(`VCenterVMDetail.tsx:79`, `AiInspectLogs.tsx:195`, `AiInspectLogDetails.tsx:326`
and `:334`, `ClusterK8sDashboardMonitoringSection.tsx:170`,
`ClusterK8sKubePrometheusStackSection.tsx:138`, `ClusterK8sAddonsSection.tsx:186`).
All of them poll, so that the focus is one of their ticks, at another moment; the
rate of the two pages of logs can be set to never by their user, who is then taken
for one who does not look.

| Run | Question | Bounds |
|---|---|---|
| `cache` | is what a success message told on the page, does a page ever go back, do polls catch up, is the end of a job seen | 54 screens, two changes of the server's state, one failure |

Two changes are a success and something older or newer than it (another user's
change, the end of a job); one failed request is enough for an entry to be left
invalid, or for a change whose answer is lost.  Entries do not influence each
other, so one at a time is enough.  Deadlock is not checked: nobody has to do
anything.

`AtRestFresh` and `ToldIsShown` leave out four cases which do occur: a success that comes
while the page's first load is under way is followed by that load's older answer
(`overlapped`); one whose callback names the object that is shown refreshes another
object's entry (`strayed`); and the refresh after a success may be answered from Redis
with what was there before (`repeated`; nothing that is written deletes such an answer,
and one that was computed earlier may be stored later); and some pages do not refresh an
entry that they show and have changed (`forgotten`). Those the catalogue has are marked by
`Forgets`: the open panel of logs after "check now" (`DnsFailover.tsx:116`), the card of
related objects after a workload was restarted or applied, or a service or an ingress was
applied or rolled back (`K8sRelationsCard.tsx`), and the object that the graphic editor
has loaded, after its own save (`K8sGraphicEditDialog.tsx:478`). All are in `PROJECT.json`
as hazards with their lines. A control of another page that does not refresh an entry at
all leaves it as it was for up to a minute; that is what `staleTime` is for, and nothing
is claimed of it.

Simplified: a handler that awaits one refresh before it starts the next is taken
to refresh all at once, and its success counts as told when the entry that is
followed is refreshed; the lists of vCenter are kept in Redis under keys of their
own, which some changes delete, and are treated like the other answers (so is the
timer of the list of machines, whose `refresh=1` goes round them).

Fairness: `WF` of `Apply` and `Succeed`, as requests have time-outs; `WF` of
`Tick`, `Age`, `Expire` and `JobEnds`, timers and jobs; `SF` of `Respond` and
`Receive`, as each press of reload starts a new fetch, and a user cannot press
faster than every answer for ever.  Faulty variants: `SubmitUnloaded`,
`SaveAccountQuietly`, `UnmountDeaf`, `RespondKept`, `InvalidateLater`,
`ExpireNever`, `TickUntilError`.

Proofs (`QueryCacheProofs`), for any screens, not only those of the catalogue:

| Theorem | Argument |
|---|---|
| `TypeCorrect` | `TypeOK`, which relates the entry to the request that was sent from it (`SentLoaded`), is inductive as it stands |
| `LoadedNeverOverlap` | `OverlapInv`: what a tab waits for belongs to the entry that is shown (`Ownership`); a fetch that listens is gone when nothing shows its entry (`AbortedAway`); a control that needs loaded data was pressed on loaded data (`SentLoaded`) |
| `AtRestAreFresh` | `FreshInv`: what was told was made and is there (`MadeHere`, `MadeIsPast`); an answer on its way back holds what was told (`BackHolds`), and so does an entry that is valid (`FreshHolds`), at rest too (`RestIsFresh`); assumed is that the screen's success names the entry (`Named`), which all screens of the catalogue do |
| `CarefulAreFresh` | `Causes`: each exception has one cause (`StrayedIsShown`, `RepeatedIsCopied`), so a screen that aborts its fetches, offers its control on loaded data, does not follow the page with its refresh and has no copies (`Careful`) has none, by the two theorems above |
| `NeverGoesBack` | `OrderInv`: nothing that was ever answered is ahead of the server (`BehindServer`), so a fetch that is answered anew is not behind the entry, nor is one on its way back (`BackIsNewer`): there is one fetch at a time, and what replaces it drops its answer |
| `NamingIsEnough` | a screen of a page's own control names what it changes if the page does (`NamesItsChanges`), and one of another page's control is there only if it refreshes (`ScreensOfPages`); with `AtRestAreFresh` this is a rule that the author of a page can follow without knowing the other pages |

`AtRestFresh` alone is not inductive: a page comes to rest on the answer of a
fetch that was sent before.  `ShownNeverGoesBack` needs an invariant for the same
reason: the step that shows an answer knows nothing of when it was computed.  The
liveness properties are only model-checked.

## 8. `DocStore`

The documents on the server.

| Code (`docs_handlers.go`, `docs_cache.go`) | Actions |
|---|---|
| `docsSaveBody` and the route | `AskCreate`, `AskSave`, `AskRestore`, `AskDelete` |
| `docsCreate` | `AskCreate`, `ClearTags`, `AddTag`, `Insert` |
| `docsUpdate`: row, tags, comparison, `UPDATE`, tags, version | `AskSave`, `Compare`, `Update`, `ClearTags`, `AddTag`, `Number`, `Insert` |
| `docsRestoreVersion` | `Pick`, `PutBack`, `Number`, `Insert` |
| `docsDelete`, a transaction | `Drop` |
| `docsBumpDocsAPICache`: `DEL` of the document, `INCR` of the lists' number | `Del`, `Incr` |
| a statement fails, or only its answer is lost; "no such document" | `WriteFails` with `Unheard`; `ReadGone` |
| `docsGet`: Redis, row, tags, answer, copy | `AskGet`, `GetRow`, `GetTags`, `StoreDetail`, `EndGet` |
| `docsList`: number, Redis, rows, answer, copy | `ReadRev`, `TryList`, `ListRows`, `StoreList`, `EndList` |
| a query of a reader fails, or its rows break off | `GetFails`, `ListFails` |
| the two minutes of a copy | `ExpireDetail`, `ExpireList` |

Every action is one statement of MySQL or Redis; a request arrives with the first
one of its handler.  `docsSyncTags` deletes the tags and inserts them one by one,
outside any transaction.  An `INSERT` of a new document whose answer is lost ends
as if the next statement had failed.  Requests that write are numbered as they
arrive (`Writers`), which leaves out no order of their steps.  A document's row counts its
changes (`rev`), which the code does not: reads and copies are compared by it.
The histories are `acked` (the newest change whose writer has his answer), `kept`
(the texts whose writers were told that a version is kept), `late` (a copy was
stored across a deletion of it) and `missed` (Redis refused a `DEL` or `INCR`,
which the code ignores, or the rows of an answer broke off, which it does not ask:
`docs_handlers.go:654`).  When Redis does not answer, the number of the lists is
taken for 0 (`docs_cache.go:55`): that reader may be given, for up to two minutes
after, a list that was stored under 0 before the first change or by another such
reader, and `ListNeverBehind` excepts him (`blind`) and nobody else: a list that he
computes is current, and one that he stores under 0 is found by no reader of a
number.  That Redis loses the number itself is not modelled.

| Run | Question | Bounds |
|---|---|---|
| `doc_store` | is a kept version lost, is a list or a copy behind what was answered, and for ever, does a copy mix two states | one document, two requests that write, a reader, two texts, one tag or none, one failure |
| `doc_gone` | violation: saving changed tags is answered with "no such document" | one document, two requests that write, two texts, one tag or none |

Two writers meet the race for a version number and that of `UPDATE` against
deletion; a reader beside them that of a copy against its deletion.  Documents
meet only in the number of the lists, which one document raises as well as two.
Faulty variants: `InsertAgain`, `InsertIgnoring`, `DelNothing`, `StoreListNow`,
`GetRowOnly`, `ExpireNever`.  Fairness: a request that reads goes on, and Redis
drops what has expired; writers are under no obligation, and `CopiesCatchUp` is
about a time when they are all done.

Disagreement: `docs_handlers.go:766` answers that the document does not exist
when the `UPDATE` has changed no row; MySQL counts changed rows, and if only the
tags differ it has changed none (`doc_gone`).

Proofs (`DocStoreProofs`), for any number of documents, writers, readers,
requests and failures:

| Theorem | Argument |
|---|---|
| `TypeCorrect` | `TypeOK`, with the numbers of versions that are all different (`NumberedOnce`), is inductive as it stands |
| `KeptStay` | `WriteInv`: what a request has made, the document has (`Sound`); after its `Insert` the version is there as long as the document is; nobody was told of a document that was not created (`Unborn`) |
| `BehindOnlyLate` | `CopyInv`: a copy that was not stored late has all that was answered and all that is about to be answered, of writers at their `INCR` (`Enough`); so has what a reader may still store, unless a `DEL` came between (`crossed`) |
| `CopiesAreRows` | `WholeInv`: what a reader has read of a document, or a copy holds, is of some earlier state, or is how the document is: the text since the row was read (`TextOf`), the tags since they were (`TagsOf`), so that text and tags of different states can only be of an earlier one. With `CopyInv` a copy that was not stored late is not of an earlier one once the last change was answered |
| `ListNotBehind` | `ListsHold`: no copy has a number that was not given out (`Keys`); copies under the newest number show all that was answered (`Newest`), those under the number a reader has read show what it knows (`Awaited`), and so does what it read (`Seen`) |

`BehindOnlyIfLate` alone is not inductive: a writer between `DEL` and `INCR` has
not been answered yet, and a copy stored meanwhile must have his change when he
is.  `ListNeverBehind` is not either: a list that reads its number and then
takes a copy depends on what others may store under that number, and a `blind`
reader stores under another.  Copies that
are stored and those that still may be are one set (`Copies`) for that.
`CopiesCatchUp`, a liveness property, is only model-checked.

## 9. `DocEditor`

The editor in one tab, with the server as the revisions of a document.

| Code (`EditorContainer.tsx`) | Actions |
|---|---|
| the URL names the document, another one, or none | `Select`, `Back`, `OtherCreated`, `OtherDeleted` |
| the effect on `detailQ.data` fills the one text | in `Show`, `Receive`, `OtherLoads` |
| typing | `Type` |
| `detailQ` | `Respond`, `Receive`, `FetchFails`, `Collect` |
| `saveMut`, `shareSaveMut`, `restoreMut` | `Save`, `Restore`, `Apply`, `Done`, `Same`, `Fails` |
| other users, or the user in the list | `Others`, `OtherSaved` |

`body` is the text: whose it is, the revision it builds on, whether it was typed
in, and with which requests it was sent.  `told` is what messages told the user.
`NeverUndoesOwn` excepts three cases that do occur: a request sent before the
document has loaded (`early`; the text is then another document's or empty), a
success that finds another document open (`strayed`; the callback refreshes the
open one), and an answer from a copy that was stored late (`behind`, see
`DocStore`).

| Run | Question | Bounds |
|---|---|---|
| `doc_edit` | is the text that document's, and is it based on what the user was told | three revisions, one failure |

Three revisions are what the three kinds of request make when they are under way
at once.  The theorems have no such bound.  Deadlock is not checked.  Faulty
variants: `ShowOtherDeaf`, `ShowKeeping`, `RefreshJoining`.

Disagreement, seen by reading: category and tags are set only if the document
has some (`EditorContainer.tsx:145`; `docs_handlers.go:653` sends `null` for
none), so those of the document that was open before stay in the form, and the
next save gives them to this one.

Proofs (`DocEditorProofs`), for any number of writes and failures:

| Theorem | Argument |
|---|---|
| `TypeCorrect` | `TypeOK`, with a fetch only of the document that is open (`FetchedIsOpen`), is inductive as it stands |
| `LoadedAreOwn` | the text is the document's as soon as the entry has data, by each action that opens or fills |
| `NeverUndoOwn` | `Inv`: what the user was told exists on the server (`ToldExists`); a request under way was sent on loaded data, or `early` says so (`SentLoaded`); an answer on its way back holds what was told (`BackHolds`), and so does an entry that will not be fetched again (`FreshIsEnough`); the text builds on the entry's data (`BasisKept`); the text of an editor at rest builds on what was told (`RestIsEnough`) |

`NeverUndoesOwn` alone is not inductive: a fetch that ends makes a page come to
rest on what its answer holds, and showing a document that is in the cache on
what the entry holds.  `Inv` says of each place what it holds, under the same
exceptions (`Excused`); one lemma per action.

## 10. What is not modelled

The Kubernetes, vCenter and application consoles pass requests on to systems
that keep the state; charts and scripts have no state the server relies on;
vendored code is not this program.  In the sync, uploading and matching
certificates is one step that succeeds or fails, and parsing of annotations is
what it yields.

Of the documents: categories, media, duplicates, the public page and its
password, and the canvas, whose pane passes changes on after 450 ms by a timer
that it does not clear.

Of the pages: drafts of forms, which are filled from an object that may be a
minute old and submit all of it (`K8sGraphicEditDialog.tsx:337`,
`ClusterWorkloadDetail.tsx:241`, `VCenterVMDetail.tsx:87`); a policy that can be
saved before it has loaded (`VCenterBastionAdmin.tsx:1199`); chat answers of
OpenClaw that may end up in another sheet (`AppCenterOpenClaw.tsx:829`); lists
that are edited in the cache by hand (the panels of the inspection, the projects
of the registry); and the scan of Redis keys, which goes through pages of its own.

Races of the Go program that were read and are not modelled yet: a read that
fills the permissions' cache after they were changed
(`permissions_redis_cache.go:103`); snapshots of failures stored out of order
(`login_throttle.go:105`); two refreshes of the registry's index
(`harbor_index_refresh.go:124`); states of alerts read at the start of a round
and stored at its end (`ops_center_alert_worker.go:104`); a reset that meets a
fresh vCenter client (`vcenter_session.go:117`); a list of revisions that fills
its cache late (`k8s_object_revision_mysql.go:48`); the last administrator
(`admin_users_handlers.go:287`); a patch of Prometheus's address across a reload
(`k8s_addons_kube_prometheus.go:683`); two set-ups at once
(`setup_handlers.go:35`).  The plan has modules for most.

Each component that is not modelled is listed in `PROJECT.json` with its reason.
