------------------------------ MODULE BaotaSync ------------------------------
(***************************************************************************)
(* Ingress -> Baota synchronisation (internal/baota_sync_run.go, syncer.go, *)
(* baota_delete.go, and handleDeleteIngress of web.go).                    *)
(*                                                                         *)
(* A replica (pod) runs goroutines that call RunBaotaIngressSync: the      *)
(* timer of StartSyncer where background jobs are enabled, and HTTP        *)
(* handlers for "sync now".  A run takes the pod's baotaIngressSyncMu,     *)
(* lists the managed Ingresses, and for each host asks a panel for a site, *)
(* a proxy and a certificate, each with bounded retries, publishing its    *)
(* report in the platform KV as it goes.  Delete requests remove an        *)
(* Ingress and then, best effort and without that mutex, the panel's site. *)
(*                                                                         *)
(* Abstractions: an Ingress has one rule; the list order is arbitrary; the *)
(* panel is external and known by the answers the code distinguishes; the  *)
(* table of panels does not change.  MaxFaults, MaxEdits and MaxCrashes    *)
(* bound the environment, not the code.                                    *)
(***************************************************************************)
EXTENDS Naturals, FiniteSets

CONSTANTS
    Pods,          \* replicas of the server
    Timers,        \* goroutines of StartSyncer
    Manuals,       \* goroutines serving POST /baota/ingress-sync/run
    Requests,      \* goroutines serving POST /ingress/delete (used once each)
    PodOf,         \* the pod of every goroutine
    Ingresses,     \* Ingress objects, by namespace and name
    Hosts,         \* domain names
    Urls,          \* origin URLs computed by BaotaOriginTarget
    Panels,        \* configured Baota panels
    PanelIds,      \* values of the baota-target annotation, "" and unknown ones too
    DefaultPanel,  \* the panel of DefaultBaotaTargetID
    Specs,         \* what an Ingress may say
    NoIngress, NoUrl, NoTarget, NoWorker,
    Attempts,      \* length of baotaSyncRetryDelays (4 in the code)
    DeleteRetries, \* length of the back-offs of ScheduleBaotaDeleteRetry (3)
    MaxFaults,     \* bound: failed calls to the panel, the cluster or the KV
    MaxEdits,      \* bound: changes made by users
    MaxCrashes     \* bound: restarts of a pod

Workers == Timers \union Manuals

IngressSpec ==
    [managed: BOOLEAN, host: Hosts, url: Urls, https: BOOLEAN, panel: PanelIds]

Target ==
    [ing: Ingresses, host: Hosts, url: Urls, https: BOOLEAN, panel: PanelIds]

Result == [target: Target, ok: BOOLEAN]

SiteState == [site: BOOLEAN, proxy: Urls \union {NoUrl}, https: BOOLEAN]

Verdict == {"none", "skipped", "ok", "partial"}

\* The summary speaks of a number of domains: `counted` is the set it counts.
Report == [running: BOOLEAN, verdict: Verdict,
           domains: SUBSET Result, counted: SUBSET Target]

ASSUME PodsAssumption == PodOf \in [Workers \union Requests -> Pods]
ASSUME KindsAssumption == Timers \intersect Manuals = {}
ASSUME NonEmptyAssumption == Ingresses # {} /\ Hosts # {} /\ IsFiniteSet(Ingresses)
ASSUME PanelAssumption == Panels \subseteq PanelIds /\ DefaultPanel \in Panels
ASSUME SpecsAssumption == Specs \subseteq IngressSpec
ASSUME NullAssumption ==
    /\ NoIngress \notin Specs
    /\ NoUrl \notin Urls
    /\ NoTarget \notin Target
    /\ NoWorker \notin Workers
ASSUME BoundsAssumption ==
    /\ Attempts \in Nat \ {0}
    /\ DeleteRetries \in Nat
    /\ MaxFaults \in Nat /\ MaxEdits \in Nat /\ MaxCrashes \in Nat

VARIABLES
    cluster,   \* the Ingress objects of the Kubernetes API server
    enabled,   \* ingressBaotaSyncEnabled of the runtime configuration
    k8s,       \* app.K8s() is not nil
    panel,     \* what each panel has for each host
    report,    \* the report under kubebt_baota_ingress_sync_report_v1
    lock,      \* holder of baotaIngressSyncMu in each pod
    pc,        \* where each worker is
    targets,   \* `targets` of the worker's run
    domains,   \* rep.Domains of the worker's run
    cur,       \* the target the loop is at
    tries,     \* failed attempts of the current call
    ok,        \* rep.OverallOK of the current target
    del,       \* the delete requests
    faults, edits, crashes,
    asked,     \* history: what managed Ingresses ever asked for
    misread    \* history: hosts of which a panel's refusal was taken for "already exists"

envVars == <<faults, edits, crashes>>
runVars == <<pc, targets, domains, cur, tries, ok, lock>>
vars == <<cluster, enabled, k8s, panel, report, runVars, del, envVars, asked, misread>>

-----------------------------------------------------------------------------
Steps == {"idle", "called", "off", "prepare", "next",
          "site", "proxy", "https", "record", "done"}

\* A run is between TryLock and the deferred Unlock.
InRun(w) == pc[w] \notin {"idle", "called"}

DelSteps == {"idle", "k8s", "proxy", "lookup", "site",
             "done", "refused", "gaveup", "lost"}

DelSettled == {"idle", "done", "refused", "gaveup", "lost"}

DelRequest == [step: DelSteps, ing: Ingresses, host: Hosts, panel: Panels,
               clean: BOOLEAN, tries: 0..DeleteRetries]

\* ConfigForBaotaTargetID: an unknown or empty id falls back to the default.
PanelFor(id) == IF id \in Panels THEN id ELSE DefaultPanel

EmptySite == [site |-> FALSE, proxy |-> NoUrl, https |-> FALSE]

IdleRequest == [step |-> "idle", ing |-> CHOOSE i \in Ingresses : TRUE,
                host |-> CHOOSE h \in Hosts : TRUE, panel |-> DefaultPanel,
                clean |-> FALSE, tries |-> 0]

EmptyReport == [running |-> FALSE, verdict |-> "none",
                domains |-> {}, counted |-> {}]

TargetOf(i, s) == [ing |-> i, host |-> s.host, url |-> s.url,
                   https |-> s.https, panel |-> s.panel]

\* Faulty variant: the list does not look at the sync annotation.
AnyTargets ==
    {TargetOf(i, cluster[i]) : i \in {j \in Ingresses : cluster[j] # NoIngress}}

\* listBaotaProxyTargetsFromCluster
ManagedTargets == {TargetOf(i, cluster[i]) : i \in
                   {j \in Ingresses : cluster[j] # NoIngress /\ cluster[j].managed}}

Todo(w) == {t \in targets[w] : \A r \in domains[w] : r.target # t}

\* What the panel of a target has for its host, and that entry replaced.
SiteOf(t) == panel[PanelFor(t.panel)][t.host]

PanelWith(p, h, s) == [panel EXCEPT ![p][h] = s]

Serves(t) == SiteOf(t).site /\ SiteOf(t).proxy # NoUrl

-----------------------------------------------------------------------------
Init ==
    /\ cluster = [i \in Ingresses |-> NoIngress]
    /\ enabled = TRUE
    /\ k8s = TRUE
    /\ panel = [p \in Panels |-> [h \in Hosts |-> EmptySite]]
    /\ report = EmptyReport
    /\ lock = [p \in Pods |-> NoWorker]
    /\ pc = [w \in Workers |-> "idle"]
    /\ targets = [w \in Workers |-> {}]
    /\ domains = [w \in Workers |-> {}]
    /\ cur = [w \in Workers |-> NoTarget]
    /\ tries = [w \in Workers |-> 0]
    /\ ok = [w \in Workers |-> TRUE]
    /\ del = [r \in Requests |-> IdleRequest]
    /\ faults = 0 /\ edits = 0 /\ crashes = 0
    /\ asked = {}
    /\ misread = {}

-----------------------------------------------------------------------------
(* Users and the environment *)

Edit == edits < MaxEdits /\ edits' = edits + 1

\* A user creates, changes or (out of band) deletes an Ingress with kubectl.
EditIngress(i, s) ==
    /\ Edit
    /\ s # cluster[i]
    /\ cluster' = [cluster EXCEPT ![i] = s]
    /\ asked' = IF s # NoIngress /\ s.managed
                THEN asked \union {TargetOf(i, s)} ELSE asked
    /\ UNCHANGED <<enabled, k8s, panel, report, runVars, del, faults, crashes, misread>>

\* The runtime configuration is saved, or a Reload loses or regains the cluster.
Reconfigure ==
    /\ Edit
    /\ \/ enabled' = ~enabled /\ UNCHANGED k8s
       \/ k8s' = ~k8s /\ UNCHANGED enabled
    /\ UNCHANGED <<cluster, panel, report, runVars, del, faults, crashes, asked, misread>>

Fault == faults < MaxFaults /\ faults' = faults + 1
NoFault == UNCHANGED faults

-----------------------------------------------------------------------------
(* One run of RunBaotaIngressSync *)

\* persistBaotaIngressSyncReport: a failed kv.Set is logged and forgotten.
Persist(rep) == \/ report' = rep /\ NoFault
                \/ Fault /\ UNCHANGED report

Goto(w, step) == pc' = [pc EXCEPT ![w] = step]

\* StartSyncer and handleBaotaIngressSyncRun look before they call.
Call(w) ==
    /\ pc[w] = "idle"
    /\ k8s
    /\ w \in Timers => enabled
    /\ Goto(w, "called")
    /\ UNCHANGED <<cluster, enabled, k8s, panel, report, targets, domains, cur,
                   tries, ok, lock, del, envVars, asked, misread>>

\* TryLock failed: the caller is told that a run is in progress.
Busy(w) ==
    /\ pc[w] = "called"
    /\ lock[PodOf[w]] # NoWorker
    /\ Goto(w, "idle")
    /\ UNCHANGED <<cluster, enabled, k8s, panel, report, targets, domains, cur,
                   tries, ok, lock, del, envVars, asked, misread>>

\* Faulty variant: a run begins without the mutex.
BeginAnyway(w) ==
    /\ pc[w] = "called"
    /\ lock' = [lock EXCEPT ![PodOf[w]] = w]
    /\ Goto(w, IF w \in Timers /\ ~enabled THEN "off" ELSE "prepare")
    /\ Persist([EmptyReport EXCEPT !.running = TRUE])
    /\ UNCHANGED <<cluster, enabled, k8s, panel, targets, domains, cur, tries, ok,
                   del, edits, crashes, asked, misread>>

\* TryLock succeeded: snapshot the configuration, publish Running.
Begin(w) ==
    /\ pc[w] = "called"
    /\ lock[PodOf[w]] = NoWorker
    /\ lock' = [lock EXCEPT ![PodOf[w]] = w]
    /\ Goto(w, IF w \in Timers /\ ~enabled THEN "off" ELSE "prepare")
    /\ Persist([EmptyReport EXCEPT !.running = TRUE])
    /\ UNCHANGED <<cluster, enabled, k8s, panel, targets, domains, cur, tries, ok,
                   del, edits, crashes, asked, misread>>

\* Timer switched off, or cluster not connected.
Skip(w) ==
    /\ \/ pc[w] = "off"
       \/ pc[w] = "prepare" /\ ~k8s
    /\ Persist([EmptyReport EXCEPT !.verdict = "skipped"])
    /\ Goto(w, "done")
    /\ UNCHANGED <<cluster, enabled, k8s, panel, targets, domains, cur, tries, ok,
                   lock, del, edits, crashes, asked, misread>>

\* The list failed, and so may have the write of the report.
ListFails(w) ==
    /\ pc[w] = "prepare"
    /\ k8s
    /\ Fault
    /\ report' \in {report, [EmptyReport EXCEPT !.verdict = "skipped"]}
    /\ Goto(w, "done")
    /\ UNCHANGED <<cluster, enabled, k8s, panel, targets, domains, cur, tries, ok,
                   lock, del, edits, crashes, asked, misread>>

List(w) ==
    /\ pc[w] = "prepare"
    /\ k8s
    /\ targets' = [targets EXCEPT ![w] = ManagedTargets]
    /\ Goto(w, "next")
    /\ UNCHANGED <<cluster, enabled, k8s, panel, report, domains, cur, tries, ok,
                   lock, del, envVars, asked, misread>>

\* The loop over targets enters ensureBaotaSiteAndProxyWithReport.
Take(w) ==
    /\ pc[w] = "next"
    /\ \E t \in Todo(w) : cur' = [cur EXCEPT ![w] = t]
    /\ ok' = [ok EXCEPT ![w] = TRUE]
    /\ Goto(w, "site")
    /\ UNCHANGED <<cluster, enabled, k8s, panel, report, targets, domains, tries,
                   lock, del, envVars, asked, misread>>

\* baotaPOSTWithRetry: success ends the step, whose result is recorded.
Succeed(w, next) ==
    /\ Goto(w, next)
    /\ tries' = [tries EXCEPT ![w] = 0]
    /\ UNCHANGED ok

\* Faulty variants: one attempt too many, and a step given up that leaves no mark.
TryOnceMore(w, next) ==
    IF tries[w] + 1 <= Attempts
    THEN /\ tries' = [tries EXCEPT ![w] = @ + 1]
         /\ UNCHANGED <<pc, ok>>
    ELSE /\ Goto(w, next)
         /\ tries' = [tries EXCEPT ![w] = 0]
         /\ ok' = [ok EXCEPT ![w] = FALSE]

GiveUpSilently(w, next) ==
    IF tries[w] + 1 < Attempts
    THEN /\ tries' = [tries EXCEPT ![w] = @ + 1]
         /\ UNCHANGED <<pc, ok>>
    ELSE Succeed(w, next)

\* Faulty variant: a failed attempt is not counted.
TryForever(w, next) ==
    IF tries[w] < Attempts
    THEN UNCHANGED <<pc, tries, ok>>
    ELSE Succeed(w, next)

\* A failed attempt: try again, or give the step up and go on all the same.
FailAttempt(w, next) ==
    IF tries[w] + 1 < Attempts
    THEN /\ tries' = [tries EXCEPT ![w] = @ + 1]
         /\ UNCHANGED <<pc, ok>>
    ELSE /\ Goto(w, next)
         /\ tries' = [tries EXCEPT ![w] = 0]
         /\ ok' = [ok EXCEPT ![w] = FALSE]

\* One POST to a panel.  `effect` is what it does when the panel accepts it; a
\* failed call may have lost the request or only the answer.  A refusal fails too,
\* unless its words hold "exist": interpretBaotaJSONBody takes those for success.
Post(w, effect, next) ==
    \/ panel' = effect /\ NoFault /\ Succeed(w, next) /\ UNCHANGED misread
    \/ panel' \in {panel, effect} /\ Fault /\ FailAttempt(w, next) /\ UNCHANGED misread
    \/ /\ UNCHANGED panel
       /\ Fault
       /\ Succeed(w, next)
       /\ misread' = misread \union {<<PanelFor(cur[w].panel), cur[w].host>>}

\* The panel has no such site, which it may say in words that hold "exist" or in
\* others: an answer that every attempt gets again.
Refused(w, next) ==
    /\ UNCHANGED <<panel, faults, misread>>
    /\ FailAttempt(w, next) \/ Succeed(w, next)

CallUnchanged == UNCHANGED <<cluster, enabled, k8s, report, targets, domains, cur,
                             lock, del, edits, crashes, asked>>

AfterProxy(t) == IF t.https THEN "https" ELSE "record"

\* An existing site answers "already exists", which counts as success.
SiteAdded(t) ==
    PanelWith(PanelFor(t.panel), t.host, [SiteOf(t) EXCEPT !.site = TRUE])

\* Faulty variant: the proxy is created on the default panel.
ProxyOnDefault(t) ==
    PanelWith(DefaultPanel, t.host,
              [SiteOf(t) EXCEPT !.proxy = IF @ = NoUrl THEN t.url ELSE @])

\* So does an existing proxy, which keeps the URL it has.
ProxyCreated(t) ==
    PanelWith(PanelFor(t.panel), t.host,
              [SiteOf(t) EXCEPT !.proxy = IF @ = NoUrl THEN t.url ELSE @])

CertDeployed(t) ==
    PanelWith(PanelFor(t.panel), t.host, [SiteOf(t) EXCEPT !.https = TRUE])

AddSite(w) ==
    /\ pc[w] = "site"
    /\ Post(w, SiteAdded(cur[w]), "proxy")
    /\ CallUnchanged

\* CreateProxy is asked for even when AddSite was given up.
CreateProxy(w) ==
    /\ pc[w] = "proxy"
    /\ \/ SiteOf(cur[w]).site /\ Post(w, ProxyCreated(cur[w]), AfterProxy(cur[w]))
       \/ ~SiteOf(cur[w]).site /\ Refused(w, AfterProxy(cur[w]))
    /\ CallUnchanged

\* EnsureBaotaHTTPS; a certificate that cannot be resolved is a fault as well.
EnsureHTTPS(w) ==
    /\ pc[w] = "https"
    /\ \/ SiteOf(cur[w]).site /\ Post(w, CertDeployed(cur[w]), "record")
       \/ ~SiteOf(cur[w]).site /\ Refused(w, "record")
    /\ CallUnchanged

\* Faulty variant: the progress is merged into the report as published.
RecordMerging(w) ==
    /\ pc[w] = "record"
    /\ LET done == domains[w] \union {[target |-> cur[w], ok |-> ok[w]]}
       IN  /\ domains' = [domains EXCEPT ![w] = done]
           /\ Persist([report EXCEPT !.running = TRUE, !.domains = done])
    /\ Goto(w, "next")
    /\ UNCHANGED <<cluster, enabled, k8s, panel, targets, cur, tries, ok, lock, del,
                   edits, crashes, asked, misread>>

\* rep.Domains = append(rep.Domains, dr), and publish the progress.
Record(w) ==
    /\ pc[w] = "record"
    /\ LET done == domains[w] \union {[target |-> cur[w], ok |-> ok[w]]}
       IN  /\ domains' = [domains EXCEPT ![w] = done]
           /\ Persist([EmptyReport EXCEPT !.running = TRUE, !.domains = done])
    /\ Goto(w, "next")
    /\ UNCHANGED <<cluster, enabled, k8s, panel, targets, cur, tries, ok, lock, del,
                   edits, crashes, asked, misread>>

\* Faulty variant: the last report does not clear Running.
FinishRunning(w) ==
    /\ pc[w] = "next"
    /\ Todo(w) = {}
    /\ Persist([EmptyReport EXCEPT !.running = TRUE, !.domains = domains[w]])
    /\ Goto(w, "done")
    /\ UNCHANGED <<cluster, enabled, k8s, panel, targets, domains, cur, tries, ok,
                   lock, del, edits, crashes, asked, misread>>

Finish(w) ==
    /\ pc[w] = "next"
    /\ Todo(w) = {}
    /\ Persist([running |-> FALSE,
                verdict |-> IF \A r \in domains[w] : r.ok THEN "ok" ELSE "partial",
                domains |-> domains[w],
                counted |-> targets[w]])
    /\ Goto(w, "done")
    /\ UNCHANGED <<cluster, enabled, k8s, panel, targets, domains, cur, tries, ok,
                   lock, del, edits, crashes, asked, misread>>

\* The run's local variables go with its goroutine.
Forget(W) ==
    /\ pc' = [w \in Workers |-> IF w \in W THEN "idle" ELSE pc[w]]
    /\ targets' = [w \in Workers |-> IF w \in W THEN {} ELSE targets[w]]
    /\ domains' = [w \in Workers |-> IF w \in W THEN {} ELSE domains[w]]
    /\ cur' = [w \in Workers |-> IF w \in W THEN NoTarget ELSE cur[w]]
    /\ tries' = [w \in Workers |-> IF w \in W THEN 0 ELSE tries[w]]
    /\ ok' = [w \in Workers |-> IF w \in W THEN TRUE ELSE ok[w]]

\* Faulty variant: no Unlock on the way out.
ReleaseLocked(w) ==
    /\ pc[w] = "done"
    /\ Forget({w})
    /\ UNCHANGED <<cluster, enabled, k8s, panel, report, lock, del, envVars, asked, misread>>

\* The deferred Unlock.
Release(w) ==
    /\ pc[w] = "done"
    /\ lock' = [lock EXCEPT ![PodOf[w]] = NoWorker]
    /\ Forget({w})
    /\ UNCHANGED <<cluster, enabled, k8s, panel, report, del, envVars, asked, misread>>

RunStep(w) ==
    \/ Busy(w) \/ Begin(w) \/ Skip(w) \/ ListFails(w) \/ List(w) \/ Take(w)
    \/ AddSite(w) \/ CreateProxy(w) \/ EnsureHTTPS(w) \/ Record(w)
    \/ Finish(w) \/ Release(w)

-----------------------------------------------------------------------------
(* handleDeleteIngress, DeleteBaotaSiteAndProxy, ScheduleBaotaDeleteRetry *)

DelSiteOf(r) == panel[del[r].panel][del[r].host]

DelUnchanged == UNCHANGED <<enabled, k8s, report, runVars, edits, crashes, asked, misread>>

\* The handler reads the annotation that names the panel; when that read fails
\* the default panel is used.
DelRead(r, i, h, clean) ==
    /\ del[r].step = "idle"
    /\ k8s
    /\ cluster[i] # NoIngress
    /\ \/ /\ NoFault
          /\ del' = [del EXCEPT ![r] = [step |-> "k8s", ing |-> i, host |-> h,
                        panel |-> PanelFor(cluster[i].panel), clean |-> clean,
                        tries |-> 0]]
       \/ /\ Fault
          /\ del' = [del EXCEPT ![r] = [step |-> "k8s", ing |-> i, host |-> h,
                        panel |-> DefaultPanel, clean |-> clean, tries |-> 0]]
    /\ UNCHANGED <<cluster, panel>>
    /\ DelUnchanged

\* A call that failed may have deleted the Ingress: the handler stops all the same.
DelIngress(r) ==
    /\ del[r].step = "k8s"
    /\ \/ /\ cluster[del[r].ing] # NoIngress
          /\ cluster' = [cluster EXCEPT ![del[r].ing] = NoIngress]
          /\ del' = [del EXCEPT ![r].step = IF del[r].clean THEN "proxy" ELSE "done"]
          /\ NoFault
       \/ /\ cluster[del[r].ing] = NoIngress
          /\ del' = [del EXCEPT ![r].step = "refused"]
          /\ UNCHANGED <<cluster, faults>>
       \/ /\ Fault
          /\ cluster' \in {cluster, [cluster EXCEPT ![del[r].ing] = NoIngress]}
          /\ del' = [del EXCEPT ![r].step = "refused"]
    /\ UNCHANGED panel
    /\ DelUnchanged

\* removeBaotaProxy: three forms of the call, none of whose failures matter.
DelProxy(r) ==
    /\ del[r].step = "proxy"
    /\ \/ /\ panel' = PanelWith(del[r].panel, del[r].host, [DelSiteOf(r) EXCEPT !.proxy = NoUrl])
          /\ NoFault
       \/ UNCHANGED panel /\ Fault
    /\ del' = [del EXCEPT ![r].step = "lookup"]
    /\ UNCHANGED cluster
    /\ DelUnchanged

\* Faulty variant: the back-offs never come to an end.
DelFailsAgain(r) == del' = [del EXCEPT ![r].step = "proxy"]

\* The attempt failed: the next back-off, or the retry gives up.
DelFails(r) ==
    del' = IF del[r].tries < DeleteRetries
           THEN [del EXCEPT ![r].step = "proxy", ![r].tries = @ + 1]
           ELSE [del EXCEPT ![r].step = "gaveup"]

DelLookup(r) ==
    /\ del[r].step = "lookup"
    /\ \/ /\ NoFault
          /\ del' = [del EXCEPT ![r].step =
                        IF DelSiteOf(r).site THEN "site" ELSE "done"]
       \/ Fault /\ DelFails(r)
    /\ UNCHANGED <<cluster, panel>>
    /\ DelUnchanged

DelSite(r) ==
    /\ del[r].step = "site"
    /\ LET gone == PanelWith(del[r].panel, del[r].host, EmptySite)
       IN  \/ /\ DelSiteOf(r).site
              /\ panel' = gone
              /\ del' = [del EXCEPT ![r].step = "done"]
              /\ NoFault
           \/ /\ ~DelSiteOf(r).site
              /\ DelFails(r)
              /\ UNCHANGED <<panel, faults>>
           \/ panel' \in {panel, gone} /\ Fault /\ DelFails(r)
    /\ UNCHANGED cluster
    /\ DelUnchanged

DelStep(r) == DelIngress(r) \/ DelProxy(r) \/ DelLookup(r) \/ DelSite(r)

-----------------------------------------------------------------------------
\* A pod stops: its goroutines and its mutex are gone, what it published stays.
Crash(p) ==
    /\ crashes < MaxCrashes
    /\ crashes' = crashes + 1
    /\ lock' = [lock EXCEPT ![p] = NoWorker]
    /\ Forget({w \in Workers : PodOf[w] = p})
    /\ del' = [r \in Requests |->
                IF PodOf[r] = p /\ del[r].step \notin DelSettled
                THEN [del[r] EXCEPT !.step = "lost"] ELSE del[r]]
    /\ UNCHANGED <<cluster, enabled, k8s, panel, report, faults, edits, asked, misread>>

Next ==
    \/ \E i \in Ingresses, s \in Specs \union {NoIngress} : EditIngress(i, s)
    \/ Reconfigure
    \/ \E w \in Workers : Call(w) \/ RunStep(w)
    \/ \E r \in Requests :
         \/ \E i \in Ingresses, h \in Hosts, c \in BOOLEAN : DelRead(r, i, h, c)
         \/ DelStep(r)
    \/ \E p \in Pods : Crash(p)

Spec == Init /\ [][Next]_vars

\* The timer's loop always comes round, a goroutine that runs goes on running
\* (every call has a time-out), and users and faults are under no obligation.
Fairness ==
    /\ \A w \in Timers : WF_vars(Call(w))
    /\ \A w \in Workers : WF_vars(RunStep(w))
    /\ \A r \in Requests : WF_vars(DelStep(r))

FairSpec == Spec /\ Fairness

-----------------------------------------------------------------------------
(* Properties *)

\* Every variable stays in its type.
TypeOK ==
    /\ cluster \in [Ingresses -> Specs \union {NoIngress}]
    /\ enabled \in BOOLEAN /\ k8s \in BOOLEAN
    /\ panel \in [Panels -> [Hosts -> SiteState]]
    /\ report \in Report
    /\ lock \in [Pods -> Workers \union {NoWorker}]
    /\ pc \in [Workers -> Steps]
    /\ targets \in [Workers -> SUBSET Target]
    /\ domains \in [Workers -> SUBSET Result]
    /\ cur \in [Workers -> Target \union {NoTarget}]
    /\ tries \in [Workers -> 0..Attempts - 1]
    /\ ok \in [Workers -> BOOLEAN]
    /\ del \in [Requests -> DelRequest]
    /\ faults \in 0..MaxFaults /\ edits \in 0..MaxEdits /\ crashes \in 0..MaxCrashes
    /\ asked \subseteq Target
    /\ misread \subseteq Panels \X Hosts

\* Whoever is between TryLock and Unlock holds its pod's mutex, so a pod never
\* runs two syncs at once, whatever crashes and restarts do.
RunHoldsLock == \A w \in Workers : InRun(w) => lock[PodOf[w]] = w

\* Nothing is exposed that no managed Ingress asked for: every site on a panel,
\* and the origin its proxy points to, was asked for, for that host and panel,
\* by an Ingress that carried the sync annotation.
OnlyAskedIsServed ==
    \A p \in Panels, h \in Hosts :
        /\ panel[p][h].site =>
             \E t \in asked : PanelFor(t.panel) = p /\ t.host = h
        /\ panel[p][h].proxy # NoUrl =>
             \E t \in asked : /\ PanelFor(t.panel) = p /\ t.host = h
                              /\ t.url = panel[p][h].proxy

\* A report that says the run is over accounts for every target the run listed,
\* however many of them failed, and says "ok" exactly when all of them are:
\* neither a crash, nor another pod's run, nor a failed write of the KV leaves
\* a finished report with a part of the domains.
FinishedReportIsComplete ==
    report.verdict \in {"ok", "partial"} =>
        /\ ~report.running
        /\ {r.target : r \in report.domains} = report.counted
        /\ (report.verdict = "ok") <=> (\A r \in report.domains : r.ok)

\* A delete request that may have reached the panel for this host.
Cleaned(p, h) ==
    \E r \in Requests :
        /\ del[r].clean /\ del[r].panel = p /\ del[r].host = h
        /\ del[r].step \notin {"idle", "k8s", "refused"}

\* What the published report calls overallOk is served: the site is there with
\* a proxy, and a certificate where the Ingress wants one, unless someone asked
\* to delete that very site, or the panel refused a call for it in words that are
\* taken for "already exists".  Lost answers, retries, other refusals and runs of
\* other pods do not make the report claim too much.
ReportedOKIsServed ==
    \A r \in report.domains :
        r.ok => LET p == PanelFor(r.target.panel)
                    h == r.target.host
                IN  \/ /\ Serves(r.target)
                       /\ r.target.https => SiteOf(r.target).https
                    \/ Cleaned(p, h)
                    \/ <<p, h>> \in misread

Switched == enabled /\ k8s

\* While the timer is switched on and the cluster connected, every host a
\* managed Ingress names ends up served for good: runs that were skipped for a
\* busy mutex, failed calls, crashes and late delete retries are all made up for
\* by a later run of the timer.
ManagedIsServed ==
    <>[]Switched =>
        <>[](\A t \in ManagedTargets : Serves(t))

\* The page never shows "running" for ever: a report left running by a crash or
\* a failed last write is replaced by a later run of the timer.
ReportComesToRest == <>[]Switched => []<>(~report.running)

\* web.go answers that the Ingress and the Baota site have both been deleted:
\* the site is gone and, as no Ingress asks for it, stays so.
DeletedSiteStaysGone ==
    \A r \in Requests :
        /\ del[r].step = "done" /\ del[r].clean
        /\ \A t \in ManagedTargets : t.host # del[r].host
        => ~panel[del[r].panel][del[r].host].site

\* How many steps a run has left at most, and a delete request.
PerTarget == 3 * Attempts + 2

StepsLeft(w) ==
    LET before == PerTarget * Cardinality(Todo(w)) + 2
    IN  CASE pc[w] = "off" -> 2
          [] pc[w] = "prepare" -> PerTarget * Cardinality(Ingresses) + 3
          [] pc[w] = "next" -> before
          [] pc[w] = "site" -> before - 1 - tries[w]
          [] pc[w] = "proxy" -> before - 1 - Attempts - tries[w]
          [] pc[w] = "https" -> before - 1 - 2 * Attempts - tries[w]
          [] pc[w] = "record" -> before - 1 - 3 * Attempts
          [] pc[w] = "done" -> 1
          [] OTHER -> 0

\* Every run ends: each step of its own, a failed call and a retry too, leaves it fewer
\* steps to take, and nothing that users, other runs, other pods or deletions do meanwhile
\* gives it more.
RunsEnd ==
    [][\A w \in Workers :
         InRun(w) => /\ StepsLeft(w)' \in 0..StepsLeft(w)
                     /\ RunStep(w) => StepsLeft(w)' # StepsLeft(w)]_vars

DelStepsLeft(r) ==
    LET attempts == 3 * (DeleteRetries - del[r].tries)
    IN  CASE del[r].step = "k8s" -> attempts + 4
          [] del[r].step = "proxy" -> attempts + 3
          [] del[r].step = "lookup" -> attempts + 2
          [] del[r].step = "site" -> attempts + 1
          [] OTHER -> 0

\* So does every delete request, whose retries go back to its first call to the panel.
DeletesEnd ==
    [][\A r \in Requests :
         del[r].step # "idle" =>
             /\ DelStepsLeft(r)' \in 0..DelStepsLeft(r)
             /\ DelStep(r) => DelStepsLeft(r)' # DelStepsLeft(r)]_vars
=============================================================================
