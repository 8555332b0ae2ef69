--------------------------- MODULE BaotaSyncProofs ---------------------------
(***************************************************************************)
(* Proofs about BaotaSync, for every value of its constants.               *)
(***************************************************************************)
EXTENDS BaotaSync, FiniteSetTheorems, TLAPS

\* A worker inside ensureBaotaSiteAndProxyWithReport has a target.
InTarget(w) == pc[w] \in {"site", "proxy", "https", "record"}

HasTarget == \A w \in Workers : InTarget(w) => cur[w] \in Target

Typed == TypeOK /\ HasTarget

\* ConfigForBaotaTargetID always answers with a configured panel.
LEMMA PanelForType == \A id : PanelFor(id) \in Panels
  BY PanelAssumption DEF PanelFor

LEMMA IdleRequestType == IdleRequest \in DelRequest
  BY NonEmptyAssumption, PanelAssumption, BoundsAssumption
     DEF IdleRequest, DelRequest, DelSteps

\* A delete request that moves to another step.
LEMMA DelStepType ==
  ASSUME NEW d \in DelRequest, NEW s \in DelSteps
  PROVE  [d EXCEPT !.step = s] \in DelRequest
  BY DEF DelRequest

LEMMA EmptySiteType == EmptySite \in SiteState
  BY DEF EmptySite, SiteState

LEMMA EmptyReportType ==
  /\ EmptyReport \in Report
  /\ [EmptyReport EXCEPT !.running = TRUE] \in Report
  /\ [EmptyReport EXCEPT !.verdict = "skipped"] \in Report
  BY DEF EmptyReport, Report, Verdict

\* What the list of Ingresses is turned into are targets.
LEMMA ManagedTargetsType == TypeOK => ManagedTargets \subseteq Target
  BY SpecsAssumption DEF TypeOK, ManagedTargets, TargetOf, Target, IngressSpec

\* Replacing one entry of a panel keeps the panels' type.
LEMMA PanelWithType ==
  ASSUME TypeOK, NEW p \in Panels, NEW h \in Hosts, NEW s \in SiteState
  PROVE  PanelWith(p, h, s) \in [Panels -> [Hosts -> SiteState]]
  BY DEF TypeOK, PanelWith

\* What a sync finds for a target, and the effects it may have.
LEMMA EffectsType ==
  ASSUME TypeOK, NEW t \in Target
  PROVE  /\ SiteOf(t) \in SiteState
         /\ SiteAdded(t) \in [Panels -> [Hosts -> SiteState]]
         /\ ProxyCreated(t) \in [Panels -> [Hosts -> SiteState]]
         /\ CertDeployed(t) \in [Panels -> [Hosts -> SiteState]]
<1>1. PanelFor(t.panel) \in Panels /\ t.host \in Hosts /\ t.url \in Urls
  BY PanelForType DEF Target
<1>2. SiteOf(t) \in SiteState
  BY <1>1 DEF SiteOf, TypeOK
<1>3. /\ [SiteOf(t) EXCEPT !.site = TRUE] \in SiteState
      /\ [SiteOf(t) EXCEPT !.proxy = IF @ = NoUrl THEN t.url ELSE @] \in SiteState
      /\ [SiteOf(t) EXCEPT !.https = TRUE] \in SiteState
  BY <1>1, <1>2 DEF SiteState
<1>4. QED
  BY <1>1, <1>2, <1>3, PanelWithType DEF SiteAdded, ProxyCreated, CertDeployed

-----------------------------------------------------------------------------
\* The steps at which the worker of a run has a target.
TargetSteps == {"site", "proxy", "https", "record"}

\* The outcome of an attempt: the run stays where it is or goes on to `next`.
LEMMA AttemptType ==
  ASSUME Typed, NEW w \in Workers, NEW next \in TargetSteps, InTarget(w),
         cur' = cur,
         Succeed(w, next) \/ FailAttempt(w, next)
  PROVE  /\ pc' \in [Workers -> Steps]
         /\ tries' \in [Workers -> 0..Attempts - 1]
         /\ ok' \in [Workers -> BOOLEAN]
         /\ HasTarget'
<1> USE DEF Typed, TypeOK, Goto
<1>1. pc' = pc \/ pc' = [pc EXCEPT ![w] = next]
  BY DEF Succeed, FailAttempt
<1>2. pc' \in [Workers -> Steps]
  BY <1>1 DEF TargetSteps, Steps
<1>3. tries' \in [Workers -> 0..Attempts - 1]
  <2>1. CASE tries' = [tries EXCEPT ![w] = 0]
    BY <2>1, BoundsAssumption
  <2>2. CASE tries[w] + 1 < Attempts /\ tries' = [tries EXCEPT ![w] = tries[w] + 1]
    BY <2>2, BoundsAssumption
  <2>3. QED
    BY <2>1, <2>2 DEF Succeed, FailAttempt
<1>4. ok' \in [Workers -> BOOLEAN]
  BY DEF Succeed, FailAttempt
<1>5. HasTarget'
  BY <1>1 DEF HasTarget, InTarget, TargetSteps
<1>6. QED
  BY <1>2, <1>3, <1>4, <1>5

\* A call to a panel keeps the types.
LEMMA CallType ==
  ASSUME Typed, NEW w \in Workers, NEW next \in TargetSteps, InTarget(w),
         NEW effect \in [Panels -> [Hosts -> SiteState]],
         Post(w, effect, next) \/ Refused(w, next), CallUnchanged
  PROVE  Typed'
<1>1. Succeed(w, next) \/ FailAttempt(w, next)
  BY DEF Post, Refused
<1>2. panel' \in [Panels -> [Hosts -> SiteState]]
  BY DEF Post, Refused, Typed, TypeOK
<1>3. faults' \in 0..MaxFaults
  BY BoundsAssumption DEF Post, Refused, Fault, NoFault, Typed, TypeOK
<1>4. misread' \subseteq Panels \X Hosts
  <2>1. cur[w] \in Target
    BY DEF Typed, HasTarget
  <2>2. <<PanelFor(cur[w].panel), cur[w].host>> \in Panels \X Hosts
    BY <2>1, PanelForType DEF Target
  <2>3. QED
    BY <2>2 DEF Post, Refused, Typed, TypeOK
<1>5. UNCHANGED <<cluster, enabled, k8s, report, targets, domains, cur, lock, del, edits,
                  crashes, asked>>
  BY DEF CallUnchanged
<1>6. QED
  BY <1>1, <1>2, <1>3, <1>4, <1>5, AttemptType DEF Typed, TypeOK

LEMMA TypedAddSite ==
  ASSUME Typed, NEW w \in Workers, AddSite(w)
  PROVE  Typed'
<1>1. InTarget(w) /\ cur[w] \in Target
  BY DEF AddSite, InTarget, Typed, HasTarget
<1>2. SiteAdded(cur[w]) \in [Panels -> [Hosts -> SiteState]]
  BY <1>1, EffectsType DEF Typed
<1>3. QED
  BY <1>1, <1>2, CallType DEF AddSite, TargetSteps

LEMMA TypedCreateProxy ==
  ASSUME Typed, NEW w \in Workers, CreateProxy(w)
  PROVE  Typed'
<1>1. InTarget(w) /\ cur[w] \in Target
  BY DEF CreateProxy, InTarget, Typed, HasTarget
<1>2. ProxyCreated(cur[w]) \in [Panels -> [Hosts -> SiteState]]
  BY <1>1, EffectsType DEF Typed
<1>3. AfterProxy(cur[w]) \in TargetSteps
  BY DEF AfterProxy, TargetSteps
<1>4. QED
  BY <1>1, <1>2, <1>3, CallType DEF CreateProxy

LEMMA TypedEnsureHTTPS ==
  ASSUME Typed, NEW w \in Workers, EnsureHTTPS(w)
  PROVE  Typed'
<1>1. InTarget(w) /\ cur[w] \in Target
  BY DEF EnsureHTTPS, InTarget, Typed, HasTarget
<1>2. CertDeployed(cur[w]) \in [Panels -> [Hosts -> SiteState]]
  BY <1>1, EffectsType DEF Typed
<1>3. QED
  BY <1>1, <1>2, CallType DEF EnsureHTTPS, TargetSteps

\* Publishing a report of the right type, or failing to.
LEMMA PersistType ==
  ASSUME Typed, NEW rep \in Report, Persist(rep)
  PROVE  report' \in Report /\ faults' \in 0..MaxFaults
  BY BoundsAssumption DEF Persist, Fault, NoFault, Typed, TypeOK

LEMMA TypedRecord ==
  ASSUME Typed, NEW w \in Workers, Record(w)
  PROVE  Typed'
<1> DEFINE done == domains[w] \union {[target |-> cur[w], ok |-> ok[w]]}
<1>1. cur[w] \in Target
  BY DEF Record, InTarget, Typed, HasTarget
<1>2. done \subseteq Result
  BY <1>1 DEF Result, Typed, TypeOK
<1>3. [EmptyReport EXCEPT !.running = TRUE, !.domains = done] \in Report
  BY <1>2 DEF EmptyReport, Report, Verdict
<1>4. report' \in Report /\ faults' \in 0..MaxFaults
  BY <1>3, PersistType DEF Record
<1>5. domains' \in [Workers -> SUBSET Result]
  BY <1>2 DEF Record, Typed, TypeOK
<1>6. pc' \in [Workers -> Steps] /\ HasTarget'
  BY DEF Record, Goto, Steps, HasTarget, InTarget, Typed, TypeOK
<1>7. QED
  BY <1>4, <1>5, <1>6 DEF Record, Typed, TypeOK

LEMMA TypedFinish ==
  ASSUME Typed, NEW w \in Workers, Finish(w)
  PROVE  Typed'
<1> DEFINE rep == [running |-> FALSE,
                   verdict |-> IF \A r \in domains[w] : r.ok THEN "ok" ELSE "partial",
                   domains |-> domains[w], counted |-> targets[w]]
<1>1. rep \in Report
  BY DEF Report, Verdict, Typed, TypeOK
<1>2. report' \in Report /\ faults' \in 0..MaxFaults
  BY <1>1, PersistType DEF Finish
<1>3. pc' \in [Workers -> Steps] /\ HasTarget'
  BY DEF Finish, Goto, Steps, HasTarget, InTarget, Typed, TypeOK
<1>4. QED
  BY <1>2, <1>3 DEF Finish, Typed, TypeOK

\* Dropping the locals of some goroutines keeps the types.
LEMMA ForgetType ==
  ASSUME Typed, NEW W, Forget(W)
  PROVE  /\ pc' \in [Workers -> Steps]
         /\ targets' \in [Workers -> SUBSET Target]
         /\ domains' \in [Workers -> SUBSET Result]
         /\ cur' \in [Workers -> Target \union {NoTarget}]
         /\ tries' \in [Workers -> 0..Attempts - 1]
         /\ ok' \in [Workers -> BOOLEAN]
         /\ HasTarget'
<1> USE DEF Forget, Typed, TypeOK
<1>1. pc' \in [Workers -> Steps]
  BY DEF Steps
<1>2. targets' \in [Workers -> SUBSET Target]
  OBVIOUS
<1>3. domains' \in [Workers -> SUBSET Result]
  OBVIOUS
<1>4. cur' \in [Workers -> Target \union {NoTarget}]
  OBVIOUS
<1>5. tries' \in [Workers -> 0..Attempts - 1]
  BY BoundsAssumption
<1>6. ok' \in [Workers -> BOOLEAN]
  OBVIOUS
<1>7. HasTarget'
  BY DEF HasTarget, InTarget
<1>8. QED
  BY <1>1, <1>2, <1>3, <1>4, <1>5, <1>6, <1>7

LEMMA TypedRelease ==
  ASSUME Typed, NEW w \in Workers, Release(w)
  PROVE  Typed'
<1>1. lock' \in [Pods -> Workers \union {NoWorker}]
  BY DEF Release, Typed, TypeOK
<1>2. QED
  BY <1>1, ForgetType DEF Release, envVars, Typed, TypeOK

\* The steps of a run that call no panel.
LEMMA TypedRunStep ==
  ASSUME Typed, NEW w \in Workers, RunStep(w)
  PROVE  Typed'
<1> USE DEF Typed, HasTarget, InTarget, TypeOK, envVars, runVars, Fault, NoFault, Goto, Steps
<1>1. CASE Busy(w)
  BY <1>1 DEF Busy
<1>2. CASE Begin(w)
  <2>1. lock' \in [Pods -> Workers \union {NoWorker}]
    BY <1>2 DEF Begin
  <2>2. pc' \in [Workers -> Steps] /\ HasTarget'
    BY <1>2 DEF Begin
  <2>3. report' \in Report /\ faults' \in 0..MaxFaults
    BY <1>2, EmptyReportType, PersistType DEF Begin
  <2>4. QED
    BY <1>2, <2>1, <2>2, <2>3 DEF Begin
<1>3. CASE Skip(w)
  BY <1>3, EmptyReportType, BoundsAssumption DEF Skip, Persist
<1>4. CASE ListFails(w)
  <2>1. report' \in Report
    BY <1>4, EmptyReportType DEF ListFails
  <2>2. faults' \in 0..MaxFaults
    BY <1>4, BoundsAssumption DEF ListFails
  <2>3. pc' \in [Workers -> Steps] /\ HasTarget'
    BY <1>4 DEF ListFails
  <2>4. QED
    BY <1>4, <2>1, <2>2, <2>3 DEF ListFails
<1>5. CASE List(w)
  BY <1>5, ManagedTargetsType DEF List
<1>6. CASE Take(w)
  BY <1>6 DEF Take, Todo
<1>7. QED
  BY <1>1, <1>2, <1>3, <1>4, <1>5, <1>6, TypedAddSite, TypedCreateProxy,
     TypedEnsureHTTPS, TypedRecord, TypedFinish, TypedRelease DEF RunStep

\* The steps of users, of the environment and of a caller keep the types.
LEMMA TypedEnvironment ==
  ASSUME Typed,
         \/ \E i \in Ingresses, s \in Specs \union {NoIngress} : EditIngress(i, s)
         \/ Reconfigure
         \/ \E w \in Workers : Call(w)
  PROVE  Typed'
<1> USE DEF Typed, HasTarget, InTarget, TypeOK, envVars, runVars, Edit
<1>1. CASE \E i \in Ingresses, s \in Specs \union {NoIngress} : EditIngress(i, s)
  <2>1. PICK i \in Ingresses, s \in Specs \union {NoIngress} : EditIngress(i, s)
    BY <1>1
  <2>2. s # NoIngress => TargetOf(i, s) \in Target
    BY SpecsAssumption DEF TargetOf, Target, IngressSpec
  <2>3. asked' \subseteq Target
    BY <2>1, <2>2 DEF EditIngress
  <2>4. cluster' \in [Ingresses -> Specs \union {NoIngress}]
    BY <2>1 DEF EditIngress
  <2>5. edits' \in 0..MaxEdits
    BY <2>1, BoundsAssumption DEF EditIngress
  <2>6. QED
    BY <2>1, <2>3, <2>4, <2>5 DEF EditIngress
<1>2. CASE Reconfigure
  <2>1. edits' \in 0..MaxEdits
    BY <1>2, BoundsAssumption DEF Reconfigure
  <2>2. enabled' \in BOOLEAN /\ k8s' \in BOOLEAN
    BY <1>2 DEF Reconfigure
  <2>3. QED
    BY <1>2, <2>1, <2>2 DEF Reconfigure
<1>3. CASE \E w \in Workers : Call(w)
  BY <1>3 DEF Call, Goto, Steps
<1>4. QED
  BY <1>1, <1>2, <1>3

\* The steps of the delete requests keep the types.
LEMMA DelFailsType ==
  ASSUME Typed, NEW r \in Requests, DelFails(r)
  PROVE  del' \in [Requests -> DelRequest]
<1>1. del[r] \in DelRequest
  BY DEF Typed, TypeOK
<1>2. CASE del[r].tries < DeleteRetries
  <2>1. del' = [del EXCEPT ![r] = [del[r] EXCEPT !.step = "proxy",
                                                 !.tries = del[r].tries + 1]]
    BY <1>2 DEF DelFails, Typed, TypeOK
  <2>2. [del[r] EXCEPT !.step = "proxy", !.tries = del[r].tries + 1] \in DelRequest
    <3>1. del[r].tries + 1 \in 0..DeleteRetries
      BY <1>1, <1>2, BoundsAssumption DEF DelRequest
    <3>2. "proxy" \in DelSteps
      BY DEF DelSteps
    <3>3. QED
      BY <1>1, <3>1, <3>2 DEF DelRequest
  <2>3. QED
    BY <2>1, <2>2 DEF Typed, TypeOK
<1>3. CASE ~(del[r].tries < DeleteRetries)
  <2>1. del' = [del EXCEPT ![r] = [del[r] EXCEPT !.step = "gaveup"]]
    BY <1>3 DEF DelFails, Typed, TypeOK
  <2>2. [del[r] EXCEPT !.step = "gaveup"] \in DelRequest
    BY <1>1, DelStepType DEF DelSteps
  <2>3. QED
    BY <2>1, <2>2 DEF Typed, TypeOK
<1>4. QED
  BY <1>2, <1>3

LEMMA TypedDelRead ==
  ASSUME Typed, NEW r \in Requests, NEW i \in Ingresses, NEW h \in Hosts,
         NEW c \in BOOLEAN, DelRead(r, i, h, c)
  PROVE  Typed'
<1>1. faults' \in 0..MaxFaults
  BY BoundsAssumption DEF DelRead, Fault, NoFault, Typed, TypeOK
<1>2. del' \in [Requests -> DelRequest]
  <2> DEFINE d(p) == [step |-> "k8s", ing |-> i, host |-> h, panel |-> p,
                      clean |-> c, tries |-> 0]
  <2>1. \A p \in Panels : d(p) \in DelRequest
    BY BoundsAssumption DEF DelRequest, DelSteps
  <2>2. PICK p \in Panels : del' = [del EXCEPT ![r] = d(p)]
    BY PanelForType, PanelAssumption DEF DelRead
  <2>3. QED
    BY <2>1, <2>2 DEF Typed, TypeOK
<1>3. QED
  BY <1>1, <1>2 DEF DelRead, DelUnchanged, runVars, Typed, TypeOK, HasTarget, InTarget

LEMMA TypedDelStep ==
  ASSUME Typed, NEW r \in Requests, DelStep(r)
  PROVE  Typed'
<1> USE DEF DelUnchanged, runVars
<1>1. /\ del[r] \in DelRequest /\ del[r].panel \in Panels
      /\ del[r].host \in Hosts /\ del[r].ing \in Ingresses
  BY DEF DelRequest, Typed, TypeOK
<1>2. DelSiteOf(r) \in SiteState
  BY <1>1 DEF DelSiteOf, Typed, TypeOK
<1>3. faults' \in 0..MaxFaults
  BY BoundsAssumption
     DEF DelStep, DelIngress, DelProxy, DelLookup, DelSite, Fault, NoFault, Typed, TypeOK
<1>4. del' \in [Requests -> DelRequest]
  <2>1. CASE DelFails(r)
    BY <2>1, DelFailsType
  <2>2. CASE \E s \in DelSteps : del' = [del EXCEPT ![r].step = s]
    <3>1. PICK s \in DelSteps : del' = [del EXCEPT ![r].step = s]
      BY <2>2
    <3>2. del' = [del EXCEPT ![r] = [del[r] EXCEPT !.step = s]]
      BY <3>1
    <3>3. QED
      BY <1>1, <3>2, DelStepType DEF Typed, TypeOK
  <2>3. QED
    BY <2>1, <2>2 DEF DelStep, DelIngress, DelProxy, DelLookup, DelSite, DelSteps
<1>5. cluster' \in [Ingresses -> Specs \union {NoIngress}]
  BY <1>1 DEF DelStep, DelIngress, DelProxy, DelLookup, DelSite, Typed, TypeOK
<1>6. panel' \in [Panels -> [Hosts -> SiteState]]
  <2>1. [DelSiteOf(r) EXCEPT !.proxy = NoUrl] \in SiteState
    BY <1>2 DEF SiteState
  <2>2. PanelWith(del[r].panel, del[r].host, [DelSiteOf(r) EXCEPT !.proxy = NoUrl])
          \in [Panels -> [Hosts -> SiteState]]
    BY <1>1, <2>1, PanelWithType DEF Typed
  <2>3. PanelWith(del[r].panel, del[r].host, EmptySite) \in [Panels -> [Hosts -> SiteState]]
    BY <1>1, EmptySiteType, PanelWithType DEF Typed
  <2>4. panel \in [Panels -> [Hosts -> SiteState]]
    BY DEF Typed, TypeOK
  <2>5. QED
    BY <2>2, <2>3, <2>4 DEF DelStep, DelIngress, DelProxy, DelLookup, DelSite
<1>7. UNCHANGED <<enabled, k8s, report, runVars, edits, crashes, asked, misread>>
  BY DEF DelStep, DelIngress, DelProxy, DelLookup, DelSite
<1>8. QED
  BY <1>3, <1>4, <1>5, <1>6, <1>7 DEF Typed, TypeOK, HasTarget, InTarget

LEMMA TypedCrash ==
  ASSUME Typed, NEW p \in Pods, Crash(p)
  PROVE  Typed'
<1>1. lock' \in [Pods -> Workers \union {NoWorker}]
  BY DEF Crash, Typed, TypeOK
<1>2. del' \in [Requests -> DelRequest]
  <2>1. \A r \in Requests : [del[r] EXCEPT !.step = "lost"] \in DelRequest
    BY DelStepType DEF DelSteps, Typed, TypeOK
  <2>2. QED
    BY <2>1 DEF Crash, Typed, TypeOK
<1>3. crashes' \in 0..MaxCrashes
  BY BoundsAssumption DEF Crash, Typed, TypeOK
<1>4. QED
  BY <1>1, <1>2, <1>3, ForgetType DEF Crash, Typed, TypeOK

LEMMA TypedInit == Init => Typed
<1> SUFFICES ASSUME Init PROVE Typed
  OBVIOUS
<1>1. panel \in [Panels -> [Hosts -> SiteState]]
  BY EmptySiteType DEF Init
<1>2. del \in [Requests -> DelRequest]
  BY IdleRequestType DEF Init
<1>3. report \in Report
  BY EmptyReportType DEF Init
<1>4. QED
  BY <1>1, <1>2, <1>3, BoundsAssumption DEF Init, Typed, TypeOK, HasTarget, InTarget, Steps

LEMMA TypedNext == Typed /\ [Next]_vars => Typed'
<1> SUFFICES ASSUME Typed, [Next]_vars PROVE Typed'
  OBVIOUS
<1>1. CASE UNCHANGED vars
  BY <1>1 DEF vars, envVars, runVars, Typed, TypeOK, HasTarget, InTarget
<1>2. CASE \E w \in Workers : RunStep(w)
  BY <1>2, TypedRunStep
<1>3. CASE \E r \in Requests :
             \/ \E i \in Ingresses, h \in Hosts, c \in BOOLEAN : DelRead(r, i, h, c)
             \/ DelStep(r)
  BY <1>3, TypedDelRead, TypedDelStep
<1>4. CASE \E p \in Pods : Crash(p)
  BY <1>4, TypedCrash
<1>5. QED
  BY <1>1, <1>2, <1>3, <1>4, TypedEnvironment DEF Next

\* Every variable stays in its type, and a run that calls a panel has a target.
THEOREM TypeCorrect == Spec => []TypeOK
<1>1. Spec => []Typed
  BY TypedInit, TypedNext, PTL DEF Spec
<1>2. Typed => TypeOK
  BY DEF Typed
<1>3. QED
  BY <1>1, <1>2, PTL

-----------------------------------------------------------------------------
(* Mutual exclusion of the runs of a pod. *)

\* A step that takes no mutex and starts no run.
LEMMA LockFrame ==
  ASSUME Typed, RunHoldsLock, UNCHANGED lock,
         \A w \in Workers : InRun(w)' => InRun(w)
  PROVE  RunHoldsLock'
  BY DEF RunHoldsLock

\* The steps inside a run neither take nor free the mutex.
LEMMA LockRunStep ==
  ASSUME Typed, RunHoldsLock, NEW w \in Workers, RunStep(w)
  PROVE  RunHoldsLock'
<1> USE DEF Typed, TypeOK
<1>1. CASE Busy(w)
  BY <1>1 DEF Busy, Goto, InRun, RunHoldsLock
<1>2. CASE Begin(w)
  <2>1. PodOf[w] \in Pods
    BY PodsAssumption DEF Workers
  <2>2. SUFFICES ASSUME NEW v \in Workers, InRun(v)'
                 PROVE  lock'[PodOf[v]] = v
    BY DEF RunHoldsLock
  <2>3. CASE v = w
    BY <1>2, <2>1, <2>3 DEF Begin
  <2>4. CASE v # w
    <3>1. InRun(v)
      BY <1>2, <2>2, <2>4 DEF Begin, Goto, InRun
    <3>2. lock[PodOf[v]] = v
      BY <3>1 DEF RunHoldsLock
    <3>3. PodOf[v] # PodOf[w]
      BY <1>2, <3>2, NullAssumption DEF Begin
    <3>4. QED
      BY <1>2, <3>2, <3>3 DEF Begin
  <2>5. QED
    BY <2>3, <2>4
<1>3. CASE Release(w)
  <2>1. lock[PodOf[w]] = w
    BY <1>3 DEF Release, InRun, RunHoldsLock
  <2>2. SUFFICES ASSUME NEW v \in Workers, InRun(v)'
                 PROVE  lock'[PodOf[v]] = v
    BY DEF RunHoldsLock
  <2>3. v # w /\ InRun(v)
    BY <1>3, <2>2 DEF Release, Forget, InRun
  <2>4. lock[PodOf[v]] = v
    BY <2>3 DEF RunHoldsLock
  <2>5. QED
    BY <1>3, <2>1, <2>3, <2>4 DEF Release
<1>4. CASE \/ Skip(w) \/ ListFails(w) \/ List(w) \/ Take(w) \/ AddSite(w)
           \/ CreateProxy(w) \/ EnsureHTTPS(w) \/ Record(w) \/ Finish(w)
  <2>1. UNCHANGED lock
    BY <1>4 DEF Skip, ListFails, List, Take, AddSite, CreateProxy, EnsureHTTPS,
                Record, Finish, CallUnchanged
  <2>2. InRun(w)
    BY <1>4 DEF Skip, ListFails, List, Take, AddSite, CreateProxy, EnsureHTTPS,
                Record, Finish, InRun
  <2>3. pc' = pc \/ \E s : pc' = [pc EXCEPT ![w] = s]
    BY <1>4 DEF Skip, ListFails, List, Take, AddSite, CreateProxy, EnsureHTTPS,
                Record, Finish, Goto, Post, Refused, Succeed, FailAttempt
  <2>4. \A v \in Workers : InRun(v)' => InRun(v)
    BY <2>2, <2>3 DEF InRun
  <2>5. QED
    BY <2>1, <2>4, LockFrame
<1>5. QED
  BY <1>1, <1>2, <1>3, <1>4 DEF RunStep

LEMMA LockNext == Typed /\ RunHoldsLock /\ [Next]_vars => RunHoldsLock'
<1> SUFFICES ASSUME Typed, RunHoldsLock, [Next]_vars PROVE RunHoldsLock'
  OBVIOUS
<1>1. CASE UNCHANGED vars
  BY <1>1 DEF vars, runVars, RunHoldsLock, InRun
<1>2. CASE \/ \E i \in Ingresses, s \in Specs \union {NoIngress} : EditIngress(i, s)
           \/ Reconfigure
  BY <1>2 DEF EditIngress, Reconfigure, runVars, RunHoldsLock, InRun
<1>3. CASE \E w \in Workers : Call(w)
  BY <1>3 DEF Call, Goto, RunHoldsLock, InRun, Typed, TypeOK
<1>4. CASE \E r \in Requests :
             \/ \E i \in Ingresses, h \in Hosts, c \in BOOLEAN : DelRead(r, i, h, c)
             \/ DelStep(r)
  BY <1>4 DEF DelRead, DelStep, DelIngress, DelProxy, DelLookup, DelSite,
              DelUnchanged, runVars, RunHoldsLock, InRun
<1>5. CASE \E p \in Pods : Crash(p)
  <2>1. PICK p \in Pods : Crash(p)
    BY <1>5
  <2>2. \A v \in Workers : InRun(v)' => InRun(v) /\ PodOf[v] # p
    BY <2>1 DEF Crash, Forget, InRun
  <2>3. QED
    BY <2>1, <2>2 DEF Crash, RunHoldsLock, Typed, TypeOK
<1>6. QED
  BY <1>1, <1>2, <1>3, <1>4, <1>5, LockRunStep DEF Next

\* A pod never runs two syncs at once: whoever runs holds the pod's mutex.
THEOREM RunsExclude == Spec => []RunHoldsLock
<1>1. Init => RunHoldsLock
  BY DEF Init, RunHoldsLock, InRun
<1>2. Spec => []Typed
  BY TypedInit, TypedNext, PTL DEF Spec
<1>3. QED
  BY <1>1, <1>2, LockNext, PTL DEF Spec

-----------------------------------------------------------------------------
(* Panels serve only what a managed Ingress asked for.  The property is about  *)
(* the panels; to be inductive it also needs what the runs work on to have     *)
(* been asked for.                                                             *)

WorkWasAsked ==
    /\ ManagedTargets \subseteq asked
    /\ \A w \in Workers : targets[w] \subseteq asked
    /\ \A w \in Workers : InTarget(w) => cur[w] \in asked

\* An entry that some target asked for accounts for.
AskedEntry(p, h, s) ==
    /\ s.site => \E t \in asked : PanelFor(t.panel) = p /\ t.host = h
    /\ s.proxy # NoUrl => \E t \in asked : /\ PanelFor(t.panel) = p /\ t.host = h
                                          /\ t.url = s.proxy

AskedInv == WorkWasAsked /\ OnlyAskedIsServed

\* Writing an entry that was asked for keeps the property.
LEMMA AskedPanelWith ==
  ASSUME Typed, OnlyAskedIsServed, UNCHANGED asked,
         NEW p \in Panels, NEW h \in Hosts, NEW s, AskedEntry(p, h, s),
         panel' = PanelWith(p, h, s)
  PROVE  OnlyAskedIsServed'
<1> SUFFICES ASSUME NEW q \in Panels, NEW g \in Hosts
             PROVE  AskedEntry(q, g, panel'[q][g])
  BY DEF OnlyAskedIsServed, AskedEntry
<1>1. CASE q = p /\ g = h
  BY <1>1 DEF PanelWith, Typed, TypeOK
<1>2. CASE ~(q = p /\ g = h)
  <2>1. panel'[q][g] = panel[q][g]
    BY <1>2 DEF PanelWith, Typed, TypeOK
  <2>2. QED
    BY <2>1 DEF OnlyAskedIsServed, AskedEntry
<1>3. QED
  BY <1>1, <1>2

\* The calls a run makes write entries its target asked for.
LEMMA AskedEffects ==
  ASSUME Typed, AskedInv, UNCHANGED asked, NEW t \in asked,
         panel' \in {panel, SiteAdded(t), ProxyCreated(t), CertDeployed(t)}
  PROVE  OnlyAskedIsServed'
<1> DEFINE p == PanelFor(t.panel)
           s1 == [SiteOf(t) EXCEPT !.site = TRUE]
           s2 == [SiteOf(t) EXCEPT !.proxy = IF @ = NoUrl THEN t.url ELSE @]
           s3 == [SiteOf(t) EXCEPT !.https = TRUE]
<1>1. t \in Target /\ p \in Panels /\ t.host \in Hosts
  BY PanelForType DEF Typed, TypeOK, Target
<1>2. SiteOf(t) \in SiteState
  BY <1>1, EffectsType DEF Typed
<1>3. AskedEntry(p, t.host, SiteOf(t))
  BY <1>1 DEF AskedInv, OnlyAskedIsServed, AskedEntry, SiteOf
<1>4. AskedEntry(p, t.host, s1) /\ AskedEntry(p, t.host, s2) /\ AskedEntry(p, t.host, s3)
  <2>1. s1.site /\ s1.proxy = SiteOf(t).proxy
    BY <1>2 DEF SiteState
  <2>2. /\ s2.site = SiteOf(t).site
        /\ s2.proxy = t.url \/ s2.proxy = SiteOf(t).proxy
    BY <1>2 DEF SiteState
  <2>3. s3.site = SiteOf(t).site /\ s3.proxy = SiteOf(t).proxy
    BY <1>2 DEF SiteState
  <2>4. AskedEntry(p, t.host, s1)
    BY <1>3, <2>1 DEF AskedEntry
  <2>5. AskedEntry(p, t.host, s2)
    BY <1>3, <2>2 DEF AskedEntry
  <2>6. AskedEntry(p, t.host, s3)
    BY <1>3, <2>3 DEF AskedEntry
  <2>7. QED
    BY <2>4, <2>5, <2>6
<1>5. CASE panel' = panel
  BY <1>5 DEF AskedInv, OnlyAskedIsServed
<1>6. CASE panel' \in {SiteAdded(t), ProxyCreated(t), CertDeployed(t)}
  BY <1>1, <1>4, <1>6, AskedPanelWith DEF SiteAdded, ProxyCreated, CertDeployed, AskedInv
<1>7. QED
  BY <1>5, <1>6

LEMMA AskedRunStep ==
  ASSUME Typed, AskedInv, NEW w \in Workers, RunStep(w)
  PROVE  AskedInv'
<1> USE DEF Typed, TypeOK
<1>1. CASE AddSite(w) \/ CreateProxy(w) \/ EnsureHTTPS(w)
  <2>1. InTarget(w) /\ cur[w] \in asked
    BY <1>1 DEF AddSite, CreateProxy, EnsureHTTPS, InTarget, AskedInv, WorkWasAsked
  <2>2. UNCHANGED <<asked, cluster, targets, cur>>
    BY <1>1 DEF AddSite, CreateProxy, EnsureHTTPS, CallUnchanged
  <2>3. panel' \in {panel, SiteAdded(cur[w]), ProxyCreated(cur[w]), CertDeployed(cur[w])}
    BY <1>1 DEF AddSite, CreateProxy, EnsureHTTPS, Post, Refused
  <2>4. OnlyAskedIsServed'
    BY <2>1, <2>2, <2>3, AskedEffects
  <2>5. pc' = pc \/ \E s : pc' = [pc EXCEPT ![w] = s]
    BY <1>1 DEF AddSite, CreateProxy, EnsureHTTPS, Post, Refused, Succeed, FailAttempt, Goto
  <2>6. WorkWasAsked'
    BY <2>1, <2>2, <2>5 DEF AskedInv, WorkWasAsked, InTarget, ManagedTargets
  <2>7. QED
    BY <2>4, <2>6 DEF AskedInv
<1>2. CASE \/ Busy(w) \/ Begin(w) \/ Skip(w) \/ ListFails(w) \/ List(w) \/ Take(w)
           \/ Record(w) \/ Finish(w) \/ Release(w)
  <2> USE DEF Busy, Begin, Skip, ListFails, List, Take, Record, Finish, Release,
              Goto, Forget, envVars
  <2>1. UNCHANGED <<panel, asked, cluster>>
    BY <1>2
  <2>2. OnlyAskedIsServed'
    BY <2>1 DEF AskedInv, OnlyAskedIsServed
  <2>3. ManagedTargets' \subseteq asked'
    BY <2>1 DEF AskedInv, WorkWasAsked, ManagedTargets
  <2>4. \A v \in Workers : targets'[v] \subseteq asked'
    BY <1>2, <2>1 DEF AskedInv, WorkWasAsked
  <2>5. \A v \in Workers : InTarget(v)' => cur'[v] \in asked'
    <3>1. CASE Take(w)
      <4>1. cur'[w] \in asked
        BY <3>1 DEF Todo, AskedInv, WorkWasAsked
      <4>2. \A v \in Workers : v # w => cur'[v] = cur[v] /\ pc'[v] = pc[v]
        BY <3>1
      <4>3. QED
        BY <2>1, <4>1, <4>2 DEF AskedInv, WorkWasAsked, InTarget
    <3>2. CASE Release(w)
      BY <2>1, <3>2 DEF AskedInv, WorkWasAsked, InTarget
    <3>3. CASE \/ Busy(w) \/ Begin(w) \/ Skip(w) \/ ListFails(w) \/ List(w)
               \/ Record(w) \/ Finish(w)
      <4>1. cur' = cur /\ \E s : s \notin TargetSteps /\ pc' = [pc EXCEPT ![w] = s]
        BY <3>3 DEF TargetSteps
      <4>2. QED
        BY <2>1, <4>1 DEF AskedInv, WorkWasAsked, InTarget, TargetSteps
    <3>4. QED
      BY <1>2, <3>1, <3>2, <3>3
  <2>6. QED
    BY <2>2, <2>3, <2>4, <2>5 DEF AskedInv, WorkWasAsked
<1>3. QED
  BY <1>1, <1>2 DEF RunStep

\* Deleting takes away and never adds.
LEMMA AskedDelStep ==
  ASSUME Typed, AskedInv, NEW r \in Requests, DelStep(r)
  PROVE  AskedInv'
<1>1. del[r].panel \in Panels /\ del[r].host \in Hosts /\ DelSiteOf(r) \in SiteState
  BY DEF Typed, TypeOK, DelRequest, DelSiteOf
<1>2. UNCHANGED <<asked, targets, cur, pc>>
  BY DEF DelStep, DelIngress, DelProxy, DelLookup, DelSite, DelUnchanged, runVars
<1>3. AskedEntry(del[r].panel, del[r].host, DelSiteOf(r))
  BY <1>1 DEF AskedInv, OnlyAskedIsServed, AskedEntry, DelSiteOf
<1>4. AskedEntry(del[r].panel, del[r].host, [DelSiteOf(r) EXCEPT !.proxy = NoUrl])
  BY <1>1, <1>3 DEF AskedEntry, SiteState
<1>5. AskedEntry(del[r].panel, del[r].host, EmptySite)
  BY DEF AskedEntry, EmptySite
<1>6. \/ panel' = panel
      \/ panel' = PanelWith(del[r].panel, del[r].host, EmptySite)
      \/ panel' = PanelWith(del[r].panel, del[r].host, [DelSiteOf(r) EXCEPT !.proxy = NoUrl])
  BY DEF DelStep, DelIngress, DelProxy, DelLookup, DelSite
<1>7. OnlyAskedIsServed'
  <2>1. CASE panel' = panel
    BY <1>2, <2>1 DEF AskedInv, OnlyAskedIsServed
  <2>2. QED
    BY <1>1, <1>2, <1>4, <1>5, <1>6, <2>1, AskedPanelWith DEF AskedInv
<1>8. ManagedTargets' \subseteq ManagedTargets
  BY DEF DelStep, DelIngress, DelProxy, DelLookup, DelSite, ManagedTargets, Typed, TypeOK
<1>9. QED
  BY <1>2, <1>7, <1>8 DEF AskedInv, WorkWasAsked, InTarget

LEMMA AskedNext == Typed /\ AskedInv /\ [Next]_vars => AskedInv'
<1> SUFFICES ASSUME Typed, AskedInv, [Next]_vars PROVE AskedInv'
  OBVIOUS
<1> USE DEF AskedInv, WorkWasAsked
<1>1. CASE UNCHANGED vars
  BY <1>1 DEF vars, runVars, OnlyAskedIsServed, InTarget, ManagedTargets
<1>2. CASE \E i \in Ingresses, s \in Specs \union {NoIngress} : EditIngress(i, s)
  <2>1. PICK i \in Ingresses, s \in Specs \union {NoIngress} : EditIngress(i, s)
    BY <1>2
  <2>2. UNCHANGED <<panel, targets, cur, pc>> /\ asked \subseteq asked'
    BY <2>1 DEF EditIngress, runVars
  <2>3. ManagedTargets' \subseteq asked'
    <3>1. SUFFICES ASSUME NEW j \in Ingresses, cluster'[j] # NoIngress, cluster'[j].managed
                   PROVE  TargetOf(j, cluster'[j]) \in asked'
      BY DEF ManagedTargets
    <3>2. CASE j = i
      BY <2>1, <3>1, <3>2 DEF EditIngress, Typed, TypeOK
    <3>3. CASE j # i
      <4>1. cluster'[j] = cluster[j]
        BY <2>1, <3>3 DEF EditIngress, Typed, TypeOK
      <4>2. QED
        BY <2>2, <3>1, <4>1 DEF ManagedTargets
    <3>4. QED
      BY <3>2, <3>3
  <2>4. OnlyAskedIsServed'
    BY <2>2 DEF OnlyAskedIsServed
  <2>5. QED
    BY <2>2, <2>3, <2>4 DEF InTarget
<1>3. CASE Reconfigure \/ \E w \in Workers : Call(w)
  BY <1>3 DEF Reconfigure, Call, Goto, runVars, envVars, OnlyAskedIsServed, InTarget,
              ManagedTargets, Typed, TypeOK
<1>4. CASE \E r \in Requests, i \in Ingresses, h \in Hosts, c \in BOOLEAN : DelRead(r, i, h, c)
  BY <1>4 DEF DelRead, DelUnchanged, runVars, OnlyAskedIsServed, InTarget, ManagedTargets
<1>5. CASE \E p \in Pods : Crash(p)
  BY <1>5 DEF Crash, Forget, OnlyAskedIsServed, InTarget, ManagedTargets
<1>6. QED
  BY <1>1, <1>2, <1>3, <1>4, <1>5, AskedRunStep, AskedDelStep DEF Next

\* No panel serves a host, or an origin, that no managed Ingress asked for.
THEOREM ServedWasAsked == Spec => []OnlyAskedIsServed
<1>1. Init => AskedInv
  BY DEF Init, AskedInv, WorkWasAsked, OnlyAskedIsServed, EmptySite, InTarget, ManagedTargets
<1>2. Spec => []Typed
  BY TypedInit, TypedNext, PTL DEF Spec
<1>3. AskedInv => OnlyAskedIsServed
  BY DEF AskedInv
<1>4. QED
  BY <1>1, <1>2, <1>3, AskedNext, PTL DEF Spec

-----------------------------------------------------------------------------
(* A finished report accounts for every target of its run. *)

\* What a run has recorded, and is at, are targets it listed.
ResultsAreListed ==
    \A w \in Workers :
        /\ \A r \in domains[w] : r.target \in targets[w]
        /\ InTarget(w) => cur[w] \in targets[w]
        /\ pc[w] \in {"idle", "called", "off", "prepare"} => domains[w] = {}

ReportInv == ResultsAreListed /\ FinishedReportIsComplete

\* A step of one worker, as the invariant sees it.
LEMMA ListedFrame ==
  ASSUME ResultsAreListed, NEW w \in Workers,
         \A v \in Workers : v # w => UNCHANGED <<domains[v], targets[v], cur[v], pc[v]>>,
         /\ \A r \in domains'[w] : r.target \in targets'[w]
         /\ InTarget(w)' => cur'[w] \in targets'[w]
         /\ pc'[w] \in {"idle", "called", "off", "prepare"} => domains'[w] = {}
  PROVE  ResultsAreListed'
  BY DEF ResultsAreListed, InTarget

\* What a run publishes while it runs, or when it was skipped, is no verdict.
LEMMA NoVerdict ==
  ASSUME FinishedReportIsComplete, NEW rep, Persist(rep),
         rep.verdict \notin {"ok", "partial"}
  PROVE  FinishedReportIsComplete'
  BY DEF FinishedReportIsComplete, Persist

LEMMA ReportRunStep ==
  ASSUME Typed, ReportInv, NEW w \in Workers, RunStep(w)
  PROVE  ReportInv'
<1> USE DEF ReportInv, Goto
<1>1. CASE AddSite(w) \/ CreateProxy(w) \/ EnsureHTTPS(w)
  <2>1. UNCHANGED <<report, domains, targets, cur>>
    BY <1>1 DEF AddSite, CreateProxy, EnsureHTTPS, CallUnchanged
  <2>2. InTarget(w)
    BY <1>1 DEF AddSite, CreateProxy, EnsureHTTPS, InTarget
  <2>3. pc' = pc \/ \E s \in TargetSteps : pc' = [pc EXCEPT ![w] = s]
    BY <1>1 DEF AddSite, CreateProxy, EnsureHTTPS, Post, Refused, Succeed, FailAttempt,
                TargetSteps, AfterProxy
  <2>4. ResultsAreListed'
    BY <2>1, <2>2, <2>3 DEF ResultsAreListed, InTarget, TargetSteps, Typed, TypeOK
  <2>5. QED
    BY <2>1, <2>4 DEF FinishedReportIsComplete
<1>2. CASE Busy(w)
  <2>1. ResultsAreListed'
    BY <1>2, ListedFrame DEF Busy, ResultsAreListed, InTarget, Typed, TypeOK
  <2>2. QED
    BY <1>2, <2>1 DEF Busy, FinishedReportIsComplete
<1>3. CASE Begin(w)
  <2>1. ResultsAreListed'
    BY <1>3, ListedFrame DEF Begin, ResultsAreListed, InTarget, Typed, TypeOK
  <2>2. FinishedReportIsComplete'
    BY <1>3, NoVerdict DEF Begin, EmptyReport
  <2>3. QED
    BY <2>1, <2>2
<1>4. CASE Skip(w) \/ ListFails(w)
  <2>1. ResultsAreListed'
    BY <1>4, ListedFrame DEF Skip, ListFails, ResultsAreListed, InTarget, Typed, TypeOK
  <2>2. CASE Skip(w)
    BY <2>1, <2>2, NoVerdict DEF Skip, EmptyReport
  <2>3. CASE ListFails(w)
    BY <2>1, <2>3 DEF ListFails, EmptyReport, FinishedReportIsComplete
  <2>4. QED
    BY <1>4, <2>2, <2>3
<1>5. CASE List(w)
  <2>1. domains[w] = {}
    BY <1>5 DEF List, ResultsAreListed
  <2>2. ResultsAreListed'
    BY <1>5, <2>1, ListedFrame DEF List, ResultsAreListed, InTarget, Typed, TypeOK
  <2>3. QED
    BY <1>5, <2>2 DEF List, envVars, FinishedReportIsComplete
<1>6. CASE Take(w)
  <2>1. ResultsAreListed'
    BY <1>6, ListedFrame DEF Take, Todo, ResultsAreListed, InTarget, Typed, TypeOK
  <2>2. QED
    BY <1>6, <2>1 DEF Take, FinishedReportIsComplete
<1>7. CASE Record(w)
  <2>1. ResultsAreListed'
    BY <1>7, ListedFrame DEF Record, ResultsAreListed, InTarget, Typed, TypeOK
  <2>2. FinishedReportIsComplete'
    BY <1>7, NoVerdict DEF Record, EmptyReport
  <2>3. QED
    BY <2>1, <2>2
<1>8. CASE Finish(w)
  <2>1. ResultsAreListed'
    BY <1>8, ListedFrame DEF Finish, ResultsAreListed, InTarget, Typed, TypeOK
  <2>2. {r.target : r \in domains[w]} = targets[w]
    BY <1>8 DEF Finish, Todo, ResultsAreListed
  <2>3. CASE UNCHANGED report
    BY <2>1, <2>3 DEF FinishedReportIsComplete
  <2>4. CASE report' = [running |-> FALSE,
                        verdict |-> IF \A r \in domains[w] : r.ok THEN "ok" ELSE "partial",
                        domains |-> domains[w], counted |-> targets[w]]
    BY <2>1, <2>2, <2>4 DEF FinishedReportIsComplete
  <2>5. QED
    BY <1>8, <2>3, <2>4 DEF Finish, Persist
<1>9. CASE Release(w)
  <2>1. ResultsAreListed'
    BY <1>9 DEF Release, Forget, ResultsAreListed, InTarget
  <2>2. QED
    BY <1>9, <2>1 DEF Release, FinishedReportIsComplete
<1>10. QED
  BY <1>1, <1>2, <1>3, <1>4, <1>5, <1>6, <1>7, <1>8, <1>9 DEF RunStep

LEMMA ReportNext == Typed /\ ReportInv /\ [Next]_vars => ReportInv'
<1> SUFFICES ASSUME Typed, ReportInv, [Next]_vars PROVE ReportInv'
  OBVIOUS
<1> USE DEF ReportInv
<1>1. CASE \/ UNCHANGED vars
           \/ \E i \in Ingresses, s \in Specs \union {NoIngress} : EditIngress(i, s)
           \/ Reconfigure
           \/ \E r \in Requests :
                \/ \E i \in Ingresses, h \in Hosts, c \in BOOLEAN : DelRead(r, i, h, c)
                \/ DelStep(r)
  <2>1. UNCHANGED <<report, domains, targets, cur, pc>>
    BY <1>1 DEF vars, runVars, EditIngress, Reconfigure, DelRead, DelStep, DelIngress,
                DelProxy, DelLookup, DelSite, DelUnchanged
  <2>2. QED
    BY <2>1 DEF ResultsAreListed, FinishedReportIsComplete, InTarget
<1>2. CASE \E w \in Workers : Call(w)
  <2>1. PICK w \in Workers : Call(w)
    BY <1>2
  <2>2. ResultsAreListed'
    BY <2>1, ListedFrame DEF Call, Goto, ResultsAreListed, InTarget, Typed, TypeOK
  <2>3. QED
    BY <2>1, <2>2 DEF Call, FinishedReportIsComplete
<1>3. CASE \E p \in Pods : Crash(p)
  BY <1>3 DEF Crash, Forget, ResultsAreListed, FinishedReportIsComplete, InTarget
<1>4. QED
  BY <1>1, <1>2, <1>3, ReportRunStep DEF Next

\* A report that says the run is over has a result for every target the run
\* listed, and says "ok" exactly when every result is.
THEOREM FinishedReportsAreComplete == Spec => []FinishedReportIsComplete
<1>1. Init => ReportInv
  BY DEF Init, ReportInv, ResultsAreListed, FinishedReportIsComplete, EmptyReport, InTarget
<1>2. Spec => []Typed
  BY TypedInit, TypedNext, PTL DEF Spec
<1>3. ReportInv => FinishedReportIsComplete
  BY DEF ReportInv
<1>4. QED
  BY <1>1, <1>2, <1>3, ReportNext, PTL DEF Spec

-----------------------------------------------------------------------------
(* What is reported as OK is served, someone asked to delete it, or a refusal was misread. *)

Certified(t) == t.https => SiteOf(t).https

ExcusedFor(t) ==
    Cleaned(PanelFor(t.panel), t.host) \/ <<PanelFor(t.panel), t.host>> \in misread

Good(t) == (Serves(t) /\ Certified(t)) \/ ExcusedFor(t)

OKInv ==
    /\ \A w \in Workers : \A r \in domains[w] : r.ok => Good(r.target)
    /\ \A w \in Workers : pc[w] = "proxy" /\ ok[w] => SiteOf(cur[w]).site \/ ExcusedFor(cur[w])
    /\ \A w \in Workers : pc[w] = "https" /\ ok[w] => Serves(cur[w]) \/ ExcusedFor(cur[w])
    /\ \A w \in Workers : pc[w] = "record" /\ ok[w] => Good(cur[w])
    /\ \A r \in report.domains : r.ok => Good(r.target)
    /\ \A r \in Requests : del[r].step \in {"proxy", "lookup", "site"} => del[r].clean

\* A step takes nothing away that is served and that nobody asked to delete.
Keeps ==
    \A t \in Target :
        /\ ExcusedFor(t) => ExcusedFor(t)'
        /\ Serves(t) => Serves(t)' \/ ExcusedFor(t)'
        /\ SiteOf(t).site => SiteOf(t)'.site \/ ExcusedFor(t)'
        /\ SiteOf(t).https => SiteOf(t).https' \/ ExcusedFor(t)'

\* Writing an entry that has all the old one had.
LEMMA PanelGrows ==
  ASSUME Typed, NEW p \in Panels, NEW h \in Hosts, NEW s \in SiteState,
         panel' = PanelWith(p, h, s), UNCHANGED del, misread \subseteq misread',
         panel[p][h].site => s.site,
         panel[p][h].proxy # NoUrl => s.proxy # NoUrl,
         panel[p][h].https => s.https
  PROVE  Keeps
<1> SUFFICES ASSUME NEW t \in Target
             PROVE  /\ ExcusedFor(t) => ExcusedFor(t)'
                    /\ Serves(t) => Serves(t)'
                    /\ SiteOf(t).site => SiteOf(t)'.site
                    /\ SiteOf(t).https => SiteOf(t).https'
  BY DEF Keeps
<1>1. PanelFor(t.panel) \in Panels /\ t.host \in Hosts
  BY PanelForType DEF Target
<1>2. SiteOf(t)' = SiteOf(t) \/ (SiteOf(t)' = s /\ SiteOf(t) = panel[p][h])
  BY <1>1 DEF SiteOf, PanelWith, Typed, TypeOK
<1>3. QED
  BY <1>2 DEF Serves, ExcusedFor, Cleaned

\* No call of a run takes anything away from a panel.
LEMMA RunKeeps ==
  ASSUME Typed, NEW w \in Workers, RunStep(w)
  PROVE  Keeps
<1>1. UNCHANGED del /\ misread \subseteq misread'
  BY DEF RunStep, Busy, Begin, Skip, ListFails, List, Take, AddSite, CreateProxy,
         EnsureHTTPS, Record, Finish, Release, CallUnchanged, Post, Refused
<1>2. CASE UNCHANGED panel
  BY <1>1, <1>2 DEF Keeps, ExcusedFor, Cleaned, Serves, SiteOf
<1>3. CASE panel' # panel
  <2> DEFINE t == cur[w]
             p == PanelFor(t.panel)
             s1 == [SiteOf(t) EXCEPT !.site = TRUE]
             s2 == [SiteOf(t) EXCEPT !.proxy = IF @ = NoUrl THEN t.url ELSE @]
             s3 == [SiteOf(t) EXCEPT !.https = TRUE]
  <2>1. AddSite(w) \/ CreateProxy(w) \/ EnsureHTTPS(w)
    BY <1>3 DEF RunStep, Busy, Begin, Skip, ListFails, List, Take, Record, Finish, Release
  <2>2. t \in Target
    BY <2>1 DEF AddSite, CreateProxy, EnsureHTTPS, Typed, HasTarget, InTarget
  <2>3. p \in Panels /\ t.host \in Hosts /\ t.url \in Urls
    BY <2>2, PanelForType DEF Target
  <2>4. SiteOf(t) \in SiteState /\ SiteOf(t) = panel[p][t.host]
    BY <2>2, EffectsType DEF Typed, SiteOf
  <2>5. s1 \in SiteState /\ s2 \in SiteState /\ s3 \in SiteState
    BY <2>3, <2>4 DEF SiteState
  <2>6. panel' \in {SiteAdded(t), ProxyCreated(t), CertDeployed(t)}
    BY <1>3, <2>1 DEF AddSite, CreateProxy, EnsureHTTPS, Post, Refused
  <2>7. CASE panel' = SiteAdded(t)
    <3>1. s1.site /\ s1.proxy = SiteOf(t).proxy /\ s1.https = SiteOf(t).https
      BY <2>4 DEF SiteState
    <3>2. QED
      BY <1>1, <2>3, <2>4, <2>5, <2>7, <3>1, PanelGrows DEF SiteAdded
  <2>8. CASE panel' = ProxyCreated(t)
    <3>1. /\ s2.site = SiteOf(t).site /\ s2.https = SiteOf(t).https
          /\ s2.proxy # NoUrl
      BY <2>3, <2>4, NullAssumption DEF SiteState
    <3>2. QED
      BY <1>1, <2>3, <2>4, <2>5, <2>8, <3>1, PanelGrows DEF ProxyCreated
  <2>9. CASE panel' = CertDeployed(t)
    <3>1. s3.site = SiteOf(t).site /\ s3.proxy = SiteOf(t).proxy /\ s3.https
      BY <2>4 DEF SiteState
    <3>2. QED
      BY <1>1, <2>3, <2>4, <2>5, <2>9, <3>1, PanelGrows DEF CertDeployed
  <2>10. QED
    BY <2>6, <2>7, <2>8, <2>9
<1>4. QED
  BY <1>2, <1>3

\* Something to delete stays something to delete, whatever becomes of the request.
LEMMA ExcuseStays ==
  ASSUME Typed, misread \subseteq misread',
         \A r \in Requests :
            del[r].clean /\ del[r].step \notin {"idle", "k8s", "refused"} =>
                /\ del'[r].clean /\ del'[r].step \notin {"idle", "k8s", "refused"}
                /\ del'[r].panel = del[r].panel /\ del'[r].host = del[r].host
  PROVE  \A t \in Target : ExcusedFor(t) => ExcusedFor(t)'
  BY DEF ExcusedFor, Cleaned

\* How a step of a request changes it.
LEMMA DelShape ==
  ASSUME Typed, NEW r \in Requests, DelStep(r)
  PROVE  /\ \A q \in Requests : q # r => del'[q] = del[q]
         /\ del'[r].clean = del[r].clean /\ del'[r].panel = del[r].panel
         /\ del'[r].host = del[r].host
         /\ del[r].step = "k8s" \/
              (/\ del[r].step \in {"proxy", "lookup", "site"}
               /\ del'[r].step \notin {"idle", "k8s", "refused"})
         /\ (del[r].step = "k8s" /\ del'[r].step \in {"proxy", "lookup", "site"}) => del[r].clean
<1>1. del[r] \in DelRequest
  BY DEF Typed, TypeOK
<1>2. CASE DelFails(r)
  <2>1. del[r].step \in {"proxy", "lookup", "site"}
    <3>0. CASE DelIngress(r)
      <4>1. del'[r].step \in {"proxy", "done", "refused"} /\ del'[r].tries = del[r].tries
        BY <1>1, <3>0 DEF DelIngress, Typed, TypeOK, DelRequest
      <4>2. del[r].step = "k8s"
        BY <3>0 DEF DelIngress
      <4>3. ~(del[r].tries < DeleteRetries)
        BY <1>1, <1>2, <4>1 DEF DelFails, Typed, TypeOK, DelRequest
      <4>4. del'[r].step = "gaveup"
        BY <1>1, <1>2, <4>3 DEF DelFails, Typed, TypeOK, DelRequest
      <4>5. QED
        BY <4>1, <4>4
    <3>1. CASE DelProxy(r)
      BY <3>1 DEF DelProxy
    <3>2. CASE DelLookup(r)
      BY <3>2 DEF DelLookup
    <3>3. CASE DelSite(r)
      BY <3>3 DEF DelSite
    <3>4. QED
      BY <3>0, <3>1, <3>2, <3>3 DEF DelStep
  <2>2. QED
    BY <1>1, <1>2, <2>1 DEF DelFails, Typed, TypeOK, DelRequest
<1>3. CASE \E s \in {"proxy", "done", "refused"} :
              /\ del[r].step = "k8s" /\ (s = "proxy" => del[r].clean)
              /\ del' = [del EXCEPT ![r].step = s]
  BY <1>1, <1>3 DEF Typed, TypeOK, DelRequest
<1>4. CASE \E s \in {"lookup", "site", "done"} :
              /\ del[r].step \in {"proxy", "lookup", "site"}
              /\ del' = [del EXCEPT ![r].step = s]
  BY <1>1, <1>4 DEF Typed, TypeOK, DelRequest
<1>5. QED
  BY <1>2, <1>3, <1>4 DEF DelStep, DelIngress, DelProxy, DelLookup, DelSite

LEMMA DelKeeps ==
  ASSUME Typed, OKInv, NEW r \in Requests, DelStep(r)
  PROVE  Keeps
<1>a. UNCHANGED misread
  BY DEF DelStep, DelIngress, DelProxy, DelLookup, DelSite, DelUnchanged
<1>1. \A t \in Target : ExcusedFor(t) => ExcusedFor(t)'
  BY <1>a, DelShape, ExcuseStays
<1>2. CASE UNCHANGED panel
  BY <1>1, <1>2 DEF Keeps, Serves, SiteOf
<1>3. CASE panel' # panel
  <2> DEFINE p == del[r].panel
             h == del[r].host
  <2>1. del[r].step \in {"proxy", "site"} /\ \E s : panel' = PanelWith(p, h, s)
    BY <1>3 DEF DelStep, DelIngress, DelProxy, DelLookup, DelSite
  <2>2. Cleaned(p, h)
    BY <2>1 DEF OKInv, Cleaned
  <2>3. \A t \in Target : SiteOf(t)' = SiteOf(t) \/ ExcusedFor(t)
    <3>1. SUFFICES ASSUME NEW t \in Target, ~(PanelFor(t.panel) = p /\ t.host = h)
                   PROVE  SiteOf(t)' = SiteOf(t)
      BY <2>2 DEF ExcusedFor
    <3>2. PanelFor(t.panel) \in Panels /\ t.host \in Hosts
      BY PanelForType DEF Target
    <3>3. QED
      BY <2>1, <3>1, <3>2 DEF SiteOf, PanelWith, Typed, TypeOK
  <2>4. QED
    BY <1>1, <2>3 DEF Keeps, Serves
<1>4. QED
  BY <1>2, <1>3

\* What was good stays good when a step keeps what is served.
LEMMA GoodStays ==
  ASSUME Keeps, NEW t \in Target
  PROVE  /\ Good(t) => Good(t)'
         /\ Serves(t) \/ ExcusedFor(t) => Serves(t)' \/ ExcusedFor(t)'
         /\ SiteOf(t).site \/ ExcusedFor(t) => SiteOf(t)'.site \/ ExcusedFor(t)'
  BY DEF Keeps, Good, Certified

\* A step that keeps what is served, records nothing and calls no panel.
LEMMA OKFrame ==
  ASSUME Typed, OKInv, Keeps,
         report'.domains \subseteq report.domains \union UNION {domains[w] : w \in Workers},
         \A w \in Workers :
            /\ UNCHANGED domains[w] \/ domains'[w] = {}
            /\ pc'[w] \notin {"proxy", "https", "record"} \/ UNCHANGED <<cur[w], ok[w], pc[w]>>,
         \A r \in Requests : del'[r].step \in {"proxy", "lookup", "site"} => del'[r].clean
  PROVE  OKInv'
<1>1. \A w \in Workers : domains[w] \subseteq Result
  BY DEF Typed, TypeOK
<1>2. \A r \in Result : r.target \in Target
  BY DEF Result
<1>3. \A w \in Workers : \A r \in domains'[w] : r.ok => Good(r.target)'
  BY <1>1, <1>2, GoodStays DEF OKInv
<1>4. \A w \in Workers : pc'[w] \in {"proxy", "https", "record"} =>
         cur[w] \in Target /\ pc[w] = pc'[w] /\ ok'[w] = ok[w] /\ cur'[w] = cur[w]
  BY DEF Typed, HasTarget, InTarget
<1>5. \A w \in Workers : pc'[w] = "https" /\ ok'[w] => Serves(cur[w])' \/ ExcusedFor(cur[w])'
  BY <1>4, GoodStays DEF OKInv, Serves, ExcusedFor, SiteOf
<1>6. \A w \in Workers : pc'[w] = "record" /\ ok'[w] => Good(cur[w])'
  BY <1>4, GoodStays DEF OKInv, Good, Serves, Certified, ExcusedFor, SiteOf
<1>7. \A r \in report'.domains : r.ok => Good(r.target)'
  <2>1. SUFFICES ASSUME NEW r \in report'.domains, r.ok PROVE Good(r.target)'
    OBVIOUS
  <2>2. r \in Result /\ Good(r.target)
    BY <1>1, <2>1 DEF OKInv, Typed, TypeOK, Report
  <2>3. QED
    BY <1>2, <2>2, GoodStays
<1>8. \A w \in Workers : pc'[w] = "proxy" /\ ok'[w] => SiteOf(cur[w])'.site \/ ExcusedFor(cur[w])'
  BY <1>4, GoodStays DEF OKInv, ExcusedFor, SiteOf
<1>9. QED
  BY <1>3, <1>5, <1>6, <1>7, <1>8 DEF OKInv

\* The steps of a run other than the calls and the recording of a result.
LEMMA OKQuietStep ==
  ASSUME Typed, OKInv, NEW w \in Workers, RunStep(w),
         \/ Busy(w) \/ Begin(w) \/ Skip(w) \/ ListFails(w) \/ List(w) \/ Take(w)
         \/ Finish(w) \/ Release(w)
  PROVE  OKInv'
<1> USE DEF Busy, Begin, Skip, ListFails, List, Take, Finish, Release, envVars
<1>1. Keeps
  BY RunKeeps
<1>2. UNCHANGED del
  OBVIOUS
<1>3. report'.domains \subseteq report.domains \union UNION {domains[v] : v \in Workers}
  BY DEF Persist, EmptyReport
<1>4. \A v \in Workers : UNCHANGED domains[v] \/ domains'[v] = {}
  BY DEF Forget
<1>5. \A v \in Workers :
         pc'[v] \notin {"proxy", "https", "record"} \/ UNCHANGED <<cur[v], ok[v], pc[v]>>
  <2>1. CASE Release(w)
    BY <2>1 DEF Forget
  <2>2. CASE ~Release(w)
    <3>1. /\ \A v \in Workers : v # w => UNCHANGED <<cur[v], ok[v], pc[v]>>
          /\ pc'[w] \notin {"proxy", "https", "record"}
      BY <2>2 DEF Goto, Typed, TypeOK
    <3>2. QED
      BY <3>1
  <2>3. QED
    BY <2>1, <2>2
<1>6. QED
  BY <1>1, <1>2, <1>3, <1>4, <1>5, OKFrame DEF OKInv

\* A call for the target of `w`: what is left to show is about `w` alone.
LEMMA OKCall ==
  ASSUME Typed, OKInv, Keeps, NEW w \in Workers,
         UNCHANGED <<del, domains, cur, report>>,
         \A v \in Workers : v # w => UNCHANGED <<pc[v], ok[v]>>,
         pc'[w] = "proxy" /\ ok'[w] => SiteOf(cur[w])'.site \/ ExcusedFor(cur[w])',
         pc'[w] = "https" /\ ok'[w] => Serves(cur[w])' \/ ExcusedFor(cur[w])',
         pc'[w] = "record" /\ ok'[w] => Good(cur[w])'
  PROVE  OKInv'
<1>1. \A v \in Workers : \A r \in domains'[v] : r.ok => Good(r.target)'
  BY GoodStays DEF OKInv, Typed, TypeOK, Result
<1>2. \A r \in report'.domains : r.ok => Good(r.target)'
  BY GoodStays DEF OKInv, Typed, TypeOK, Report, Result
<1>3. \A v \in Workers : pc'[v] = "https" /\ ok'[v] => Serves(cur[v])' \/ ExcusedFor(cur[v])'
  <2>1. SUFFICES ASSUME NEW v \in Workers, v # w, pc'[v] = "https", ok'[v]
                 PROVE  Serves(cur[v])' \/ ExcusedFor(cur[v])'
    OBVIOUS
  <2>2. cur[v] \in Target /\ (Serves(cur[v]) \/ ExcusedFor(cur[v]))
    BY <2>1 DEF OKInv, Typed, HasTarget, InTarget
  <2>3. QED
    BY <2>2, GoodStays DEF Serves, ExcusedFor, SiteOf
<1>4. \A v \in Workers : pc'[v] = "record" /\ ok'[v] => Good(cur[v])'
  <2>1. SUFFICES ASSUME NEW v \in Workers, v # w, pc'[v] = "record", ok'[v]
                 PROVE  Good(cur[v])'
    OBVIOUS
  <2>2. cur[v] \in Target /\ Good(cur[v])
    BY <2>1 DEF OKInv, Typed, HasTarget, InTarget
  <2>3. QED
    BY <2>2, GoodStays DEF Good, Serves, Certified, ExcusedFor, SiteOf
<1>5. \A v \in Workers : pc'[v] = "proxy" /\ ok'[v] => SiteOf(cur[v])'.site \/ ExcusedFor(cur[v])'
  <2>1. SUFFICES ASSUME NEW v \in Workers, v # w, pc'[v] = "proxy", ok'[v]
                 PROVE  SiteOf(cur[v])'.site \/ ExcusedFor(cur[v])'
    OBVIOUS
  <2>2. cur[v] \in Target /\ (SiteOf(cur[v]).site \/ ExcusedFor(cur[v]))
    BY <2>1 DEF OKInv, Typed, HasTarget, InTarget
  <2>3. QED
    BY <2>2, GoodStays DEF ExcusedFor, SiteOf
<1>6. QED
  BY <1>1, <1>2, <1>3, <1>4, <1>5 DEF OKInv

\* An attempt concerns its worker alone.
LEMMA AttemptFrame ==
  ASSUME Typed, NEW w \in Workers, NEW next, Succeed(w, next) \/ FailAttempt(w, next)
  PROVE  \A v \in Workers : v # w => UNCHANGED <<pc[v], ok[v]>>
<1>1. pc' = pc \/ pc' = [pc EXCEPT ![w] = next]
  BY DEF Succeed, FailAttempt, Goto
<1>2. ok' = ok \/ ok' = [ok EXCEPT ![w] = FALSE]
  BY DEF Succeed, FailAttempt
<1>3. QED
  BY <1>1, <1>2 DEF Typed, TypeOK

\* A step given up is not reported as OK.
LEMMA GivenUp ==
  ASSUME Typed, NEW w \in Workers, NEW next, FailAttempt(w, next)
  PROVE  pc'[w] = pc[w] \/ ~ok'[w]
  BY DEF FailAttempt, Typed, TypeOK

\* A refusal that is misread excuses the host.
LEMMA MisreadExcuses ==
  ASSUME Typed, NEW w \in Workers, cur[w] \in Target, UNCHANGED cur,
         misread' = misread \union {<<PanelFor(cur[w].panel), cur[w].host>>}
  PROVE  ExcusedFor(cur[w])'
  BY DEF ExcusedFor

\* AddSite: when it succeeds there is a site.
LEMMA OKAddSite ==
  ASSUME Typed, OKInv, NEW w \in Workers, AddSite(w)
  PROVE  OKInv'
<1> DEFINE t == cur[w]
<1>1. Keeps
  BY RunKeeps DEF RunStep
<1>2. UNCHANGED <<del, domains, cur, report>>
  BY DEF AddSite, CallUnchanged
<1>3. t \in Target /\ pc[w] = "site"
  BY DEF AddSite, Typed, HasTarget, InTarget
<1>4. \A v \in Workers : v # w => UNCHANGED <<pc[v], ok[v]>>
  BY AttemptFrame DEF AddSite, Post
<1>5. pc'[w] \in {"site", "proxy"}
  BY <1>3 DEF AddSite, Post, Succeed, FailAttempt, Goto, Typed, TypeOK
<1>6. CASE FailAttempt(w, "proxy")
  <2>1. pc'[w] # "proxy" \/ ~ok'[w]
    BY <1>3, <1>6, GivenUp
  <2>2. QED
    BY <1>1, <1>2, <1>4, <1>5, <2>1, OKCall
<1>7. CASE panel' = SiteAdded(t)
  <2>1. PanelFor(t.panel) \in Panels /\ t.host \in Hosts
    BY <1>3, PanelForType DEF Target
  <2>2. SiteOf(t) \in SiteState
    BY <1>3, EffectsType DEF Typed
  <2>3. SiteOf(t)' = [SiteOf(t) EXCEPT !.site = TRUE]
    BY <1>2, <1>7, <2>1 DEF SiteAdded, PanelWith, SiteOf, Typed, TypeOK
  <2>4. SiteOf(t)'.site
    BY <2>2, <2>3 DEF SiteState
  <2>5. SiteOf(cur[w])'.site
    BY <1>2, <2>4 DEF SiteOf
  <2>6. QED
    BY <1>1, <1>2, <1>4, <1>5, <2>5, OKCall
<1>8. CASE misread' = misread \union {<<PanelFor(t.panel), t.host>>}
  BY <1>1, <1>2, <1>3, <1>4, <1>5, <1>8, MisreadExcuses, OKCall
<1>9. QED
  BY <1>6, <1>7, <1>8 DEF AddSite, Post

\* CreateProxy: when it succeeds the host is served.
LEMMA OKCreateProxy ==
  ASSUME Typed, OKInv, NEW w \in Workers, CreateProxy(w)
  PROVE  OKInv'
<1> DEFINE t == cur[w]
<1>1. Keeps
  BY RunKeeps DEF RunStep
<1>2. UNCHANGED <<del, domains, cur, report>>
  BY DEF CreateProxy, CallUnchanged
<1>3. t \in Target /\ pc[w] = "proxy"
  BY DEF CreateProxy, Typed, HasTarget, InTarget
<1>4. \A v \in Workers : v # w => UNCHANGED <<pc[v], ok[v]>>
  BY AttemptFrame DEF CreateProxy, Post, Refused
<1>a. AfterProxy(t) \in {"https", "record"}
  BY DEF AfterProxy
<1>b. ok[w] => SiteOf(cur[w])'.site \/ ExcusedFor(cur[w])'
  BY <1>1, <1>2, <1>3, GoodStays DEF OKInv, SiteOf, ExcusedFor
<1>c. Succeed(w, AfterProxy(t)) => pc'[w] = AfterProxy(t) /\ ok' = ok
  BY DEF Succeed, Goto, Typed, TypeOK
<1>5. CASE FailAttempt(w, AfterProxy(t))
  <2>1. pc'[w] \notin {"https", "record"} \/ ~ok'[w]
    BY <1>3, <1>5, GivenUp
  <2>2. pc'[w] = "proxy" => ok' = ok
    BY <1>5, <1>a DEF FailAttempt, Goto, Typed, TypeOK
  <2>3. QED
    BY <1>1, <1>2, <1>4, <1>b, <2>1, <2>2, OKCall
<1>6. CASE panel' = ProxyCreated(t) /\ Succeed(w, AfterProxy(t)) /\ SiteOf(t).site
  <2>1. PanelFor(t.panel) \in Panels /\ t.host \in Hosts /\ t.url \in Urls
    BY <1>3, PanelForType DEF Target
  <2>2. SiteOf(t) \in SiteState
    BY <1>3, EffectsType DEF Typed
  <2>3. SiteOf(t)' = [SiteOf(t) EXCEPT !.proxy = IF @ = NoUrl THEN t.url ELSE @]
    BY <1>2, <1>6, <2>1 DEF ProxyCreated, PanelWith, SiteOf, Typed, TypeOK
  <2>4. SiteOf(t)'.site /\ SiteOf(t)'.proxy # NoUrl
    BY <1>6, <2>1, <2>2, <2>3, NullAssumption DEF SiteState
  <2>5. Serves(t)'
    BY <1>2, <2>4 DEF Serves, SiteOf
  <2>7. pc'[w] = "record" => ~t.https
    BY <1>6, <1>c DEF AfterProxy
  <2>8. pc'[w] = "record" => Good(t)'
    BY <1>2, <2>5, <2>7 DEF Good, Certified
  <2>9. QED
    BY <1>1, <1>2, <1>4, <1>6, <1>a, <1>c, <2>5, <2>8, OKCall
<1>7. CASE Succeed(w, AfterProxy(t)) /\ (ok[w] => ExcusedFor(t)')
  <2>1. ok'[w] => ExcusedFor(cur[w])' /\ Good(cur[w])'
    BY <1>2, <1>7, <1>c DEF Good, ExcusedFor
  <2>2. QED
    BY <1>1, <1>2, <1>4, <1>7, <1>a, <1>c, <2>1, OKCall
<1>9. CASE ~SiteOf(t).site /\ Refused(w, AfterProxy(t))
  <2>1. ok[w] => ExcusedFor(t)
    BY <1>3, <1>9 DEF OKInv
  <2>2. ok[w] => ExcusedFor(t)'
    BY <1>1, <1>2, <1>3, <2>1, GoodStays DEF Keeps, ExcusedFor
  <2>3. QED
    BY <1>5, <1>7, <1>9, <2>2 DEF Refused
<1>10. CASE /\ Succeed(w, AfterProxy(t))
            /\ misread' = misread \union {<<PanelFor(t.panel), t.host>>}
  <2>1. ExcusedFor(t)'
    BY <1>2, <1>3, <1>10, MisreadExcuses
  <2>2. QED
    BY <1>7, <1>10, <2>1
<1>11. QED
  BY <1>5, <1>6, <1>9, <1>10 DEF CreateProxy, Post

\* EnsureHTTPS: when it succeeds the host has its certificate.
LEMMA OKEnsureHTTPS ==
  ASSUME Typed, OKInv, NEW w \in Workers, EnsureHTTPS(w)
  PROVE  OKInv'
<1> DEFINE t == cur[w]
<1>1. Keeps
  BY RunKeeps DEF RunStep
<1>2. UNCHANGED <<del, domains, cur, report>>
  BY DEF EnsureHTTPS, CallUnchanged
<1>3. t \in Target /\ pc[w] = "https"
  BY DEF EnsureHTTPS, Typed, HasTarget, InTarget
<1>4. \A v \in Workers : v # w => UNCHANGED <<pc[v], ok[v]>>
  BY AttemptFrame DEF EnsureHTTPS, Post, Refused
<1>5. ok[w] => Serves(t)' \/ ExcusedFor(t)'
  BY <1>1, <1>2, <1>3, GoodStays DEF OKInv, Serves, ExcusedFor, SiteOf
<1>a. Succeed(w, "record") => pc'[w] = "record" /\ ok' = ok
  BY DEF Succeed, Goto, Typed, TypeOK
<1>6. CASE FailAttempt(w, "record")
  <2>1. pc'[w] \in {"https", "record"} /\ (pc'[w] = "https" => UNCHANGED ok)
    BY <1>3, <1>6 DEF FailAttempt, Goto, Typed, TypeOK
  <2>2. pc'[w] # "record" \/ ~ok'[w]
    BY <1>3, <1>6, GivenUp
  <2>3. QED
    BY <1>1, <1>2, <1>4, <1>5, <2>1, <2>2, OKCall DEF Serves, ExcusedFor, SiteOf
<1>7. CASE panel' = CertDeployed(t) /\ Succeed(w, "record")
  <2>1. PanelFor(t.panel) \in Panels /\ t.host \in Hosts
    BY <1>3, PanelForType DEF Target
  <2>2. SiteOf(t) \in SiteState
    BY <1>3, EffectsType DEF Typed
  <2>3. SiteOf(t)' = [SiteOf(t) EXCEPT !.https = TRUE]
    BY <1>2, <1>7, <2>1 DEF CertDeployed, PanelWith, SiteOf, Typed, TypeOK
  <2>4. Certified(t)'
    BY <1>2, <2>2, <2>3 DEF Certified, SiteOf, SiteState
  <2>5. ok'[w] => Good(t)'
    BY <1>5, <1>7, <1>a, <2>4 DEF Good
  <2>6. QED
    BY <1>1, <1>2, <1>4, <1>7, <1>a, <2>5, OKCall
<1>8. CASE Succeed(w, "record") /\ (ok[w] => ExcusedFor(t)')
  <2>1. ok'[w] => Good(cur[w])'
    BY <1>2, <1>8, <1>a DEF Good, ExcusedFor
  <2>2. QED
    BY <1>1, <1>2, <1>4, <1>8, <1>a, <2>1, OKCall
<1>9. CASE ~SiteOf(t).site /\ Refused(w, "record")
  <2>1. ok[w] => ExcusedFor(t)
    BY <1>3, <1>9 DEF OKInv, Serves
  <2>2. ok[w] => ExcusedFor(t)'
    BY <1>1, <1>2, <1>3, <2>1 DEF Keeps, ExcusedFor
  <2>3. QED
    BY <1>6, <1>8, <1>9, <2>2 DEF Refused
<1>10. CASE /\ Succeed(w, "record")
            /\ misread' = misread \union {<<PanelFor(t.panel), t.host>>}
  <2>1. ExcusedFor(t)'
    BY <1>2, <1>3, <1>10, MisreadExcuses
  <2>2. QED
    BY <1>8, <1>10, <2>1
<1>11. QED
  BY <1>6, <1>7, <1>9, <1>10 DEF EnsureHTTPS, Post

\* Record: a result that says ok is of a target that is good.
LEMMA OKRecord ==
  ASSUME Typed, OKInv, NEW w \in Workers, Record(w)
  PROVE  OKInv'
<1> DEFINE res == [target |-> cur[w], ok |-> ok[w]]
<1>1. Keeps
  BY RunKeeps DEF RunStep
<1>2. UNCHANGED <<del, cur, ok>> /\ cur[w] \in Target
  BY DEF Record, Typed, HasTarget, InTarget
<1>3. \A r : r = res /\ r.ok => Good(r.target)'
  <2>1. ok[w] => Good(cur[w])
    BY DEF OKInv, Record
  <2>2. \A t \in Target : t = cur[w] /\ ok[w] => Good(t)'
    BY <1>1, <2>1, GoodStays
  <2>3. QED
    BY <1>2, <2>2
<1>4. domains'[w] = domains[w] \union {res} /\ \A v \in Workers : v # w => UNCHANGED domains[v]
  BY DEF Record, Typed, TypeOK
<1>5. \A v \in Workers : \A r \in domains[v] : r.ok => Good(r.target)'
  BY <1>1, GoodStays DEF OKInv, Typed, TypeOK, Result
<1>6. \A v \in Workers : \A r \in domains'[v] : r.ok => Good(r.target)'
  BY <1>3, <1>4, <1>5
<1>7. report' = report \/ report'.domains = domains[w] \union {res}
  BY DEF Record, Persist, EmptyReport
<1>8. \A r \in report.domains : r.ok => Good(r.target)'
  BY <1>1, GoodStays DEF OKInv, Typed, TypeOK, Report, Result
<1>9. \A r \in report'.domains : r.ok => Good(r.target)'
  BY <1>3, <1>5, <1>7, <1>8
<1>10. \A v \in Workers : pc'[v] \in {"proxy", "https", "record"} => pc'[v] = pc[v] /\ v # w
  BY DEF Record, Goto, Typed, TypeOK
<1>11. \A v \in Workers : pc[v] \in {"proxy", "https", "record"} => cur[v] \in Target
  BY DEF Typed, HasTarget, InTarget
<1>12. \A v \in Workers : pc'[v] = "https" /\ ok'[v] => Serves(cur[v])' \/ ExcusedFor(cur[v])'
  BY <1>1, <1>2, <1>10, <1>11, GoodStays DEF OKInv, Serves, ExcusedFor, SiteOf
<1>13. \A v \in Workers : pc'[v] = "record" /\ ok'[v] => Good(cur[v])'
  BY <1>1, <1>2, <1>10, <1>11, GoodStays DEF OKInv, Good, Certified, Serves, ExcusedFor, SiteOf
<1>14. \A v \in Workers : pc'[v] = "proxy" /\ ok'[v] => SiteOf(cur[v])'.site \/ ExcusedFor(cur[v])'
  BY <1>1, <1>2, <1>10, <1>11, GoodStays DEF OKInv, ExcusedFor, SiteOf
<1>15. QED
  BY <1>2, <1>6, <1>9, <1>12, <1>13, <1>14 DEF OKInv

\* DelRead starts a request that deletes nothing yet.
LEMMA OKDelRead ==
  ASSUME Typed, OKInv, NEW r \in Requests, NEW i \in Ingresses, NEW h \in Hosts,
         NEW c \in BOOLEAN, DelRead(r, i, h, c)
  PROVE  OKInv'
<1>1. /\ del[r].step = "idle" /\ del'[r].step = "k8s"
      /\ \A q \in Requests : q # r => del'[q] = del[q]
  BY DEF DelRead, Typed, TypeOK
<1>2. UNCHANGED <<panel, report, runVars, misread>>
  BY DEF DelRead, DelUnchanged
<1>3. \A t \in Target : ExcusedFor(t) => ExcusedFor(t)'
  BY <1>1, <1>2, ExcuseStays
<1>4. Keeps
  BY <1>2, <1>3 DEF Keeps, Serves, SiteOf
<1>5. \A q \in Requests : del'[q].step \in {"proxy", "lookup", "site"} => del'[q].clean
  BY <1>1 DEF OKInv
<1>6. QED
  BY <1>2, <1>4, <1>5, OKFrame DEF runVars

LEMMA OKDelStep ==
  ASSUME Typed, OKInv, NEW r \in Requests, DelStep(r)
  PROVE  OKInv'
<1>1. UNCHANGED <<report, runVars>>
  BY DEF DelStep, DelIngress, DelProxy, DelLookup, DelSite, DelUnchanged
<1>2. \A q \in Requests : del'[q].step \in {"proxy", "lookup", "site"} => del'[q].clean
  BY DelShape DEF OKInv
<1>3. QED
  BY <1>1, <1>2, DelKeeps, OKFrame DEF runVars

LEMMA OKCrash ==
  ASSUME Typed, OKInv, NEW p \in Pods, Crash(p)
  PROVE  OKInv'
<1>1. UNCHANGED <<panel, report, misread>>
  BY DEF Crash
<1>2. \A r \in Requests :
         del'[r] = del[r] \/ (/\ del[r].step \notin DelSettled
                              /\ del'[r] = [del[r] EXCEPT !.step = "lost"])
  BY DEF Crash
<1>3. \A r \in Requests : del[r] \in DelRequest
  BY DEF Typed, TypeOK
<1>4. \A r \in Requests :
         /\ del'[r].clean = del[r].clean
         /\ del'[r].panel = del[r].panel /\ del'[r].host = del[r].host
         /\ del'[r].step = del[r].step \/ del'[r].step = "lost"
  BY <1>2, <1>3 DEF DelRequest
<1>5. \A t \in Target : ExcusedFor(t) => ExcusedFor(t)'
  BY <1>1, <1>4, ExcuseStays
<1>6. Keeps
  BY <1>1, <1>5 DEF Keeps, Serves, SiteOf
<1>7. \A r \in Requests : del'[r].step \in {"proxy", "lookup", "site"} => del'[r].clean
  BY <1>2, <1>3 DEF OKInv, DelRequest
<1>8. \A w \in Workers :
         /\ UNCHANGED domains[w] \/ domains'[w] = {}
         /\ pc'[w] \notin {"proxy", "https", "record"} \/ UNCHANGED <<cur[w], ok[w], pc[w]>>
  BY DEF Crash, Forget
<1>9. QED
  BY <1>1, <1>6, <1>7, <1>8, OKFrame

LEMMA OKNext == Typed /\ OKInv /\ [Next]_vars => OKInv'
<1> SUFFICES ASSUME Typed, OKInv, [Next]_vars PROVE OKInv'
  OBVIOUS
<1>1. CASE UNCHANGED <<panel, report, runVars, del, misread>>
  BY <1>1 DEF runVars, OKInv, Good, Certified, ExcusedFor, Cleaned, Serves, SiteOf
<1>2. CASE \E w \in Workers : Call(w)
  <2>1. PICK w \in Workers : Call(w)
    BY <1>2
  <2>2. UNCHANGED <<panel, report, domains, cur, ok, del, misread>>
    BY <2>1 DEF Call
  <2>3. \A v \in Workers : pc'[v] \in {"proxy", "https", "record"} => pc'[v] = pc[v]
    BY <2>1 DEF Call, Goto, Typed, TypeOK
  <2>4. QED
    BY <2>2, <2>3 DEF OKInv, Good, Certified, ExcusedFor, Cleaned, Serves, SiteOf
<1>3. CASE \E w \in Workers : RunStep(w)
  BY <1>3, OKQuietStep, OKAddSite, OKCreateProxy, OKEnsureHTTPS, OKRecord DEF RunStep
<1>4. CASE \E r \in Requests :
             \/ \E i \in Ingresses, h \in Hosts, c \in BOOLEAN : DelRead(r, i, h, c)
             \/ DelStep(r)
  BY <1>4, OKDelRead, OKDelStep
<1>5. CASE \E p \in Pods : Crash(p)
  BY <1>5, OKCrash
<1>6. CASE \/ \E i \in Ingresses, s \in Specs \union {NoIngress} : EditIngress(i, s)
           \/ Reconfigure \/ UNCHANGED vars
  BY <1>1, <1>6 DEF EditIngress, Reconfigure, vars
<1>7. QED
  BY <1>2, <1>3, <1>4, <1>5, <1>6 DEF Next

\* What the report calls OK is served, or someone asked to delete that very site, or a
\* refusal for it was taken for "already exists" (baota_sync_run.go, baota.go).
THEOREM ReportedOKsAreServed == Spec => []ReportedOKIsServed
<1>1. Init => OKInv
  BY DEF Init, OKInv, EmptyReport, IdleRequest
<1>2. Spec => []Typed
  BY TypedInit, TypedNext, PTL DEF Spec
<1>3. OKInv => ReportedOKIsServed
  BY DEF OKInv, ReportedOKIsServed, Good, Certified, ExcusedFor
<1>4. QED
  BY <1>1, <1>2, <1>3, OKNext, PTL DEF Spec

-----------------------------------------------------------------------------
(* Runs and delete requests come to an end: what is left to do gets less. *)

\* The targets of a run are finite in number, and the one it is at has no result yet.
WorkInv ==
    \A w \in Workers :
        /\ IsFiniteSet(targets[w])
        /\ InTarget(w) => cur[w] \in Todo(w)

\* No more targets are listed than there are Ingresses.
LEMMA ListIsBounded ==
  /\ IsFiniteSet(ManagedTargets)
  /\ Cardinality(ManagedTargets) <= Cardinality(Ingresses)
<1> DEFINE J == {j \in Ingresses : cluster[j] # NoIngress /\ cluster[j].managed}
           f == [i \in J |-> TargetOf(i, cluster[i])]
<1>1. IsFiniteSet(Ingresses) /\ J \subseteq Ingresses
  BY NonEmptyAssumption
<1>2. IsFiniteSet(J) /\ Cardinality(J) <= Cardinality(Ingresses)
  BY <1>1, FS_Subset
<1>3. ManagedTargets = {TargetOf(i, cluster[i]) : i \in J}
  BY DEF ManagedTargets
<1>4. f \in Surjection(J, ManagedTargets)
  BY <1>3 DEF Surjection
<1>5. IsFiniteSet(ManagedTargets) /\ Cardinality(ManagedTargets) <= Cardinality(J)
  BY <1>2, <1>4, FS_Surjection
<1>6. Cardinality(Ingresses) \in Nat /\ Cardinality(J) \in Nat /\ Cardinality(ManagedTargets) \in Nat
  BY <1>1, <1>2, <1>5, FS_CardinalityType
<1>7. QED
  BY <1>2, <1>5, <1>6

\* What a run has still to do is a part of what it listed.
LEMMA TodoIsFinite ==
  ASSUME WorkInv, NEW w \in Workers
  PROVE  /\ IsFiniteSet(Todo(w)) /\ Cardinality(Todo(w)) \in Nat
         /\ InTarget(w) => Cardinality(Todo(w)) # 0
<1>1. Todo(w) \subseteq targets[w] /\ IsFiniteSet(targets[w])
  BY DEF WorkInv, Todo
<1>2. IsFiniteSet(Todo(w))
  BY <1>1, FS_Subset
<1>3. Cardinality(Todo(w)) \in Nat
  BY <1>2, FS_CardinalityType
<1>4. InTarget(w) => Todo(w) # {}
  BY DEF WorkInv
<1>5. QED
  BY <1>2, <1>3, <1>4, FS_EmptySet

\* A step of one worker, as the invariant sees it.
LEMMA WorkFrame ==
  ASSUME WorkInv, NEW w \in Workers,
         \A v \in Workers : v # w => UNCHANGED <<domains[v], targets[v], cur[v], pc[v]>>,
         IsFiniteSet(targets'[w]),
         InTarget(w)' => cur'[w] \in Todo(w)'
  PROVE  WorkInv'
  BY DEF WorkInv, InTarget, Todo

LEMMA WorkRunStep ==
  ASSUME Typed, WorkInv, NEW w \in Workers, RunStep(w)
  PROVE  WorkInv'
<1> USE DEF Goto
<1>1. CASE AddSite(w) \/ CreateProxy(w) \/ EnsureHTTPS(w)
  <2>1. UNCHANGED <<domains, targets, cur>>
    BY <1>1 DEF AddSite, CreateProxy, EnsureHTTPS, CallUnchanged
  <2>2. InTarget(w)
    BY <1>1 DEF AddSite, CreateProxy, EnsureHTTPS, InTarget
  <2>3. pc' = pc \/ \E s \in TargetSteps : pc' = [pc EXCEPT ![w] = s]
    BY <1>1 DEF AddSite, CreateProxy, EnsureHTTPS, Post, Refused, Succeed, FailAttempt,
                TargetSteps, AfterProxy
  <2>4. QED
    BY <2>1, <2>2, <2>3 DEF WorkInv, InTarget, Todo, Typed, TypeOK
<1>2. CASE Busy(w) \/ Begin(w) \/ Skip(w) \/ ListFails(w) \/ Finish(w)
  <2>1. UNCHANGED <<domains, targets, cur>>
    BY <1>2 DEF Busy, Begin, Skip, ListFails, Finish
  <2>2. \E s : s \notin TargetSteps /\ pc' = [pc EXCEPT ![w] = s]
    BY <1>2 DEF Busy, Begin, Skip, ListFails, Finish, TargetSteps
  <2>3. QED
    BY <2>1, <2>2, WorkFrame DEF WorkInv, InTarget, TargetSteps, Typed, TypeOK
<1>3. CASE List(w)
  <2>1. targets'[w] = ManagedTargets /\ pc'[w] = "next"
    BY <1>3 DEF List, Typed, TypeOK
  <2>2. QED
    BY <1>3, <2>1, ListIsBounded, WorkFrame DEF List, InTarget, Typed, TypeOK
<1>4. CASE Take(w)
  <2>1. cur'[w] \in Todo(w) /\ UNCHANGED <<domains, targets>>
    BY <1>4 DEF Take, Typed, TypeOK
  <2>2. cur'[w] \in Todo(w)'
    BY <2>1 DEF Todo
  <2>3. QED
    BY <1>4, <2>1, <2>2, WorkFrame DEF Take, WorkInv, Typed, TypeOK
<1>5. CASE Record(w)
  <2>1. pc'[w] = "next" /\ UNCHANGED <<targets, cur>>
    BY <1>5 DEF Record, Typed, TypeOK
  <2>2. \A v \in Workers : v # w => UNCHANGED <<domains[v], pc[v]>>
    BY <1>5 DEF Record, Typed, TypeOK
  <2>3. QED
    BY <2>1, <2>2, WorkFrame DEF WorkInv, InTarget
<1>6. CASE Release(w)
  <2>1. /\ pc'[w] = "idle" /\ targets'[w] = {}
        /\ \A v \in Workers : v # w => UNCHANGED <<domains[v], targets[v], cur[v], pc[v]>>
    BY <1>6 DEF Release, Forget
  <2>2. QED
    BY <2>1, FS_EmptySet, WorkFrame DEF InTarget
<1>7. QED
  BY <1>1, <1>2, <1>3, <1>4, <1>5, <1>6 DEF RunStep

LEMMA WorkNext == Typed /\ WorkInv /\ [Next]_vars => WorkInv'
<1> SUFFICES ASSUME Typed, WorkInv, [Next]_vars PROVE WorkInv'
  OBVIOUS
<1>1. CASE \/ UNCHANGED vars
           \/ \E i \in Ingresses, s \in Specs \union {NoIngress} : EditIngress(i, s)
           \/ Reconfigure
           \/ \E r \in Requests :
                \/ \E i \in Ingresses, h \in Hosts, c \in BOOLEAN : DelRead(r, i, h, c)
                \/ DelStep(r)
  <2>1. UNCHANGED <<domains, targets, cur, pc>>
    BY <1>1 DEF vars, runVars, EditIngress, Reconfigure, DelRead, DelStep, DelIngress,
                DelProxy, DelLookup, DelSite, DelUnchanged
  <2>2. QED
    BY <2>1 DEF WorkInv, InTarget, Todo
<1>2. ASSUME NEW w \in Workers, Call(w)
      PROVE  WorkInv'
  BY <1>2, WorkFrame DEF Call, Goto, WorkInv, InTarget, Typed, TypeOK
<1>3. ASSUME NEW p \in Pods, Crash(p)
      PROVE  WorkInv'
  <2>1. ASSUME NEW v \in Workers
        PROVE  \/ pc'[v] = "idle" /\ targets'[v] = {}
               \/ UNCHANGED <<domains[v], targets[v], cur[v], pc[v]>>
    BY <1>3 DEF Crash, Forget
  <2>2. QED
    BY <2>1, FS_EmptySet DEF WorkInv, InTarget, Todo
<1>4. QED
  BY <1>1, <1>2, <1>3, WorkRunStep DEF Next

LEMMA WorkInit == Init => WorkInv
  BY FS_EmptySet DEF Init, WorkInv, InTarget

\* What StepsLeft says of a worker at a step, with n steps for the targets it has not done
\* and k attempts behind it.
LeftAt(step, n, k) ==
    CASE step = "off" -> 2
      [] step = "prepare" -> PerTarget * Cardinality(Ingresses) + 3
      [] step = "next" -> n + 2
      [] step = "site" -> n + 2 - 1 - k
      [] step = "proxy" -> n + 2 - 1 - Attempts - k
      [] step = "https" -> n + 2 - 1 - 2 * Attempts - k
      [] step = "record" -> n + 2 - 1 - 3 * Attempts
      [] step = "done" -> 1
      [] OTHER -> 0

Ahead(w) == PerTarget * Cardinality(Todo(w))

LEMMA StepsLeftAt ==
  ASSUME NEW w \in Workers
  PROVE  /\ StepsLeft(w) = LeftAt(pc[w], Ahead(w), tries[w])
         /\ StepsLeft(w)' = LeftAt(pc'[w], Ahead(w)', tries'[w])
  BY DEF StepsLeft, LeftAt, Ahead

\* The product, as far as the proofs need it.
LEMMA PerTargetFacts ==
  /\ Attempts \in Nat /\ Attempts >= 1 /\ PerTarget = 3 * Attempts + 2 /\ PerTarget \in Nat
  /\ \A n \in Nat : PerTarget * n \in Nat
  /\ \A n \in Nat : n # 0 => PerTarget * n = PerTarget * (n - 1) + PerTarget
  /\ \A m, n \in Nat : m <= n => PerTarget * m <= PerTarget * n
<1>1. /\ Attempts \in Nat /\ Attempts >= 1 /\ PerTarget = 3 * Attempts + 2 /\ PerTarget \in Nat
  BY BoundsAssumption DEF PerTarget
<1>2. \A a, n \in Nat : a * n \in Nat /\ (n # 0 => a * n = a * (n - 1) + a)
  OBVIOUS
<1>3. ASSUME NEW a \in Nat, NEW m \in Nat, NEW n \in Nat, m <= n
      PROVE  a * m <= a * n
  <2>1. PICK d \in Nat : n = m + d
    BY <1>3
  <2>2. a * n = a * m + a * d /\ a * d \in Nat /\ a * m \in Nat
    BY <2>1
  <2>3. QED
    BY <2>2
<1>4. QED
  BY <1>1, <1>2, <1>3

LEMMA AheadFacts ==
  ASSUME WorkInv, NEW w \in Workers
  PROVE  Ahead(w) \in Nat /\ (InTarget(w) => Ahead(w) >= PerTarget)
<1> DEFINE n == Cardinality(Todo(w))
<1>1. n \in Nat /\ (InTarget(w) => n # 0)
  BY TodoIsFinite
<1> HIDE DEF n
<1>2. PerTarget * n \in Nat /\ (n # 0 => PerTarget * n >= PerTarget)
  <2>1. CASE n # 0
    <3>1. /\ PerTarget * n = PerTarget * (n - 1) + PerTarget
          /\ PerTarget * (n - 1) \in Nat /\ PerTarget \in Nat
      BY <1>1, <2>1, PerTargetFacts
    <3>2. QED
      BY <3>1
  <2>2. CASE n = 0
    BY <1>1, <2>2, PerTargetFacts
  <2>3. QED
    BY <2>1, <2>2
<1>3. Ahead(w) = PerTarget * n
  BY DEF Ahead, n
<1>4. QED
  BY <1>1, <1>2, <1>3

\* What is left is a number.
LEMMA StepsLeftType ==
  ASSUME Typed, WorkInv, NEW w \in Workers
  PROVE  StepsLeft(w) \in Nat
<1>1. Ahead(w) \in Nat /\ (InTarget(w) => Ahead(w) >= PerTarget)
  BY AheadFacts
<1>2. tries[w] \in 0..Attempts - 1 /\ pc[w] \in Steps
  BY DEF Typed, TypeOK
<1>3. PerTarget * Cardinality(Ingresses) \in Nat
  BY NonEmptyAssumption, FS_CardinalityType, PerTargetFacts
<1>4. QED
  BY <1>1, <1>2, <1>3, StepsLeftAt, PerTargetFacts DEF LeftAt, InTarget

LEMMA StepsLeftStaysTyped ==
  Typed' /\ WorkInv' => (\A w \in Workers : StepsLeft(w) \in Nat)'
<1>1. Typed /\ WorkInv => \A w \in Workers : StepsLeft(w) \in Nat
  BY StepsLeftType
<1>2. QED
  BY <1>1, PTL

\* An attempt at a panel: one more of those there may be, or the next step.
LEMMA AttemptLeft ==
  ASSUME Typed, WorkInv, NEW w \in Workers, InTarget(w), Todo(w)' = Todo(w),
         NEW next \in TargetSteps, Succeed(w, next) \/ FailAttempt(w, next),
         \/ pc[w] = "site" /\ next = "proxy"
         \/ pc[w] = "proxy" /\ next \in {"https", "record"}
         \/ pc[w] = "https" /\ next = "record"
  PROVE  StepsLeft(w)' < StepsLeft(w)
<1>1. Ahead(w) \in Nat /\ Ahead(w) >= PerTarget /\ Ahead(w)' = Ahead(w)
  BY AheadFacts DEF Ahead
<1>2. tries[w] \in 0..Attempts - 1
  BY DEF Typed, TypeOK
<1>3. \/ pc'[w] = next /\ tries'[w] = 0
      \/ pc'[w] = pc[w] /\ tries'[w] = tries[w] + 1
  BY DEF Succeed, FailAttempt, Goto, Typed, TypeOK
<1>4. QED
  BY <1>1, <1>2, <1>3, StepsLeftAt, PerTargetFacts DEF LeftAt

\* A run that lists has at most the steps for all Ingresses before it.
LEMMA ListLeft ==
  ASSUME Typed, WorkInv, NEW w \in Workers, List(w)
  PROVE  StepsLeft(w)' < StepsLeft(w)
<1>1. pc[w] = "prepare" /\ pc'[w] = "next" /\ targets'[w] = ManagedTargets
  BY DEF List, Goto, Typed, TypeOK
<1>2. Todo(w)' \subseteq ManagedTargets
  BY <1>1 DEF Todo
<1>3. /\ IsFiniteSet(Todo(w)') /\ Cardinality(Todo(w)') <= Cardinality(ManagedTargets)
  BY <1>2, ListIsBounded, FS_Subset
<1>4. /\ Cardinality(Todo(w)') \in Nat /\ Cardinality(ManagedTargets) \in Nat
      /\ Cardinality(Ingresses) \in Nat
  BY <1>3, ListIsBounded, NonEmptyAssumption, FS_CardinalityType
<1>5. Cardinality(Todo(w)') <= Cardinality(Ingresses)
  BY <1>3, <1>4, ListIsBounded
<1>6. /\ Ahead(w)' <= PerTarget * Cardinality(Ingresses)
      /\ Ahead(w)' \in Nat /\ PerTarget * Cardinality(Ingresses) \in Nat
  BY <1>4, <1>5, PerTargetFacts DEF Ahead
<1>7. QED
  BY <1>1, <1>6, StepsLeftAt DEF LeftAt

\* A result is recorded: its target is no more to do.
LEMMA RecordLeft ==
  ASSUME Typed, WorkInv, NEW w \in Workers, Record(w)
  PROVE  StepsLeft(w)' < StepsLeft(w)
<1>1. /\ pc[w] = "record" /\ pc'[w] = "next" /\ targets'[w] = targets[w]
      /\ domains'[w] = domains[w] \union {[target |-> cur[w], ok |-> ok[w]]}
  BY DEF Record, Goto, Typed, TypeOK
<1>2. Todo(w)' = Todo(w) \ {cur[w]}
  <2> DEFINE done == [target |-> cur[w], ok |-> ok[w]]
  <2>1. done.target = cur[w]
    OBVIOUS
  <2>2. Todo(w)' = {t \in targets[w] : \A r \in domains[w] \union {done} : r.target # t}
    BY <1>1 DEF Todo
  <2> HIDE DEF done
  <2>3. {t \in targets[w] : \A r \in domains[w] \union {done} : r.target # t}
          = {t \in targets[w] : \A r \in domains[w] : r.target # t} \ {cur[w]}
    BY <2>1
  <2>4. QED
    BY <2>2, <2>3 DEF Todo
<1>3. cur[w] \in Todo(w) /\ IsFiniteSet(Todo(w)) /\ Cardinality(Todo(w)) \in Nat
      /\ Cardinality(Todo(w)) # 0
  BY <1>1, TodoIsFinite DEF WorkInv, InTarget
<1>4. Cardinality(Todo(w)') = Cardinality(Todo(w)) - 1
  BY <1>2, <1>3, FS_RemoveElement
<1>5. Ahead(w) = Ahead(w)' + PerTarget /\ Ahead(w)' \in Nat
  BY <1>3, <1>4, PerTargetFacts DEF Ahead
<1>6. QED
  BY <1>1, <1>5, StepsLeftAt, PerTargetFacts DEF LeftAt

\* Every step of a run leaves it fewer.
LEMMA RunStepLeft ==
  ASSUME Typed, WorkInv, NEW w \in Workers, InRun(w), RunStep(w)
  PROVE  StepsLeft(w)' < StepsLeft(w)
<1> USE DEF Goto
<1>1. CASE Busy(w) \/ Begin(w)
  BY <1>1 DEF Busy, Begin, InRun
<1>2. CASE Skip(w) \/ ListFails(w) \/ Finish(w)
  <2>1. pc[w] \in {"off", "prepare", "next"} /\ pc'[w] = "done"
    BY <1>2 DEF Skip, ListFails, Finish, Typed, TypeOK
  <2>2. Ahead(w) \in Nat /\ PerTarget * Cardinality(Ingresses) \in Nat
    BY AheadFacts, NonEmptyAssumption, FS_CardinalityType, PerTargetFacts
  <2>3. QED
    BY <2>1, <2>2, StepsLeftAt DEF LeftAt
<1>3. CASE Take(w)
  <2>1. /\ pc[w] = "next" /\ pc'[w] = "site" /\ tries'[w] = tries[w]
        /\ UNCHANGED <<domains, targets>>
    BY <1>3 DEF Take, Typed, TypeOK
  <2>2. Ahead(w) \in Nat /\ Ahead(w)' = Ahead(w)
    BY <2>1, AheadFacts DEF Ahead, Todo
  <2>3. tries[w] \in Nat
    BY BoundsAssumption DEF Typed, TypeOK
  <2>4. QED
    BY <2>1, <2>2, <2>3, StepsLeftAt DEF LeftAt
<1>4. CASE AddSite(w) \/ CreateProxy(w) \/ EnsureHTTPS(w)
  <2>1. UNCHANGED <<domains, targets>>
    BY <1>4 DEF AddSite, CreateProxy, EnsureHTTPS, CallUnchanged
  <2>2. Todo(w)' = Todo(w) /\ InTarget(w)
    BY <1>4, <2>1 DEF AddSite, CreateProxy, EnsureHTTPS, Todo, InTarget
  <2>3. CASE AddSite(w)
    BY <2>2, <2>3, AttemptLeft DEF AddSite, Post, TargetSteps
  <2>4. CASE CreateProxy(w)
    <3>1. AfterProxy(cur[w]) \in {"https", "record"}
      BY DEF AfterProxy
    <3>2. /\ pc[w] = "proxy"
          /\ Succeed(w, AfterProxy(cur[w])) \/ FailAttempt(w, AfterProxy(cur[w]))
      BY <2>4 DEF CreateProxy, Post, Refused
    <3>3. QED
      BY <2>2, <3>1, <3>2, AttemptLeft DEF TargetSteps
  <2>5. CASE EnsureHTTPS(w)
    BY <2>2, <2>5, AttemptLeft DEF EnsureHTTPS, Post, Refused, TargetSteps
  <2>6. QED
    BY <1>4, <2>3, <2>4, <2>5
<1>5. CASE Release(w)
  <2>1. pc[w] = "done" /\ pc'[w] = "idle"
    BY <1>5 DEF Release, Forget
  <2>2. QED
    BY <2>1, StepsLeftAt DEF LeftAt
<1>6. QED
  BY <1>1, <1>2, <1>3, <1>4, <1>5, ListLeft, RecordLeft DEF RunStep

\* Nobody else's step gives a run more to do: only a restart of its pod touches it.
LEMMA OthersLeft ==
  ASSUME Typed, WorkInv, Next, NEW w \in Workers, InRun(w), ~RunStep(w)
  PROVE  StepsLeft(w)' \in {StepsLeft(w), 0}
<1>1. ASSUME UNCHANGED <<pc[w], targets[w], domains[w], tries[w]>>
      PROVE  StepsLeft(w)' = StepsLeft(w)
  <2>1. Todo(w)' = Todo(w)
    BY <1>1 DEF Todo
  <2>2. QED
    BY <1>1, <2>1, StepsLeftAt DEF Ahead
<1>2. CASE \/ \E i \in Ingresses, s \in Specs \union {NoIngress} : EditIngress(i, s)
           \/ Reconfigure
           \/ \E r \in Requests :
                \/ \E i \in Ingresses, h \in Hosts, c \in BOOLEAN : DelRead(r, i, h, c)
                \/ DelStep(r)
  <2>1. UNCHANGED <<pc, targets, domains, tries>>
    BY <1>2 DEF runVars, EditIngress, Reconfigure, DelRead, DelStep, DelIngress,
                DelProxy, DelLookup, DelSite, DelUnchanged
  <2>2. QED
    BY <1>1, <2>1
<1>3. ASSUME NEW v \in Workers, Call(v)
      PROVE  StepsLeft(w)' = StepsLeft(w)
  <2>1. v # w
    BY <1>3 DEF Call, InRun
  <2>2. QED
    BY <1>1, <1>3, <2>1 DEF Call, Goto, Typed, TypeOK
<1>4. ASSUME NEW v \in Workers, RunStep(v)
      PROVE  StepsLeft(w)' = StepsLeft(w)
  <2>1. v # w
    BY <1>4
  <2>2. CASE AddSite(v) \/ CreateProxy(v) \/ EnsureHTTPS(v)
    <3>1. UNCHANGED <<domains, targets>>
      BY <2>2 DEF AddSite, CreateProxy, EnsureHTTPS, CallUnchanged
    <3>2. \E next : Succeed(v, next) \/ FailAttempt(v, next)
      BY <2>2 DEF AddSite, CreateProxy, EnsureHTTPS, Post, Refused
    <3>3. UNCHANGED <<pc[w], tries[w]>>
      BY <2>1, <3>2 DEF Succeed, FailAttempt, Goto, Typed, TypeOK
    <3>4. QED
      BY <1>1, <3>1, <3>3
  <2>3. CASE Release(v)
    BY <1>1, <2>1, <2>3 DEF Release, Forget
  <2>4. CASE \/ Busy(v) \/ Begin(v) \/ Skip(v) \/ ListFails(v) \/ List(v) \/ Take(v)
             \/ Record(v) \/ Finish(v)
    <3>1. UNCHANGED <<pc[w], targets[w], domains[w], tries[w]>>
      BY <2>1, <2>4 DEF Busy, Begin, Skip, ListFails, List, Take, Record, Finish, Goto,
                        Typed, TypeOK
    <3>2. QED
      BY <1>1, <3>1
  <2>5. QED
    BY <1>4, <2>2, <2>3, <2>4 DEF RunStep
<1>5. ASSUME NEW p \in Pods, Crash(p)
      PROVE  StepsLeft(w)' \in {StepsLeft(w), 0}
  <2>1. \/ pc'[w] = "idle"
        \/ UNCHANGED <<pc[w], targets[w], domains[w], tries[w]>>
    BY <1>5 DEF Crash, Forget
  <2>2. pc'[w] = "idle" => StepsLeft(w)' = 0
    BY StepsLeftAt DEF LeftAt
  <2>3. QED
    BY <1>1, <2>1, <2>2
<1>6. QED
  BY <1>2, <1>3, <1>4, <1>5 DEF Next

\* The step the property speaks of.
RunsGoOn ==
    \A w \in Workers :
        InRun(w) => /\ StepsLeft(w)' \in 0..StepsLeft(w)
                    /\ RunStep(w) => StepsLeft(w)' # StepsLeft(w)

LEMMA RunsNext == Typed /\ WorkInv /\ [Next]_vars => [RunsGoOn]_vars
<1> SUFFICES ASSUME Typed, WorkInv, Next, NEW w \in Workers, InRun(w)
             PROVE  /\ StepsLeft(w)' \in 0..StepsLeft(w)
                    /\ RunStep(w) => StepsLeft(w)' # StepsLeft(w)
  BY DEF RunsGoOn
<1>1. StepsLeft(w) \in Nat
  BY StepsLeftType
<1>2. StepsLeft(w)' \in Nat
  <2>1. Typed' /\ WorkInv'
    BY TypedNext, WorkNext
  <2>2. QED
    BY <2>1, StepsLeftStaysTyped
<1>3. CASE RunStep(w)
  BY <1>1, <1>2, <1>3, RunStepLeft
<1>4. CASE ~RunStep(w)
  BY <1>1, <1>4, OthersLeft
<1>5. QED
  BY <1>3, <1>4

\* Every run ends (RunBaotaIngressSync and baotaPOSTWithRetry): each of its steps, a failed
\* call and a retry too, leaves it fewer to take, and nothing else gives it more.
THEOREM RunsComeToAnEnd == Spec => RunsEnd
<1>1. RunsEnd <=> [][RunsGoOn]_vars
  BY DEF RunsEnd, RunsGoOn
<1>2. QED
  BY <1>1, TypedInit, TypedNext, WorkInit, WorkNext, RunsNext, PTL DEF Spec

\* The same of a request to delete.
DelLeftAt(step, k) ==
    CASE step = "k8s" -> 3 * (DeleteRetries - k) + 4
      [] step = "proxy" -> 3 * (DeleteRetries - k) + 3
      [] step = "lookup" -> 3 * (DeleteRetries - k) + 2
      [] step = "site" -> 3 * (DeleteRetries - k) + 1
      [] OTHER -> 0

LEMMA DelStepsLeftAt ==
  ASSUME NEW r \in Requests
  PROVE  /\ DelStepsLeft(r) = DelLeftAt(del[r].step, del[r].tries)
         /\ DelStepsLeft(r)' = DelLeftAt(del'[r].step, del'[r].tries)
  BY DEF DelStepsLeft, DelLeftAt

\* A step of a delete request goes on, ends it or, once for each back-off, goes back to the
\* first call.
LEMMA DelMoves ==
  ASSUME Typed, NEW r \in Requests, DelStep(r)
  PROVE  \/ /\ del'[r].tries = del[r].tries
            /\ \/ del[r].step = "k8s" /\ del'[r].step = "proxy"
               \/ del[r].step = "proxy" /\ del'[r].step = "lookup"
               \/ del[r].step = "lookup" /\ del'[r].step = "site"
               \/ /\ del[r].step \in {"k8s", "lookup", "site"}
                  /\ del'[r].step \in {"done", "refused", "gaveup"}
         \/ /\ del[r].step \in {"lookup", "site"} /\ del'[r].step = "proxy"
            /\ del[r].tries < DeleteRetries /\ del'[r].tries = del[r].tries + 1
<1>1. del[r] \in DelRequest
  BY DEF Typed, TypeOK
<1>2. CASE DelFails(r)
  <2>1. del[r].step \in {"lookup", "site", "k8s", "proxy"}
    BY DEF DelStep, DelIngress, DelProxy, DelLookup, DelSite
  <2>2. CASE del[r].tries < DeleteRetries
    <3>1. del' = [del EXCEPT ![r] = [del[r] EXCEPT !.step = "proxy",
                                                   !.tries = del[r].tries + 1]]
      BY <1>2, <2>2 DEF DelFails, Typed, TypeOK
    <3>2. del'[r].step = "proxy" /\ del'[r].tries = del[r].tries + 1
      BY <1>1, <3>1 DEF DelRequest, Typed, TypeOK
    <3>3. del[r].tries \in Nat
      BY <1>1, BoundsAssumption DEF DelRequest
    <3>4. del[r].step \in {"lookup", "site"}
      <4>1. CASE DelIngress(r)
        <5>1. \E s : del' = [del EXCEPT ![r].step = s]
          BY <4>1 DEF DelIngress
        <5>2. del'[r].tries = del[r].tries
          BY <1>1, <5>1 DEF DelRequest, Typed, TypeOK
        <5>3. QED
          BY <3>2, <3>3, <5>2
      <4>2. CASE DelProxy(r)
        <5>1. del'[r].step = "lookup"
          BY <1>1, <4>2 DEF DelProxy, DelRequest, Typed, TypeOK
        <5>2. QED
          BY <3>2, <5>1
      <4>3. QED
        BY <4>1, <4>2 DEF DelStep, DelLookup, DelSite
    <3>5. QED
      BY <2>2, <3>2, <3>4
  <2>3. CASE ~(del[r].tries < DeleteRetries)
    <3>1. del' = [del EXCEPT ![r] = [del[r] EXCEPT !.step = "gaveup"]]
      BY <1>2, <2>3 DEF DelFails, Typed, TypeOK
    <3>2. del'[r].step = "gaveup" /\ del'[r].tries = del[r].tries
      BY <1>1, <3>1 DEF DelRequest, Typed, TypeOK
    <3>3. ~DelProxy(r)
      BY <1>1, <3>2 DEF DelProxy, DelRequest, Typed, TypeOK
    <3>4. del[r].step \in {"k8s", "lookup", "site"}
      BY <3>3 DEF DelStep, DelIngress, DelLookup, DelSite
    <3>5. QED
      BY <3>2, <3>4
  <2>4. QED
    BY <2>2, <2>3
<1>3. CASE ~DelFails(r)
  <2>1. PICK s : /\ del' = [del EXCEPT ![r].step = s]
                 /\ \/ del[r].step = "k8s" /\ s \in {"proxy", "done", "refused"}
                    \/ del[r].step = "proxy" /\ s = "lookup"
                    \/ del[r].step = "lookup" /\ s \in {"site", "done"}
                    \/ del[r].step = "site" /\ s = "done"
    BY <1>3 DEF DelStep, DelIngress, DelProxy, DelLookup, DelSite
  <2>2. del'[r].step = s /\ del'[r].tries = del[r].tries
    BY <1>1, <2>1 DEF DelRequest, Typed, TypeOK
  <2>3. QED
    BY <2>1, <2>2
<1>4. QED
  BY <1>2, <1>3

\* The step the property speaks of.
DeletesGoOn ==
    \A r \in Requests :
        del[r].step # "idle" =>
            /\ DelStepsLeft(r)' \in 0..DelStepsLeft(r)
            /\ DelStep(r) => DelStepsLeft(r)' # DelStepsLeft(r)

LEMMA DeletesNext == Typed /\ [Next]_vars => [DeletesGoOn]_vars
<1> SUFFICES ASSUME Typed, Next, NEW r \in Requests, del[r].step # "idle"
             PROVE  /\ DelStepsLeft(r)' \in 0..DelStepsLeft(r)
                    /\ DelStep(r) => DelStepsLeft(r)' # DelStepsLeft(r)
  BY DEF DeletesGoOn
<1>1. /\ DeleteRetries \in Nat /\ del[r].tries \in 0..DeleteRetries
      /\ del[r].step \in DelSteps
  BY BoundsAssumption DEF Typed, TypeOK, DelRequest
<1>2. CASE DelStep(r)
  <2>1. DelStepsLeft(r)' \in 0..DelStepsLeft(r) - 1
    BY <1>1, <1>2, DelMoves, DelStepsLeftAt DEF DelLeftAt
  <2>2. DelStepsLeft(r) \in Nat
    BY <1>1, DelStepsLeftAt DEF DelLeftAt
  <2>3. QED
    BY <2>1, <2>2
<1>3. CASE ~DelStep(r)
  <2>1. DelStepsLeft(r) \in Nat
    BY <1>1, DelStepsLeftAt DEF DelLeftAt
  <2>2. del'[r] = del[r] \/ del'[r].step = "lost"
    <3>1. CASE \E p \in Pods : Crash(p)
      BY <3>1 DEF Crash, Typed, TypeOK, DelRequest
    <3>2. CASE \/ \E i \in Ingresses, s \in Specs \union {NoIngress} : EditIngress(i, s)
               \/ Reconfigure
               \/ \E w \in Workers : Call(w) \/ RunStep(w)
      BY <3>2 DEF EditIngress, Reconfigure, Call, RunStep, Busy, Begin, Skip, ListFails, List,
                  Take, AddSite, CreateProxy, EnsureHTTPS, CallUnchanged, Record, Finish, Release
    <3>3. ASSUME NEW q \in Requests, NEW i \in Ingresses, NEW h \in Hosts, NEW c \in BOOLEAN,
                 DelRead(q, i, h, c)
          PROVE  del'[r] = del[r]
      <4>1. q # r
        BY <3>3 DEF DelRead
      <4>2. QED
        BY <3>3, <4>1 DEF DelRead, Typed, TypeOK
    <3>4. ASSUME NEW q \in Requests, DelStep(q)
          PROVE  del'[r] = del[r]
      BY <1>3, <3>4, DelShape
    <3>5. QED
      BY <3>1, <3>2, <3>3, <3>4 DEF Next
  <2>3. DelStepsLeft(r)' \in {DelStepsLeft(r), 0}
    BY <2>2, DelStepsLeftAt DEF DelLeftAt
  <2>4. QED
    BY <1>3, <2>1, <2>3
<1>4. QED
  BY <1>2, <1>3

\* Every request to delete ends (DeleteBaotaSiteAndProxy and ScheduleBaotaDeleteRetry), with
\* as many attempts as there are back-offs at most.
THEOREM DeletesComeToAnEnd == Spec => DeletesEnd
<1>1. DeletesEnd <=> [][DeletesGoOn]_vars
  BY DEF DeletesEnd, DeletesGoOn
<1>2. QED
  BY <1>1, TypedInit, TypedNext, DeletesNext, PTL DEF Spec
=============================================================================
