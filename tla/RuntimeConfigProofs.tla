-------------------------- MODULE RuntimeConfigProofs --------------------------
(* Proofs about RuntimeConfig: its types, that a save that was answered as a success *)
(* is in force, and that a poller skips none.                                         *)
EXTENDS RuntimeConfig, TLAPS

-----------------------------------------------------------------------------
(* The inductive invariant *)

\* Nobody's Reload is called nobody's, and a handler reloads its own pod.
ReloadIsOwned(p) ==
    /\ reload[p].at \in {"idle", "down"} => reload[p].by = "start"
    /\ reload[p].by \in Handlers => PodOf[reload[p].by] = p

\* A handler that saves has settings; only a patch asks for the pod's pool and uses it.
JobIsSound(h) ==
    /\ job[h].op = "idle" <=> job[h].at = "idle"
    /\ job[h].at # "idle" => job[h].conf # None
    /\ job[h].op \in {"put", "setup"} => job[h].pool = "own" /\ job[h].at # "pool"

Shape ==
    /\ TypeOK
    /\ \A p \in Pods : ReloadIsOwned(p)
    /\ \A h \in Handlers : JobIsSound(h)

Saver(h) == job[h].op \in {"put", "setup"}

\* A save is in a history of the row, one before another or the same.
Stored(s, c) == \E i \in DOMAIN s : s[i].id = c.id

InOrder(s, c, d) ==
    \E i, j \in DOMAIN s : i <= j /\ s[i].id = c.id /\ s[j].id = d.id

\* The row is what came last to it.
RowIsLast ==
    IF row = None THEN order = <<>> ELSE order # <<>> /\ order[Len(order)] = row

\* A save that has passed the row was in it.
SaveIsStored(h) ==
    Saver(h) /\ job[h].at \in {"bump", "mirror", "reload", "wait", "ok"}
        => Stored(order, job[h].conf)

\* A Reload has the row.
HasRow(p) == reload[p].at \in {"keep", "install"} /\ reload[p].from = "row"

\* What a Reload has loaded from the row while the handler waits for it, or after
\* it has its answer, came to the row no earlier than the save.
LoadedIsLater(h) ==
    /\ Saver(h) /\ job[h].at \in {"wait", "ok"}
    /\ HasRow(PodOf[h])
    => InOrder(order, job[h].conf, reload[PodOf[h]].conf)

InForce(h) ==
    Saver(h) /\ job[h].at = "ok" /\ source[PodOf[h]] = "row"
        => InOrder(order, job[h].conf, running[PodOf[h]])

OrderInv ==
    /\ RowIsLast
    /\ \A h \in Handlers : SaveIsStored(h) /\ LoadedIsLater(h) /\ InForce(h)

Inv == Shape /\ OrderInv

-----------------------------------------------------------------------------
(* Facts about the helpers *)

\* Settings, and what becomes of them.
LEMMA SettingsFacts ==
    /\ Settings \subseteq Config /\ None \in Config
    /\ \A c \in Config : c # None => c \in Settings /\ c.id \in Saves /\ c.id \in 0..MaxSaves
    /\ \A c \in Settings : c # None /\ [c EXCEPT !.key = Masked] \in Settings
    /\ \A i \in Saves, k \in Saves \union {Masked} : [id |-> i, key |-> k] \in Settings
<1>1. \A c \in Settings : c # None
  BY RCNoneAssumption
<1>2. \A c \in Settings : c.id \in Saves /\ [c EXCEPT !.key = Masked] \in Settings
  BY DEF Settings
<1>3. \A i \in Saves : i \in 0..MaxSaves
  BY RCBoundsAssumption DEF Saves
<1>4. \A i \in Saves, k \in Saves \union {Masked} : [id |-> i, key |-> k] \in Settings
  BY DEF Settings
<1> QED BY <1>1, <1>2, <1>3, <1>4 DEF Config

\* A job goes on or gets its answer.
LEMMA JobMoves ==
    ASSUME NEW j \in Jobs, NEW at \in {"wait", "ok", "failed"}, NEW k, k = [j EXCEPT !.at = at]
    PROVE  k \in Jobs /\ k.at = at /\ k.op = j.op /\ k.conf = j.conf /\ k.pool = j.pool
  BY DEF Jobs

\* A job loses its pool.
LEMMA JobLosesPool ==
    ASSUME NEW j \in Jobs, NEW k, k = [j EXCEPT !.pool = "closed"]
    PROVE  k \in Jobs /\ k.at = j.at /\ k.op = j.op /\ k.conf = j.conf /\ k.pool = "closed"
  BY DEF Jobs

\* Closing a pod's pool changes what a job is at only for the caller.
LEMMA ClosingFacts ==
    ASSUME NEW p \in Pods, NEW by \in Callers, NEW at \in {"wait", "failed"},
           job \in [Handlers -> Jobs], \A h \in Handlers : JobIsSound(h),
           Closing(p, by, at)
    PROVE  /\ job' \in [Handlers -> Jobs]
           /\ \A h \in Handlers :
                /\ job'[h].op = job[h].op /\ job'[h].conf = job[h].conf
                /\ job'[h].at = IF h = by THEN at ELSE job[h].at
                /\ job[h].pool = "own" => job'[h].pool = "own"
<1> SUFFICES ASSUME NEW h \in Handlers
             PROVE  /\ job'[h] \in Jobs
                    /\ job'[h].op = job[h].op /\ job'[h].conf = job[h].conf
                    /\ job'[h].at = IF h = by THEN at ELSE job[h].at
                    /\ job[h].pool = "own" => job'[h].pool = "own"
  BY DEF Closing
<1>1. job[h] \in Jobs
  OBVIOUS
<1>2. CASE h = by
  <2>1. job'[h] = [job[h] EXCEPT !.at = at]
    BY <1>2 DEF Closing
  <2>2. job'[h] \in Jobs /\ job'[h].at = at /\ job'[h].op = job[h].op
        /\ job'[h].conf = job[h].conf /\ job'[h].pool = job[h].pool
    BY <1>1, <2>1, JobMoves
  <2> QED BY <1>2, <2>2
<1>3. CASE h # by /\ PodOf[h] = p /\ job[h].pool = "shared"
  <2>1. job'[h] = [job[h] EXCEPT !.pool = "closed"]
    BY <1>3 DEF Closing
  <2>2. job'[h] \in Jobs /\ job'[h].at = job[h].at /\ job'[h].op = job[h].op
        /\ job'[h].conf = job[h].conf
    BY <1>1, <2>1, JobLosesPool
  <2> QED BY <1>3, <2>2
<1>4. CASE h # by /\ ~(PodOf[h] = p /\ job[h].pool = "shared")
  <2>1. job'[h] = job[h]
    BY <1>4 DEF Closing
  <2> QED BY <1>1, <1>4, <2>1
<1> QED BY <1>2, <1>3, <1>4

\* The row's history only grows, and keeps what was in it.
LEMMA UpsertKeeps ==
    ASSUME order \in Seq(Settings), NEW conf \in Settings, Upsert(conf)
    PROVE  /\ row' = conf /\ row' \in Config /\ order' \in Seq(Settings)
           /\ RowIsLast'
           /\ Stored(order', conf)
           /\ \A c : Stored(order, c) => Stored(order', c)
           /\ \A c, d : InOrder(order, c, d) => InOrder(order', c, d)
<1>1. /\ order' \in Seq(Settings)
      /\ Len(order) \in Nat /\ Len(order') = Len(order) + 1
      /\ order'[Len(order')] = conf
      /\ \A i \in DOMAIN order : i \in DOMAIN order' /\ order'[i] = order[i]
      /\ Len(order') \in DOMAIN order' /\ order' # <<>>
  BY DEF Upsert
<1>2. row' = conf /\ conf # None /\ conf \in Config
  BY SettingsFacts DEF Upsert
<1>3. RowIsLast'
  BY <1>1, <1>2 DEF RowIsLast
<1>4. Stored(order', conf)
  BY <1>1 DEF Stored
<1>5. ASSUME NEW c, Stored(order, c) PROVE Stored(order', c)
  BY <1>1, <1>5 DEF Stored
<1>6. ASSUME NEW c, NEW d, InOrder(order, c, d) PROVE InOrder(order', c, d)
  BY <1>1, <1>6 DEF InOrder
<1> QED BY <1>1, <1>2, <1>3, <1>4, <1>5, <1>6

\* What is in the history precedes what is the row.
LEMMA StoredPrecedesRow ==
    ASSUME order \in Seq(Settings), RowIsLast, row # None, NEW c, Stored(order, c)
    PROVE  InOrder(order, c, row)
<1>1. order # <<>> /\ order[Len(order)] = row
  BY DEF RowIsLast
<1>2. PICK i \in DOMAIN order : order[i].id = c.id
  BY DEF Stored
<1>3. Len(order) \in DOMAIN order /\ i <= Len(order)
  BY <1>1
<1> QED BY <1>1, <1>2, <1>3 DEF InOrder

-----------------------------------------------------------------------------
(* Frames: what a step leaves alone *)

StoresTyped ==
    /\ row \in Config /\ backup \in Config /\ revision \in 0..MaxSaves
    /\ file \in [Volumes -> Config] /\ order \in Seq(Settings)

ProcessTyped ==
    /\ running \in [Pods -> Config] /\ source \in [Pods -> {"file", "row"}]
    /\ masked \in [Pods -> BOOLEAN] /\ mysql \in [Pods -> BOOLEAN] /\ redis \in [Pods -> BOOLEAN]

PollerTyped ==
    /\ seen \in [Pods -> 0..MaxSaves] /\ poll \in [Pods -> 0..MaxSaves]
    /\ \A p \in Pods : poll[p] = 0 \/ poll[p] # seen[p]

\* The types and the owners of Reloads and jobs.
JobsTyped ==
    /\ reload \in [Pods -> Reloads] /\ job \in [Handlers -> Jobs]
    /\ \A h \in Handlers : job[h].at = "wait" <=> reload[PodOf[h]].by = h
    /\ \A p \in Pods : ReloadIsOwned(p)
    /\ \A h \in Handlers : JobIsSound(h)

CountsTyped == saves \in 0..MaxSaves /\ faults \in 0..MaxFaults

\* Shape, in the parts that steps disturb.
LEMMA ShapeParts ==
    Shape <=> StoresTyped /\ ProcessTyped /\ PollerTyped /\ JobsTyped /\ CountsTyped
  BY DEF Shape, TypeOK, StoresTyped, ProcessTyped, PollerTyped, JobsTyped, CountsTyped

\* The invariant after a step, from its parts.
LEMMA InvFromParts ==
    ASSUME StoresTyped', ProcessTyped', PollerTyped', JobsTyped', CountsTyped', OrderInv'
    PROVE  Inv'
  BY DEF Inv, Shape, TypeOK, StoresTyped, ProcessTyped, PollerTyped, JobsTyped, CountsTyped

\* A step works, or is one more fault.
LEMMA FaultsTyped ==
    ASSUME CountsTyped, Works \/ Fails, saves' = saves
    PROVE  CountsTyped'
  BY RCBoundsAssumption DEF CountsTyped, Works, Fails

\* Stores that are left alone.
LEMMA StoresFrame ==
    ASSUME StoresTyped, UNCHANGED stores
    PROVE  StoresTyped'
  BY DEF StoresTyped, stores

\* Pods that are left alone.
LEMMA ProcessFrame ==
    ASSUME ProcessTyped, UNCHANGED process
    PROVE  ProcessTyped'
  BY DEF ProcessTyped, process

\* Pollers that are left alone.
LEMMA PollerFrame ==
    ASSUME PollerTyped, UNCHANGED poller
    PROVE  PollerTyped'
  BY DEF PollerTyped, poller

\* Reloads and jobs that are left alone.
LEMMA JobsFrame ==
    ASSUME JobsTyped, reload' = reload, job' = job
    PROVE  JobsTyped'
  BY DEF JobsTyped, ReloadIsOwned, JobIsSound

\* The history of the row keeps what was in it.
Grows ==
    /\ RowIsLast'
    /\ \A c : Stored(order, c) => Stored(order', c)
    /\ \A c, d : InOrder(order, c, d) => InOrder(order', c, d)

\* A row that is left alone.
LEMMA GrowsFrame ==
    ASSUME RowIsLast, row' = row, order' = order
    PROVE  Grows
  BY DEF Grows, RowIsLast

\* A row that is written.
LEMMA GrowsByUpsert ==
    ASSUME order \in Seq(Settings), NEW conf \in Settings, Upsert(conf)
    PROVE  Grows
  BY UpsertKeeps DEF Grows

Passed == {"bump", "mirror", "reload", "wait", "ok"}

\* A step under which nothing new is loaded or installed for a handler, and which
\* does not take its save past the row.
LEMMA OrderFrame ==
    ASSUME OrderInv, Grows, NEW h \in Handlers,
           Saver(h)' /\ job'[h].at \in Passed
             => /\ job[h].at \in Passed
                /\ job'[h].op = job[h].op /\ job'[h].conf = job[h].conf,
           Saver(h)' /\ job'[h].at \in {"wait", "ok"} /\ HasRow(PodOf[h])'
             => /\ job[h].at \in {"wait", "ok"}
                /\ HasRow(PodOf[h]) /\ reload'[PodOf[h]].conf = reload[PodOf[h]].conf,
           Saver(h)' /\ job'[h].at = "ok" /\ source'[PodOf[h]] = "row"
             => /\ job[h].at = "ok" /\ source[PodOf[h]] = "row"
                /\ running'[PodOf[h]] = running[PodOf[h]]
    PROVE  SaveIsStored(h)' /\ LoadedIsLater(h)' /\ InForce(h)'
<1>1. SaveIsStored(h) /\ LoadedIsLater(h) /\ InForce(h)
  BY DEF OrderInv
<1>2. \A c : Stored(order, c) => Stored(order', c)
  BY DEF Grows
<1>3. \A c, d : InOrder(order, c, d) => InOrder(order', c, d)
  BY DEF Grows
<1>4. SaveIsStored(h)'
  BY <1>1, <1>2 DEF SaveIsStored, Saver, Passed
<1>5. LoadedIsLater(h)'
  BY <1>1, <1>3 DEF HasRow, LoadedIsLater, Saver, Passed
<1>6. InForce(h)'
  BY <1>1, <1>3 DEF InForce, Saver, Passed
<1> QED BY <1>4, <1>5, <1>6

\* A step that leaves jobs, Reloads and what pods run alone.
LEMMA QuietOrder ==
    ASSUME OrderInv, Grows, job' = job, reload' = reload, running' = running, source' = source
    PROVE  OrderInv'
<1>1. RowIsLast'
  BY DEF Grows
<1>2. ASSUME NEW h \in Handlers PROVE SaveIsStored(h)' /\ LoadedIsLater(h)' /\ InForce(h)'
  BY OrderFrame DEF HasRow, Saver
<1> QED BY <1>1, <1>2 DEF OrderInv

-----------------------------------------------------------------------------
(* The steps of a Reload *)

\* A Reload moves on, for whom it runs.
MovesOn(p, r) ==
    /\ reload[p].at \notin {"idle", "down"}
    /\ r \in Reloads /\ r.at \notin {"idle", "down"} /\ r.by = reload[p].by
    /\ reload' = [reload EXCEPT ![p] = r]
    /\ job' = job

\* A Reload that moves on still runs for its caller.
LEMMA MovedJobs ==
    ASSUME JobsTyped, NEW p \in Pods, NEW r, MovesOn(p, r)
    PROVE  JobsTyped'
<1>1. reload \in [Pods -> Reloads] /\ job \in [Handlers -> Jobs]
  BY DEF JobsTyped
<1>2. /\ reload' \in [Pods -> Reloads]
      /\ reload'[p] = r
      /\ \A q \in Pods : q # p => reload'[q] = reload[q]
  BY <1>1 DEF MovesOn
<1>3. ASSUME NEW q \in Pods
      PROVE  /\ reload'[q].by = reload[q].by
             /\ reload'[q].at \in {"idle", "down"} => reload[q].at \in {"idle", "down"}
  BY <1>2 DEF MovesOn
<1>4. \A q \in Pods : ReloadIsOwned(q)'
  BY <1>3 DEF JobsTyped, ReloadIsOwned
<1>5. \A h \in Handlers : job'[h].at = "wait" <=> reload'[PodOf[h]].by = h
  BY <1>3, RCPlacesAssumption DEF JobsTyped, MovesOn
<1>6. \A h \in Handlers : JobIsSound(h)'
  BY DEF JobsTyped, JobIsSound, MovesOn
<1>7. job' \in [Handlers -> Jobs]
  BY <1>1 DEF MovesOn
<1> QED BY <1>2, <1>4, <1>5, <1>6, <1>7 DEF JobsTyped

\* Unless it comes to install what it has loaded from the row.
LEMMA MovedOrder ==
    ASSUME OrderInv, Grows, JobsTyped, NEW p \in Pods, NEW r, MovesOn(p, r),
           r.from = "file" \/ (HasRow(p) /\ r.from = "row" /\ r.conf = reload[p].conf),
           running' = running, source' = source
    PROVE  OrderInv'
<1>1. /\ reload'[p] = r
      /\ \A q \in Pods : q # p => reload'[q] = reload[q]
  BY DEF MovesOn, JobsTyped
<1>2. ASSUME NEW h \in Handlers PROVE SaveIsStored(h)' /\ LoadedIsLater(h)' /\ InForce(h)'
  <2>1. PodOf[h] \in Pods
    BY RCPlacesAssumption
  <2>2. HasRow(PodOf[h])' =>
          HasRow(PodOf[h]) /\ reload'[PodOf[h]].conf = reload[PodOf[h]].conf
    BY <1>1, <2>1 DEF HasRow
  <2> QED BY <2>2, OrderFrame DEF Saver, MovesOn
<1>3. RowIsLast'
  BY DEF Grows
<1> QED BY <1>2, <1>3 DEF OrderInv

\* What a pod runs is part of the process.
LEMMA ProcessParts ==
    ASSUME UNCHANGED process
    PROVE  running' = running /\ source' = source
  BY DEF process

\* Handlers run in pods.
LEMMA PlaceFacts == \A h \in Handlers : PodOf[h] \in Pods
  BY RCPlacesAssumption

\* A volume's file is replaced.
LEMMA FileTyped ==
    ASSUME StoresTyped, NEW p \in Pods, NEW conf \in Config,
           file' = [file EXCEPT ![VolumeOf[p]] = conf],
           row' = row, revision' = revision, backup' = backup, order' = order
    PROVE  StoresTyped'
  BY RCPlacesAssumption DEF StoresTyped

\* The settings are taken from the backup.
LEMMA RestoreKeeps ==
    ASSUME Inv, NEW p \in Pods, Restore(p)
    PROVE  Inv'
<1>1. StoresTyped /\ ProcessTyped /\ PollerTyped /\ JobsTyped /\ CountsTyped /\ OrderInv
  BY ShapeParts DEF Inv
<1>2. /\ reload[p].at = "restore" /\ (Works \/ Fails)
      /\ UNCHANGED stores /\ UNCHANGED process /\ UNCHANGED poller /\ job' = job /\ saves' = saves
  BY DEF Restore
<1> DEFINE moved(at, conf) ==
      [at |-> at, by |-> reload[p].by, conf |-> conf, pool |-> FALSE, from |-> "file"]
<1>3. PICK at \in {"keep", "connect"}, conf \in {None, backup} :
        reload' = [reload EXCEPT ![p] = moved(at, conf)]
  BY DEF Restore, Goto
<1>4. conf \in Config
  BY <1>1, SettingsFacts DEF StoresTyped
<1>5. StoresTyped' /\ ProcessTyped' /\ PollerTyped' /\ CountsTyped'
  BY <1>1, <1>2, StoresFrame, ProcessFrame, PollerFrame, FaultsTyped
<1>6. moved(at, conf) \in Reloads
  BY <1>1, <1>4 DEF JobsTyped, Reloads
<1>7. MovesOn(p, moved(at, conf)) /\ moved(at, conf).from = "file"
  BY <1>2, <1>3, <1>6 DEF MovesOn
<1> HIDE DEF moved
<1>8. JobsTyped'
  BY <1>1, <1>7, MovedJobs
<1>9. Grows
  BY <1>1, <1>2, GrowsFrame DEF OrderInv, stores
<1>10. OrderInv'
  BY <1>1, <1>2, <1>7, <1>9, MovedOrder, ProcessParts
<1> QED BY <1>5, <1>8, <1>10, InvFromParts

\* What was read takes the place of the file.
LEMMA KeepKeeps ==
    ASSUME Inv, NEW p \in Pods, Keep(p)
    PROVE  Inv'
<1>1. StoresTyped /\ ProcessTyped /\ PollerTyped /\ JobsTyped /\ CountsTyped /\ OrderInv
  BY ShapeParts DEF Inv
<1> DEFINE r == reload[p]
           moved == [at |-> IF r.from = "row" THEN "install" ELSE "connect", by |-> r.by,
                     conf |-> r.conf, pool |-> r.pool, from |-> r.from]
<1>2. /\ r.at = "keep" /\ (Works \/ Fails)
      /\ reload' = [reload EXCEPT ![p] = moved]
      /\ row' = row /\ revision' = revision /\ backup' = backup /\ order' = order
      /\ UNCHANGED process /\ UNCHANGED poller /\ job' = job /\ saves' = saves
      /\ file' = file \/ file' = [file EXCEPT ![VolumeOf[p]] = r.conf]
  BY DEF Keep, Goto
<1>3. r \in Reloads /\ r.conf \in Config /\ r.from \in {"file", "row"} /\ r.by \in Callers
      /\ r.pool \in BOOLEAN
  BY <1>1 DEF JobsTyped, Reloads
<1>4. StoresTyped'
  <2>1. CASE file' = file
    BY <1>1, <1>2, <2>1 DEF StoresTyped
  <2>2. CASE file' = [file EXCEPT ![VolumeOf[p]] = r.conf]
    BY <1>1, <1>2, <1>3, <2>2, FileTyped
  <2> QED BY <1>2, <2>1, <2>2
<1>5. ProcessTyped' /\ PollerTyped' /\ CountsTyped'
  BY <1>1, <1>2, ProcessFrame, PollerFrame, FaultsTyped
<1>6. moved \in Reloads /\ moved.at \notin {"idle", "down"}
  BY <1>3 DEF Reloads
<1>7. /\ MovesOn(p, moved)
      /\ moved.from = "file" \/ (HasRow(p) /\ moved.from = "row" /\ moved.conf = reload[p].conf)
  BY <1>2, <1>3, <1>6 DEF MovesOn, HasRow
<1> HIDE DEF moved
<1>8. JobsTyped'
  BY <1>1, <1>7, MovedJobs
<1>9. Grows
  BY <1>1, <1>2, GrowsFrame DEF OrderInv
<1>10. OrderInv'
  BY <1>1, <1>2, <1>7, <1>9, MovedOrder, ProcessParts
<1> QED BY <1>4, <1>5, <1>8, <1>10, InvFromParts

\* The pool is made.
LEMMA ConnectKeeps ==
    ASSUME Inv, NEW p \in Pods, Connect(p)
    PROVE  Inv'
<1>1. StoresTyped /\ ProcessTyped /\ PollerTyped /\ JobsTyped /\ CountsTyped /\ OrderInv
  BY ShapeParts DEF Inv
<1>2. /\ reload[p].at = "connect" /\ (Works \/ Fails)
      /\ UNCHANGED stores /\ UNCHANGED process /\ UNCHANGED poller /\ job' = job /\ saves' = saves
  BY DEF Connect
<1> DEFINE moved(at, pool) ==
      [at |-> at, by |-> reload[p].by, conf |-> reload[p].conf, pool |-> pool, from |-> "file"]
<1>3. PICK at \in {"import", "load", "install"}, pool \in BOOLEAN :
        reload' = [reload EXCEPT ![p] = moved(at, pool)]
  BY DEF Connect, Goto
<1>4. reload[p].conf \in Config
  BY <1>1 DEF JobsTyped, Reloads
<1>5. StoresTyped' /\ ProcessTyped' /\ PollerTyped' /\ CountsTyped'
  BY <1>1, <1>2, StoresFrame, ProcessFrame, PollerFrame, FaultsTyped
<1>9. moved(at, pool) \in Reloads
  BY <1>1, <1>4 DEF JobsTyped, Reloads
<1>10. MovesOn(p, moved(at, pool)) /\ moved(at, pool).from = "file"
  BY <1>2, <1>3, <1>9 DEF MovesOn
<1> HIDE DEF moved
<1>6. JobsTyped'
  BY <1>1, <1>10, MovedJobs
<1>7. Grows
  BY <1>1, <1>2, GrowsFrame DEF OrderInv, stores
<1>8. OrderInv'
  BY <1>1, <1>2, <1>7, <1>10, MovedOrder, ProcessParts
<1> QED BY <1>5, <1>6, <1>8, InvFromParts

\* The row is made from the file.
LEMMA ImportKeeps ==
    ASSUME Inv, NEW p \in Pods, Import(p)
    PROVE  Inv'
<1>1. StoresTyped /\ ProcessTyped /\ PollerTyped /\ JobsTyped /\ CountsTyped /\ OrderInv
  BY ShapeParts DEF Inv
<1> DEFINE conf == file[VolumeOf[p]]
           moved == [at |-> "load", by |-> reload[p].by, conf |-> reload[p].conf,
                     pool |-> TRUE, from |-> "file"]
<1>2. /\ reload[p].at = "import" /\ (Works \/ Fails)
      /\ reload' = [reload EXCEPT ![p] = moved]
      /\ revision' = revision /\ backup' = backup /\ file' = file
      /\ UNCHANGED process /\ UNCHANGED poller /\ job' = job /\ saves' = saves
  BY DEF Import, Goto
<1>3. (row' = row /\ order' = order) \/ (conf # None /\ Upsert(conf))
  BY DEF Import
<1>4. conf \in Config /\ reload[p].conf \in Config
  BY <1>1, RCPlacesAssumption DEF StoresTyped, JobsTyped, Reloads
<1>5. StoresTyped' /\ Grows
  <2>1. CASE row' = row /\ order' = order
    BY <1>1, <1>2, <2>1, GrowsFrame DEF StoresTyped, OrderInv
  <2>2. CASE conf # None /\ Upsert(conf)
    <3>1. conf \in Settings
      BY <1>4, <2>2, SettingsFacts
    <3>2. order \in Seq(Settings)
      BY <1>1 DEF StoresTyped
    <3> QED BY <1>1, <1>2, <2>2, <3>1, <3>2, UpsertKeeps, GrowsByUpsert DEF StoresTyped
  <2> QED BY <1>3, <2>1, <2>2
<1>6. ProcessTyped' /\ PollerTyped' /\ CountsTyped'
  BY <1>1, <1>2, ProcessFrame, PollerFrame, FaultsTyped
<1>9. moved \in Reloads
  BY <1>1, <1>4 DEF JobsTyped, Reloads
<1>10. MovesOn(p, moved) /\ moved.from = "file"
  BY <1>2, <1>9 DEF MovesOn
<1> HIDE DEF moved
<1>7. JobsTyped'
  BY <1>1, <1>10, MovedJobs
<1>8. OrderInv'
  BY <1>1, <1>2, <1>5, <1>10, MovedOrder, ProcessParts
<1> QED BY <1>5, <1>6, <1>7, <1>8, InvFromParts

\* What is loaded from the row is not older than any save that has reached it.
LEMMA LoadKeeps ==
    ASSUME Inv, NEW p \in Pods, Load(p)
    PROVE  Inv'
<1>1. StoresTyped /\ ProcessTyped /\ PollerTyped /\ JobsTyped /\ CountsTyped /\ OrderInv
  BY ShapeParts DEF Inv
<1> DEFINE moved(at, conf, from) ==
      [at |-> at, by |-> reload[p].by, conf |-> conf, pool |-> TRUE, from |-> from]
<1>2. /\ reload[p].at = "load" /\ (Works \/ Fails)
      /\ UNCHANGED stores /\ UNCHANGED process /\ UNCHANGED poller /\ job' = job /\ saves' = saves
      /\ row' = row /\ order' = order
  BY DEF Load, stores
<1>3. PICK at \in {"keep", "install"}, conf \in {row, reload[p].conf}, from \in {"file", "row"} :
        /\ reload' = [reload EXCEPT ![p] = moved(at, conf, from)]
        /\ from = "row" => row # None /\ conf = row
  BY DEF Load, Goto
<1>4. conf \in Config
  BY <1>1 DEF JobsTyped, Reloads, StoresTyped
<1>5. StoresTyped' /\ ProcessTyped' /\ PollerTyped' /\ CountsTyped'
  BY <1>1, <1>2, StoresFrame, ProcessFrame, PollerFrame, FaultsTyped
<1>7. moved(at, conf, from) \in Reloads
  BY <1>1, <1>4 DEF JobsTyped, Reloads
<1>8. /\ MovesOn(p, moved(at, conf, from))
      /\ moved(at, conf, from).from = from /\ moved(at, conf, from).conf = conf
  BY <1>2, <1>3, <1>7 DEF MovesOn
<1> HIDE DEF moved
<1>9. JobsTyped'
  BY <1>1, <1>8, MovedJobs
<1>10. Grows
  BY <1>1, <1>2, GrowsFrame DEF OrderInv
<1>11. OrderInv'
  <2>1. CASE from = "file"
    BY <1>1, <1>2, <1>8, <1>10, <2>1, MovedOrder, ProcessParts
  <2>2. CASE from = "row"
    <3>1. /\ row # None /\ reload'[p].conf = row
          /\ \A q \in Pods : q # p => reload'[q] = reload[q]
      BY <1>1, <1>3, <1>8, <2>2 DEF MovesOn, JobsTyped
    <3>2. running' = running /\ source' = source /\ job' = job
      BY <1>2, ProcessParts
    <3>3. ASSUME NEW h \in Handlers PROVE SaveIsStored(h)' /\ LoadedIsLater(h)' /\ InForce(h)'
      <4>1. CASE PodOf[h] # p
        <5>1. reload'[PodOf[h]] = reload[PodOf[h]]
          BY <3>1, <4>1, RCPlacesAssumption
        <5> QED BY <1>1, <1>10, <3>2, <5>1, OrderFrame DEF HasRow, Saver
      <4>2. CASE PodOf[h] = p
        <5>1. SaveIsStored(h) /\ InForce(h) /\ RowIsLast
          BY <1>1 DEF OrderInv
        <5>2. SaveIsStored(h)' /\ InForce(h)'
          BY <1>2, <3>2, <5>1 DEF SaveIsStored, InForce, Saver
        <5>3. ASSUME Saver(h), job[h].at \in {"wait", "ok"}
              PROVE  InOrder(order, job[h].conf, row)
          <6>1. Stored(order, job[h].conf)
            BY <5>1, <5>3 DEF SaveIsStored
          <6>2. order \in Seq(Settings)
            BY <1>1 DEF StoresTyped
          <6> QED BY <3>1, <5>1, <6>1, <6>2, StoredPrecedesRow
        <5>4. LoadedIsLater(h)'
          BY <1>2, <3>1, <3>2, <4>2, <5>3 DEF HasRow, LoadedIsLater, Saver
        <5> QED BY <5>2, <5>4
      <4> QED BY <4>1, <4>2
    <3>4. RowIsLast'
      BY <1>10 DEF Grows
    <3> QED BY <3>3, <3>4 DEF OrderInv
  <2> QED BY <2>1, <2>2
<1> QED BY <1>5, <1>9, <1>11, InvFromParts

\* The poller's answer leaves its types alone.
LEMMA PolledTyped ==
    ASSUME PollerTyped, NEW p \in Pods, NEW by, NEW done \in BOOLEAN, Polled(p, by, done)
    PROVE  PollerTyped'
<1>1. seen' \in [Pods -> 0..MaxSaves] /\ poll' \in [Pods -> 0..MaxSaves]
  <2>1. 0 \in 0..MaxSaves
    BY RCBoundsAssumption
  <2> QED BY <2>1 DEF Polled, PollerTyped
<1>2. ASSUME NEW q \in Pods PROVE poll'[q] = 0 \/ poll'[q] # seen'[q]
  <2>1. CASE by = "poll" /\ q = p
    BY <2>1 DEF Polled, PollerTyped
  <2>2. CASE by # "poll" \/ q # p
    BY <2>2 DEF Polled, PollerTyped
  <2> QED BY <2>1, <2>2
<1> QED BY <1>1, <1>2 DEF PollerTyped

\* No Reload, and no process.
LEMMA NoReloadFacts ==
    /\ NoReload \in Reloads /\ NoReload.at = "idle" /\ NoReload.by = "start"
    /\ Down \in Reloads /\ Down.at = "down" /\ Down.by = "start"
    /\ "start" \notin Handlers /\ "poll" \notin Handlers
  BY RCPlacesAssumption DEF NoReload, Down, Reloads, Callers, Config

\* What was loaded is what the pod runs, and the caller has its answer.
LEMMA InstallKeeps ==
    ASSUME Inv, NEW p \in Pods, Install(p)
    PROVE  Inv'
<1>1. StoresTyped /\ ProcessTyped /\ PollerTyped /\ JobsTyped /\ CountsTyped /\ OrderInv
  BY ShapeParts DEF Inv
<1> DEFINE r == reload[p]
<1>2. /\ r.at = "install" /\ r \in Reloads /\ r.conf \in Config
      /\ r.from \in {"file", "row"} /\ r.pool \in BOOLEAN
  BY <1>1 DEF Install, JobsTyped, Reloads
<1>3. /\ running' = [running EXCEPT ![p] = r.conf]
      /\ source' = [source EXCEPT ![p] = r.from]
      /\ masked' = [masked EXCEPT ![p] = FALSE]
      /\ mysql' = [mysql EXCEPT ![p] = r.pool]
      /\ reload' = [reload EXCEPT ![p] = NoReload]
      /\ job' = [h \in Handlers |-> IF h = r.by THEN [job[h] EXCEPT !.at = "ok"] ELSE job[h]]
      /\ Polled(p, r.by, TRUE)
      /\ revision' = revision /\ file' = file /\ saves' = saves
  BY DEF Install
<1>4. /\ backup' \in {backup, r.conf}
      /\ Works \/ Fails
      /\ (row' = row /\ order' = order) \/ \E i \in DOMAIN order : Upsert(order[i])
      /\ \E client \in BOOLEAN : redis' = [redis EXCEPT ![p] = client]
  BY DEF Install
<1>5. StoresTyped' /\ Grows
  <2>1. backup' \in Config
    BY <1>1, <1>2, <1>4 DEF StoresTyped
  <2>2. CASE row' = row /\ order' = order
    BY <1>1, <1>3, <2>1, <2>2, GrowsFrame DEF StoresTyped, OrderInv
  <2>3. ASSUME NEW i \in DOMAIN order, Upsert(order[i]) PROVE StoresTyped' /\ Grows
    <3>1. order \in Seq(Settings) /\ order[i] \in Settings
      BY <1>1 DEF StoresTyped
    <3> QED BY <1>1, <1>3, <2>1, <2>3, <3>1, UpsertKeeps, GrowsByUpsert DEF StoresTyped
  <2> QED BY <1>4, <2>2, <2>3
<1>6. ProcessTyped'
  <2>1. running' \in [Pods -> Config] /\ source' \in [Pods -> {"file", "row"}]
    BY <1>1, <1>2, <1>3 DEF ProcessTyped
  <2>2. mysql' \in [Pods -> BOOLEAN] /\ masked' \in [Pods -> BOOLEAN]
    BY <1>1, <1>2, <1>3 DEF ProcessTyped
  <2>3. redis' \in [Pods -> BOOLEAN]
    BY <1>1, <1>4 DEF ProcessTyped
  <2> QED BY <2>1, <2>2, <2>3 DEF ProcessTyped
<1>7. PollerTyped' /\ CountsTyped'
  BY <1>1, <1>3, <1>4, PolledTyped, FaultsTyped
<1>8. /\ reload' \in [Pods -> Reloads] /\ reload'[p] = NoReload
      /\ \A q \in Pods : q # p => reload'[q] = reload[q]
  BY <1>1, <1>3, NoReloadFacts DEF JobsTyped
<1>9. ASSUME NEW h \in Handlers
      PROVE  /\ job'[h] \in Jobs
             /\ job'[h].op = job[h].op /\ job'[h].conf = job[h].conf
             /\ job'[h].pool = job[h].pool
             /\ IF h = r.by THEN PodOf[h] = p /\ job[h].at = "wait" /\ job'[h].at = "ok"
                ELSE job'[h] = job[h] /\ (PodOf[h] = p => job[h].at # "wait")
  <2>1. job[h] \in Jobs
    BY <1>1 DEF JobsTyped
  <2>2. CASE h = r.by
    <3>1. job'[h] = [job[h] EXCEPT !.at = "ok"]
      BY <1>3, <2>2
    <3>2. /\ job'[h] \in Jobs /\ job'[h].op = job[h].op /\ job'[h].conf = job[h].conf
          /\ job'[h].pool = job[h].pool /\ job'[h].at = "ok"
      BY <2>1, <3>1, JobMoves
    <3>3. PodOf[h] = p /\ job[h].at = "wait"
      BY <1>1, <2>2 DEF JobsTyped, ReloadIsOwned
    <3> QED BY <2>2, <3>2, <3>3
  <2>3. CASE h # r.by
    <3>1. job'[h] = job[h]
      BY <1>3, <2>3
    <3>2. PodOf[h] = p => job[h].at # "wait"
      BY <1>1, <2>3 DEF JobsTyped
    <3> QED BY <2>1, <2>3, <3>1, <3>2
  <2> QED BY <2>2, <2>3
<1>10. JobsTyped'
  <2>1. job' \in [Handlers -> Jobs]
    BY <1>3, <1>9
  <2>2. \A q \in Pods : ReloadIsOwned(q)'
    BY <1>1, <1>8, NoReloadFacts DEF JobsTyped, ReloadIsOwned
  <2>3. ASSUME NEW h \in Handlers PROVE job'[h].at = "wait" <=> reload'[PodOf[h]].by = h
    <3>1. CASE PodOf[h] = p
      BY <1>8, <1>9, <3>1, NoReloadFacts
    <3>2. CASE PodOf[h] # p
      <4>1. reload'[PodOf[h]] = reload[PodOf[h]]
        BY <1>8, <3>2, PlaceFacts
      <4> QED BY <1>1, <1>9, <3>2, <4>1 DEF JobsTyped
    <3> QED BY <3>1, <3>2
  <2>4. ASSUME NEW h \in Handlers PROVE JobIsSound(h)'
    BY <1>1, <1>9 DEF JobsTyped, JobIsSound
  <2> QED BY <1>8, <2>1, <2>2, <2>3, <2>4 DEF JobsTyped
<1>11. ASSUME NEW h \in Handlers PROVE SaveIsStored(h)' /\ LoadedIsLater(h)' /\ InForce(h)'
  <2>1. CASE PodOf[h] # p
    <3>1. /\ reload'[PodOf[h]] = reload[PodOf[h]]
          /\ running'[PodOf[h]] = running[PodOf[h]] /\ source'[PodOf[h]] = source[PodOf[h]]
      BY <1>1, <1>3, <1>8, <2>1, PlaceFacts DEF ProcessTyped
    <3>2. job'[h] = job[h]
      BY <1>9, <2>1
    <3> QED BY <1>1, <1>5, <3>1, <3>2, OrderFrame DEF HasRow, Saver
  <2>2. CASE PodOf[h] = p
    <3>1. SaveIsStored(h) /\ LoadedIsLater(h)
      BY <1>1 DEF OrderInv
    <3>2. SaveIsStored(h)'
      BY <1>5, <1>9, <3>1 DEF SaveIsStored, Saver, Grows
    <3>3. LoadedIsLater(h)'
      BY <1>8, <2>2, NoReloadFacts DEF HasRow, LoadedIsLater
    <3>4. InForce(h)'
      <4>1. running'[p] = r.conf /\ source'[p] = r.from
        BY <1>1, <1>3 DEF ProcessTyped
      <4>2. ASSUME Saver(h)', job'[h].at = "ok", r.from = "row"
            PROVE  InOrder(order, job[h].conf, r.conf)
        <5>1. Saver(h) /\ job[h].at \in {"wait", "ok"}
          BY <1>9, <4>2 DEF Saver
        <5> QED BY <1>2, <2>2, <3>1, <4>2, <5>1 DEF HasRow, LoadedIsLater
      <4>3. job'[h].conf = job[h].conf
        BY <1>9
      <4> QED BY <1>5, <2>2, <4>1, <4>2, <4>3 DEF InForce, Grows
    <3> QED BY <3>2, <3>3, <3>4
  <2> QED BY <2>1, <2>2
<1>12. OrderInv'
  BY <1>5, <1>11 DEF OrderInv, Grows
<1> QED BY <1>5, <1>6, <1>7, <1>10, <1>12, InvFromParts

-----------------------------------------------------------------------------
(* The process *)

\* A Reload begins for the pod itself, for its poller or for a handler.
MayEnter(p, by) ==
    \/ by \in {"start", "poll"} /\ reload[p].at \in {"idle", "down"}
    \/ by \in Handlers /\ PodOf[by] = p /\ reload[p].at = "idle" /\ job[by].at = "reload"

\* A Reload begins before anything is loaded.
LEMMA EnterKeeps ==
    ASSUME Inv, NEW p \in Pods, NEW by, MayEnter(p, by), Enter(p, by)
    PROVE  Inv'
<1>1. StoresTyped /\ ProcessTyped /\ PollerTyped /\ JobsTyped /\ CountsTyped /\ OrderInv
  BY ShapeParts DEF Inv
<1> DEFINE conf == file[VolumeOf[p]]
           at == IF conf = None THEN "restore" ELSE "connect"
           entered == [at |-> at, by |-> by, conf |-> conf, pool |-> FALSE, from |-> "file"]
<1>2. by \in Callers /\ reload[p].by = "start"
  BY <1>1 DEF MayEnter, Callers, JobsTyped, ReloadIsOwned
<1>3. /\ mysql' = [mysql EXCEPT ![p] = FALSE]
      /\ UNCHANGED stores /\ running' = running /\ source' = source /\ masked' = masked
      /\ redis' = redis /\ saves' = saves
      /\ Works \/ Fails
  BY DEF Enter
<1>4. \/ /\ reload' = [reload EXCEPT ![p] = entered] /\ Closing(p, by, "wait")
         /\ UNCHANGED poller
      \/ reload' = reload /\ Closing(p, by, "failed") /\ Polled(p, by, FALSE)
  BY DEF Enter
<1> HIDE DEF at
<1>5. StoresTyped' /\ CountsTyped'
  BY <1>1, <1>3, StoresFrame, FaultsTyped
<1>6. ProcessTyped'
  BY <1>1, <1>3 DEF ProcessTyped
<1>7. PollerTyped'
  BY <1>1, <1>4, PollerFrame, PolledTyped
<1>8. \/ Closing(p, by, "wait") \/ Closing(p, by, "failed")
  BY <1>4
<1>9. conf \in Config /\ at \in {"restore", "connect"}
  BY <1>1, RCPlacesAssumption DEF StoresTyped, at
<1>10. entered \in Reloads
  BY <1>2, <1>9 DEF Reloads
<1>11. job \in [Handlers -> Jobs] /\ reload \in [Pods -> Reloads]
       /\ \A h \in Handlers : JobIsSound(h)
  BY <1>1 DEF JobsTyped
<1>12. by \in Handlers => by \notin {"start", "poll"} /\ PodOf[by] = p /\ job[by].at = "reload"
  BY NoReloadFacts DEF MayEnter
<1>13. /\ job' \in [Handlers -> Jobs]
       /\ \A h \in Handlers :
            /\ job'[h].op = job[h].op /\ job'[h].conf = job[h].conf
            /\ h # by => job'[h].at = job[h].at
            /\ job[h].pool = "own" => job'[h].pool = "own"
  <2>1. CASE Closing(p, by, "wait")
    BY <1>2, <1>11, <2>1, ClosingFacts
  <2>2. CASE Closing(p, by, "failed")
    BY <1>2, <1>11, <2>2, ClosingFacts
  <2> QED BY <1>8, <2>1, <2>2
<1>14. by \in Handlers =>
         \/ job'[by].at = "wait" /\ reload'[p].by = by
         \/ job'[by].at = "failed" /\ reload' = reload
  <2>1. CASE reload' = [reload EXCEPT ![p] = entered] /\ Closing(p, by, "wait")
    <3>1. reload'[p].by = by
      BY <1>11, <2>1
    <3>2. by \in Handlers => job'[by].at = "wait"
      BY <1>2, <1>11, <2>1, ClosingFacts
    <3> QED BY <3>1, <3>2
  <2>2. CASE reload' = reload /\ Closing(p, by, "failed")
    BY <1>2, <1>11, <2>2, ClosingFacts
  <2> QED BY <1>4, <2>1, <2>2
<1>15. /\ reload' \in [Pods -> Reloads]
       /\ \A q \in Pods : q # p => reload'[q] = reload[q]
       /\ reload'[p] = reload[p] \/ (reload'[p].by = by /\ reload'[p].at \in {"restore", "connect"})
  <2>1. CASE reload' = [reload EXCEPT ![p] = entered]
    BY <1>9, <1>10, <1>11, <2>1
  <2>2. CASE reload' = reload
    BY <1>11, <2>2
  <2> QED BY <1>4, <2>1, <2>2
<1> HIDE DEF entered
<1>16. JobsTyped'
  <2>1. \A q \in Pods : ReloadIsOwned(q)'
    BY <1>1, <1>12, <1>15 DEF JobsTyped, ReloadIsOwned
  <2>2. \A h \in Handlers : JobIsSound(h)'
    <3>1. ASSUME NEW h \in Handlers PROVE job'[h].op = "idle" <=> job'[h].at = "idle"
      BY <1>11, <1>12, <1>13, <1>14, <3>1 DEF JobIsSound
    <3> QED BY <1>11, <1>12, <1>13, <1>14, <3>1 DEF JobIsSound
  <2>3. ASSUME NEW h \in Handlers PROVE job'[h].at = "wait" <=> reload'[PodOf[h]].by = h
    <3>1. job[h].at = "wait" <=> reload[PodOf[h]].by = h
      BY <1>1 DEF JobsTyped
    <3>2. CASE PodOf[h] # p
      <4>1. reload'[PodOf[h]] = reload[PodOf[h]] /\ h # by
        BY <1>12, <1>15, <3>2, PlaceFacts
      <4> QED BY <1>13, <3>1, <4>1
    <3>3. CASE PodOf[h] = p /\ h # by
      BY <1>2, <1>13, <1>15, <3>1, <3>3, NoReloadFacts
    <3>4. CASE PodOf[h] = p /\ h = by
      BY <1>2, <1>14, <3>4, NoReloadFacts
    <3> QED BY <3>2, <3>3, <3>4
  <2> QED BY <1>13, <1>15, <2>1, <2>2, <2>3 DEF JobsTyped
<1>17. Grows
  BY <1>1, <1>3, GrowsFrame DEF OrderInv, stores
<1>18. ASSUME NEW h \in Handlers PROVE SaveIsStored(h)' /\ LoadedIsLater(h)' /\ InForce(h)'
  <2>1. job'[h].at \in Passed => job[h].at \in Passed
    BY <1>12, <1>13 DEF Passed
  <2>2. HasRow(PodOf[h])' => h # by /\ HasRow(PodOf[h]) /\ reload'[PodOf[h]] = reload[PodOf[h]]
    <3>1. CASE PodOf[h] # p
      BY <1>12, <1>15, <3>1, PlaceFacts DEF HasRow
    <3>2. CASE PodOf[h] = p
      <4>1. reload[p].at \notin {"keep", "install"}
        BY DEF MayEnter
      <4> QED BY <1>15, <3>2, <4>1 DEF HasRow
    <3> QED BY <3>1, <3>2
  <2>3. job'[h].at = "ok" => h # by
    BY <1>14
  <2>4. source'[PodOf[h]] = source[PodOf[h]] /\ running'[PodOf[h]] = running[PodOf[h]]
    BY <1>3
  <2>5. job'[h].op = job[h].op /\ job'[h].conf = job[h].conf /\ (h # by => job'[h].at = job[h].at)
    BY <1>13
  <2> QED BY <1>1, <1>17, <2>1, <2>2, <2>3, <2>4, <2>5, OrderFrame DEF HasRow, Saver
<1>19. OrderInv'
  BY <1>17, <1>18 DEF OrderInv, Grows
<1> QED BY <1>5, <1>6, <1>7, <1>16, <1>19, InvFromParts

\* The poller looks at the revision.
LEMMA TickKeeps ==
    ASSUME Inv, NEW p \in Pods, Tick(p)
    PROVE  Inv'
<1>1. StoresTyped /\ ProcessTyped /\ PollerTyped /\ JobsTyped /\ CountsTyped /\ OrderInv
  BY ShapeParts DEF Inv
<1>2. /\ poll[p] = 0 /\ revision \notin {0, seen[p]}
      /\ \/ seen' = [seen EXCEPT ![p] = revision] /\ poll' = poll
         \/ poll' = [poll EXCEPT ![p] = revision] /\ seen' = seen
      /\ UNCHANGED stores /\ UNCHANGED process
      /\ reload' = reload /\ job' = job /\ saves' = saves /\ faults' = faults
  BY DEF Tick
<1>3. PollerTyped'
  <2>1. revision \in 0..MaxSaves
    BY <1>1 DEF StoresTyped
  <2> QED BY <1>1, <1>2, <2>1 DEF PollerTyped
<1>4. StoresTyped' /\ ProcessTyped' /\ JobsTyped' /\ CountsTyped'
  BY <1>1, <1>2, StoresFrame, ProcessFrame, JobsFrame, FaultsTyped DEF Works
<1>5. Grows
  BY <1>1, <1>2, GrowsFrame DEF OrderInv, stores
<1>6. OrderInv'
  BY <1>1, <1>2, <1>5, QuietOrder, ProcessParts
<1> QED BY <1>3, <1>4, <1>6, InvFromParts

\* The settings are shown.
LEMMA GetKeeps ==
    ASSUME Inv, NEW p \in Pods, Get(p)
    PROVE  Inv'
<1>1. StoresTyped /\ ProcessTyped /\ PollerTyped /\ JobsTyped /\ CountsTyped /\ OrderInv
  BY ShapeParts DEF Inv
<1>2. /\ masked' = [masked EXCEPT ![p] = TRUE]
      /\ UNCHANGED stores /\ UNCHANGED poller
      /\ running' = running /\ source' = source /\ mysql' = mysql /\ redis' = redis
      /\ reload' = reload /\ job' = job /\ saves' = saves /\ faults' = faults
  BY DEF Get
<1>3. ProcessTyped'
  BY <1>1, <1>2 DEF ProcessTyped
<1>4. StoresTyped' /\ PollerTyped' /\ JobsTyped' /\ CountsTyped'
  BY <1>1, <1>2, StoresFrame, PollerFrame, JobsFrame, FaultsTyped DEF Works
<1>5. Grows
  BY <1>1, <1>2, GrowsFrame DEF OrderInv, stores
<1>6. OrderInv'
  BY <1>1, <1>2, <1>5, QuietOrder
<1> QED BY <1>3, <1>4, <1>6, InvFromParts

\* Redis is reached again.
LEMMA ReconnectKeeps ==
    ASSUME Inv, NEW p \in Pods, Reconnect(p)
    PROVE  Inv'
<1>1. StoresTyped /\ ProcessTyped /\ PollerTyped /\ JobsTyped /\ CountsTyped /\ OrderInv
  BY ShapeParts DEF Inv
<1>2. /\ redis' = [redis EXCEPT ![p] = TRUE]
      /\ Works \/ Fails
      /\ backup' = backup \/ (running[p] # None /\ backup' = Held(p))
      /\ row' = row /\ revision' = revision /\ file' = file /\ order' = order
      /\ UNCHANGED poller
      /\ running' = running /\ source' = source /\ masked' = masked /\ mysql' = mysql
      /\ reload' = reload /\ job' = job /\ saves' = saves
  BY DEF Reconnect
<1>3. running[p] # None => Held(p) \in Config
  BY <1>1, SettingsFacts DEF Held, ProcessTyped
<1>4. StoresTyped'
  BY <1>1, <1>2, <1>3 DEF StoresTyped
<1>5. ProcessTyped'
  BY <1>1, <1>2 DEF ProcessTyped
<1>6. PollerTyped' /\ JobsTyped' /\ CountsTyped'
  BY <1>1, <1>2, PollerFrame, JobsFrame, FaultsTyped
<1>7. Grows
  BY <1>1, <1>2, GrowsFrame DEF OrderInv
<1>8. OrderInv'
  BY <1>1, <1>2, <1>7, QuietOrder
<1> QED BY <1>4, <1>5, <1>6, <1>8, InvFromParts

\* A handler without a request.
LEMMA NoJobFacts == NoJob \in Jobs /\ NoJob.op = "idle" /\ NoJob.at = "idle"
  BY DEF NoJob, Jobs, Config

\* A pod's handlers and its Reload are lost with it.
LEMMA CrashKeeps ==
    ASSUME Inv, NEW p \in Pods, Crash(p)
    PROVE  Inv'
<1>1. StoresTyped /\ ProcessTyped /\ PollerTyped /\ JobsTyped /\ CountsTyped /\ OrderInv
  BY ShapeParts DEF Inv
<1>2. /\ Fails
      /\ file' = file \/ file' = [file EXCEPT ![VolumeOf[p]] = None]
      /\ row' = row /\ revision' = revision /\ backup' = backup /\ order' = order /\ saves' = saves
  BY DEF Crash
<1>3. /\ running' = [running EXCEPT ![p] = None]
      /\ source' = [source EXCEPT ![p] = "file"]
      /\ masked' = [masked EXCEPT ![p] = FALSE]
      /\ mysql' = [mysql EXCEPT ![p] = FALSE]
      /\ redis' = [redis EXCEPT ![p] = FALSE]
  BY DEF Crash
<1>4. seen' = [seen EXCEPT ![p] = 0] /\ poll' = [poll EXCEPT ![p] = 0]
  BY DEF Crash
<1>5. /\ reload' = [reload EXCEPT ![p] = Down]
      /\ job' = [h \in Handlers |-> IF PodOf[h] = p THEN NoJob ELSE job[h]]
  BY DEF Crash
<1>6. StoresTyped'
  <2>1. CASE file' = file
    BY <1>1, <1>2, <2>1 DEF StoresTyped
  <2>2. CASE file' = [file EXCEPT ![VolumeOf[p]] = None]
    BY <1>1, <1>2, <2>2, SettingsFacts, FileTyped
  <2> QED BY <1>2, <2>1, <2>2
<1>7. ProcessTyped'
  BY <1>1, <1>3, SettingsFacts DEF ProcessTyped
<1>8. PollerTyped' /\ CountsTyped'
  <2>1. 0 \in 0..MaxSaves
    BY RCBoundsAssumption
  <2>2. PollerTyped'
    BY <1>1, <1>4, <2>1 DEF PollerTyped
  <2> QED BY <1>1, <1>2, <2>2, FaultsTyped
<1>9. /\ reload' \in [Pods -> Reloads] /\ reload'[p] = Down
      /\ \A q \in Pods : q # p => reload'[q] = reload[q]
  BY <1>1, <1>5, NoReloadFacts DEF JobsTyped
<1>10. /\ job' \in [Handlers -> Jobs]
       /\ \A h \in Handlers : job'[h] = IF PodOf[h] = p THEN NoJob ELSE job[h]
  BY <1>1, <1>5, NoJobFacts DEF JobsTyped
<1>11. JobsTyped'
  <2>1. \A q \in Pods : ReloadIsOwned(q)'
    BY <1>1, <1>9, NoReloadFacts DEF JobsTyped, ReloadIsOwned
  <2>2. ASSUME NEW h \in Handlers PROVE job'[h].at = "wait" <=> reload'[PodOf[h]].by = h
    <3>1. CASE PodOf[h] = p
      BY <1>9, <1>10, <3>1, NoReloadFacts, NoJobFacts
    <3>2. CASE PodOf[h] # p
      BY <1>1, <1>9, <1>10, <3>2, PlaceFacts DEF JobsTyped
    <3> QED BY <3>1, <3>2
  <2>3. \A h \in Handlers : JobIsSound(h)'
    BY <1>1, <1>10, NoJobFacts DEF JobsTyped, JobIsSound
  <2> QED BY <1>9, <1>10, <2>1, <2>2, <2>3 DEF JobsTyped
<1>12. Grows
  BY <1>1, <1>2, GrowsFrame DEF OrderInv
<1>13. ASSUME NEW h \in Handlers PROVE SaveIsStored(h)' /\ LoadedIsLater(h)' /\ InForce(h)'
  <2>1. CASE PodOf[h] = p
    BY <1>10, <2>1, NoJobFacts DEF SaveIsStored, LoadedIsLater, InForce
  <2>2. CASE PodOf[h] # p
    <3>1. /\ job'[h] = job[h] /\ reload'[PodOf[h]] = reload[PodOf[h]]
          /\ running'[PodOf[h]] = running[PodOf[h]] /\ source'[PodOf[h]] = source[PodOf[h]]
      BY <1>1, <1>3, <1>9, <1>10, <2>2, PlaceFacts DEF ProcessTyped
    <3> QED BY <1>1, <1>12, <3>1, OrderFrame DEF HasRow, Saver
  <2> QED BY <2>1, <2>2
<1>14. OrderInv'
  BY <1>12, <1>13 DEF OrderInv, Grows
<1> QED BY <1>6, <1>7, <1>8, <1>11, <1>14, InvFromParts

-----------------------------------------------------------------------------
(* The steps of a save *)

\* A step of one handler alone, that does not call a Reload.
JobStep(h, j) ==
    /\ j \in Jobs
    /\ j.at \notin {"wait", "ok"}
    /\ job[h].at # "wait"
    /\ j.op = "idle" <=> j.at = "idle"
    /\ j.at # "idle" => j.conf # None
    /\ j.op \in {"put", "setup"} => j.pool = "own" /\ j.at # "pool"
    /\ job' = [job EXCEPT ![h] = j]
    /\ reload' = reload

\* The other handlers do what they did.
LEMMA OneJob ==
    ASSUME JobsTyped, NEW h \in Handlers, NEW j, JobStep(h, j)
    PROVE  JobsTyped' /\ job'[h] = j /\ \A g \in Handlers : g # h => job'[g] = job[g]
<1>1. job \in [Handlers -> Jobs] /\ reload \in [Pods -> Reloads]
  BY DEF JobsTyped
<1>2. /\ job' \in [Handlers -> Jobs] /\ job'[h] = j
      /\ \A g \in Handlers : g # h => job'[g] = job[g]
      /\ reload' = reload
  BY <1>1 DEF JobStep
<1>3. \A p \in Pods : ReloadIsOwned(p)'
  BY <1>2 DEF JobsTyped, ReloadIsOwned
<1>4. \A g \in Handlers : JobIsSound(g)'
  <2>1. JobIsSound(h)'
    BY <1>2 DEF JobStep, JobIsSound
  <2>2. ASSUME NEW g \in Handlers, g # h PROVE JobIsSound(g)'
    BY <1>2, <2>2 DEF JobsTyped, JobIsSound
  <2> QED BY <2>1, <2>2
<1>5. \A g \in Handlers : job'[g].at = "wait" <=> reload'[PodOf[g]].by = g
  BY <1>2 DEF JobsTyped, JobStep
<1> QED BY <1>1, <1>2, <1>3, <1>4, <1>5 DEF JobsTyped

\* The handler's save is in the history if the handler has passed the row.
LEMMA OneJobOrder ==
    ASSUME OrderInv, Grows, JobsTyped, NEW h \in Handlers, NEW j, JobStep(h, j),
           running' = running, source' = source,
           j.op \in {"put", "setup"} /\ j.at \in Passed => Stored(order', j.conf)
    PROVE  OrderInv'
<1>1. job'[h] = j /\ \A g \in Handlers : g # h => job'[g] = job[g]
  BY OneJob
<1>2. reload' = reload
  BY DEF JobStep
<1>3. ASSUME NEW g \in Handlers PROVE SaveIsStored(g)' /\ LoadedIsLater(g)' /\ InForce(g)'
  <2>1. CASE g = h
    <3>1. SaveIsStored(h)'
      BY <1>1 DEF SaveIsStored, Saver, Passed
    <3>2. LoadedIsLater(h)' /\ InForce(h)'
      BY <1>1 DEF HasRow, LoadedIsLater, InForce, JobStep
    <3> QED BY <2>1, <3>1, <3>2
  <2>2. CASE g # h
    <3>1. job'[g] = job[g]
      BY <1>1, <2>2
    <3> QED BY <1>2, <3>1, OrderFrame DEF HasRow, Saver
  <2> QED BY <2>1, <2>2
<1> QED BY <1>3 DEF OrderInv, Grows

\* A save begins, with settings of its own.
LEMMA BeginKeeps ==
    ASSUME Inv, NEW h \in Handlers,
           NEW op \in {"put", "patch", "setup"}, NEW at \in {"pool", "file"},
           op = "patch" \/ at = "file",
           NEW key, saves < MaxSaves => key \in Saves \union {Masked},
           Begin(h, op, at, key)
    PROVE  Inv'
<1>1. StoresTyped /\ ProcessTyped /\ PollerTyped /\ JobsTyped /\ CountsTyped /\ OrderInv
  BY ShapeParts DEF Inv
<1> DEFINE conf == [id |-> saves + 1, key |-> key]
           pool == IF op = "patch" THEN "none" ELSE "own"
           j == [op |-> op, at |-> at, conf |-> conf, pool |-> pool]
<1>2. /\ job[h].op = "idle" /\ saves < MaxSaves /\ saves' = saves + 1
      /\ job' = [job EXCEPT ![h] = j]
      /\ UNCHANGED stores /\ UNCHANGED process /\ UNCHANGED poller
      /\ reload' = reload /\ faults' = faults
  BY DEF Begin
<1>3. saves + 1 \in Saves /\ CountsTyped'
  BY <1>1, <1>2, RCBoundsAssumption DEF Saves, CountsTyped
<1>4. conf \in Settings /\ conf \in Config /\ conf # None
  BY <1>2, <1>3, SettingsFacts
<1>5. pool \in {"own", "none"} /\ (op \in {"put", "setup"} => pool = "own" /\ at # "pool")
  OBVIOUS
<1> HIDE DEF conf, pool
<1>6. j \in Jobs /\ j.op = op /\ j.at = at /\ j.conf = conf /\ j.pool = pool
  BY <1>4, <1>5 DEF Jobs
<1>7. job[h].at # "wait"
  BY <1>1, <1>2 DEF JobsTyped, JobIsSound
<1> HIDE DEF j
<1>8. JobStep(h, j)
  BY <1>2, <1>4, <1>5, <1>6, <1>7 DEF JobStep
<1>9. StoresTyped' /\ ProcessTyped' /\ PollerTyped' /\ JobsTyped'
  BY <1>1, <1>2, <1>8, StoresFrame, ProcessFrame, PollerFrame, OneJob
<1>10. Grows
  BY <1>1, <1>2, GrowsFrame DEF OrderInv, stores
<1>11. j.at \notin Passed
  BY <1>6 DEF Passed
<1>12. OrderInv'
  BY <1>1, <1>2, <1>8, <1>10, <1>11, OneJobOrder, ProcessParts
<1> QED BY <1>3, <1>9, <1>12, InvFromParts

\* The three requests that save.
LEMMA SaveBegins ==
    ASSUME Inv, NEW h \in Handlers, Put(h) \/ Setup(h) \/ Patch(h)
    PROVE  Inv'
<1>1. StoresTyped /\ CountsTyped
  BY ShapeParts DEF Inv
<1> DEFINE cur == file[VolumeOf[PodOf[h]]]
<1>2. cur \in Config
  BY <1>1, RCPlacesAssumption DEF StoresTyped
<1>3. cur # None => cur.key \in Saves \union {Masked}
  BY <1>2 DEF Config, Settings
<1>4. saves < MaxSaves => saves + 1 \in Saves \union {Masked}
  BY <1>1, RCBoundsAssumption DEF CountsTyped, Saves
<1> HIDE DEF cur
<1>5. CASE Put(h)
  <2>1. cur # None /\ (Begin(h, "put", "file", saves + 1) \/ Begin(h, "put", "file", cur.key))
    BY <1>5 DEF Put, cur
  <2> QED BY <1>3, <1>4, <2>1, BeginKeeps
<1>6. CASE Setup(h)
  <2>1. Begin(h, "setup", "file", saves + 1)
    BY <1>6 DEF Setup
  <2> QED BY <1>4, <2>1, BeginKeeps
<1>7. CASE Patch(h)
  <2>1. cur # None /\ Begin(h, "patch", "pool", cur.key)
    BY <1>7 DEF Patch, cur
  <2> QED BY <1>3, <2>1, BeginKeeps
<1> QED BY <1>5, <1>6, <1>7

\* A handler that is busy and waits for no Reload proceeds.
LEMMA ProceedSteps ==
    ASSUME JobsTyped, NEW h \in Handlers,
           job[h].at \in {"pool", "file", "row", "bump", "mirror"},
           NEW at \in {"file", "row", "bump", "mirror", "reload", "failed"},
           NEW pool \in {"own", "shared", "closed", "none"},
           job[h].op \in {"put", "setup"} => pool = "own",
           NEW j, j = [op |-> job[h].op, at |-> at, conf |-> job[h].conf, pool |-> pool],
           Proceed(h, at, pool), reload' = reload
    PROVE  /\ JobStep(h, j) /\ j.op = job[h].op /\ j.at = at /\ j.conf = job[h].conf
           /\ job[h].conf \in Settings
<1>1. job[h] \in Jobs /\ JobIsSound(h)
  BY DEF JobsTyped
<1>2. job[h].op # "idle" /\ job[h].conf # None
  BY <1>1 DEF JobIsSound
<1>3. /\ job[h].op \in {"idle", "put", "patch", "setup"} /\ job[h].conf \in Config
  BY <1>1 DEF Jobs
<1>4. job[h].conf \in Settings
  BY <1>2, <1>3, SettingsFacts
<1>5. j \in Jobs /\ j.op = job[h].op /\ j.at = at /\ j.conf = job[h].conf /\ j.pool = pool
  BY <1>3 DEF Jobs
<1>6. job' = [job EXCEPT ![h] = j]
  BY DEF Proceed
<1> QED BY <1>2, <1>4, <1>5, <1>6 DEF JobStep

\* What a handler that has passed the row, or passes it now, knows of its save.
LEMMA ProceedKeeps ==
    ASSUME JobsTyped, OrderInv, Grows, NEW h \in Handlers,
           job[h].at \in {"pool", "file", "row", "bump", "mirror"},
           NEW at \in {"file", "row", "bump", "mirror", "reload", "failed"},
           NEW pool \in {"own", "shared", "closed", "none"},
           job[h].op \in {"put", "setup"} => pool = "own",
           Proceed(h, at, pool), reload' = reload, running' = running, source' = source,
           Saver(h) /\ at \in Passed =>
             job[h].at \in Passed \/ Stored(order', job[h].conf)
    PROVE  JobsTyped' /\ OrderInv'
<1> DEFINE j == [op |-> job[h].op, at |-> at, conf |-> job[h].conf, pool |-> pool]
<1>1. JobStep(h, j) /\ j.op = job[h].op /\ j.at = at /\ j.conf = job[h].conf
  BY ProceedSteps
<1> HIDE DEF j
<1>2. SaveIsStored(h)
  BY DEF OrderInv
<1>3. Saver(h) /\ job[h].at \in Passed => Stored(order', job[h].conf)
  BY <1>2 DEF SaveIsStored, Passed, Grows
<1>4. j.op \in {"put", "setup"} /\ j.at \in Passed => Stored(order', j.conf)
  BY <1>1, <1>3 DEF Saver
<1> QED BY <1>1, <1>4, OneJob, OneJobOrder

\* What is known of a handler that writes.
LEMMA WriterFacts ==
    ASSUME JobsTyped, NEW h \in Handlers, job[h].at # "idle"
    PROVE  /\ job[h].conf \in Settings /\ job[h].conf \in Config
           /\ job[h].conf.id \in 0..MaxSaves
           /\ job[h].pool \in {"own", "shared", "closed", "none"}
           /\ job[h].op \in {"put", "setup"} => job[h].pool = "own" /\ job[h].at # "pool"
<1>1. job[h] \in Jobs /\ JobIsSound(h)
  BY DEF JobsTyped
<1>2. /\ job[h].conf # None
      /\ job[h].op \in {"put", "setup"} => job[h].pool = "own" /\ job[h].at # "pool"
  BY <1>1 DEF JobIsSound
<1>3. job[h].conf \in Config /\ job[h].pool \in {"own", "shared", "closed", "none"}
  BY <1>1 DEF Jobs
<1> QED BY <1>2, <1>3, SettingsFacts

\* A patch gets its pool.
LEMMA GetPoolKeeps ==
    ASSUME Inv, NEW h \in Handlers, GetPool(h)
    PROVE  Inv'
<1>1. StoresTyped /\ ProcessTyped /\ PollerTyped /\ JobsTyped /\ CountsTyped /\ OrderInv
  BY ShapeParts DEF Inv
<1> DEFINE pool == IF mysql[PodOf[h]] THEN "shared" ELSE "none"
<1>2. /\ job[h].at = "pool" /\ Proceed(h, "file", pool)
      /\ UNCHANGED stores /\ UNCHANGED process /\ UNCHANGED poller
      /\ reload' = reload /\ saves' = saves /\ faults' = faults
  BY DEF GetPool
<1>3. pool \in {"shared", "none"}
  OBVIOUS
<1> HIDE DEF pool
<1>4. StoresTyped' /\ ProcessTyped' /\ PollerTyped' /\ CountsTyped'
  BY <1>1, <1>2, StoresFrame, ProcessFrame, PollerFrame, FaultsTyped DEF Works
<1>5. Grows
  BY <1>1, <1>2, GrowsFrame DEF OrderInv, stores
<1>6. job[h].op \notin {"put", "setup"}
  BY <1>1, <1>2, WriterFacts
<1>7. JobsTyped' /\ OrderInv'
  BY <1>1, <1>2, <1>3, <1>5, <1>6, ProceedKeeps, ProcessParts DEF Passed
<1> QED BY <1>4, <1>7, InvFromParts

\* Only a patch goes on without the row.
LEMMA WriteFileKeeps ==
    ASSUME Inv, NEW h \in Handlers, WriteFile(h)
    PROVE  Inv'
<1>1. StoresTyped /\ ProcessTyped /\ PollerTyped /\ JobsTyped /\ CountsTyped /\ OrderInv
  BY ShapeParts DEF Inv
<1> DEFINE at == IF job[h].pool = "none" THEN "reload" ELSE "row"
<1>2. /\ job[h].at = "file"
      /\ row' = row /\ revision' = revision /\ backup' = backup /\ order' = order
      /\ UNCHANGED process /\ UNCHANGED poller /\ reload' = reload /\ saves' = saves
  BY DEF WriteFile
<1>3. \/ /\ Works /\ file' = [file EXCEPT ![VolumeOf[PodOf[h]]] = job[h].conf]
         /\ Proceed(h, at, job[h].pool)
      \/ Fails /\ file' = file /\ Proceed(h, "failed", job[h].pool)
  BY DEF WriteFile
<1>4. /\ job[h].conf \in Config /\ job[h].pool \in {"own", "shared", "closed", "none"}
      /\ PodOf[h] \in Pods
      /\ Saver(h) => job[h].pool = "own"
  BY <1>1, <1>2, WriterFacts, PlaceFacts DEF Saver
<1>5. at = "row" \/ (at = "reload" /\ job[h].pool = "none")
  OBVIOUS
<1> HIDE DEF at
<1>6. StoresTyped'
  <2>1. CASE file' = file
    BY <1>1, <1>2, <2>1 DEF StoresTyped
  <2>2. CASE file' = [file EXCEPT ![VolumeOf[PodOf[h]]] = job[h].conf]
    BY <1>1, <1>2, <1>4, <2>2, FileTyped
  <2> QED BY <1>3, <2>1, <2>2
<1>7. ProcessTyped' /\ PollerTyped' /\ CountsTyped'
  BY <1>1, <1>2, <1>3, ProcessFrame, PollerFrame, FaultsTyped
<1>8. Grows
  BY <1>1, <1>2, GrowsFrame DEF OrderInv
<1>9. JobsTyped' /\ OrderInv'
  <2>1. CASE Proceed(h, at, job[h].pool)
    <3>1. Saver(h) /\ at \in Passed => job[h].at \in Passed \/ Stored(order', job[h].conf)
      BY <1>4, <1>5 DEF Passed
    <3> QED BY <1>1, <1>2, <1>4, <1>5, <1>8, <2>1, <3>1, ProceedKeeps, ProcessParts DEF Saver
  <2>2. CASE Proceed(h, "failed", job[h].pool)
    BY <1>1, <1>2, <1>4, <1>8, <2>2, ProceedKeeps, ProcessParts DEF Passed, Saver
  <2> QED BY <1>3, <2>1, <2>2
<1> QED BY <1>6, <1>7, <1>9, InvFromParts

\* A handler passes the row only if its settings reached it.
LEMMA WriteRowKeeps ==
    ASSUME Inv, NEW h \in Handlers, WriteRow(h)
    PROVE  Inv'
<1>1. StoresTyped /\ ProcessTyped /\ PollerTyped /\ JobsTyped /\ CountsTyped /\ OrderInv
  BY ShapeParts DEF Inv
<1>2. /\ job[h].at = "row" /\ (Works \/ Fails)
      /\ revision' = revision /\ backup' = backup /\ file' = file
      /\ UNCHANGED process /\ UNCHANGED poller /\ reload' = reload /\ saves' = saves
  BY DEF WriteRow
<1>3. \/ Upsert(job[h].conf) /\ Proceed(h, "bump", job[h].pool)
      \/ Upsert(job[h].conf) /\ Proceed(h, "failed", job[h].pool)
      \/ row' = row /\ order' = order /\ Proceed(h, "failed", job[h].pool)
  BY DEF WriteRow
<1>4. /\ job[h].conf \in Settings /\ job[h].pool \in {"own", "shared", "closed", "none"}
      /\ Saver(h) => job[h].pool = "own"
  BY <1>1, <1>2, WriterFacts DEF Saver
<1>5. order \in Seq(Settings)
  BY <1>1 DEF StoresTyped
<1>6. ProcessTyped' /\ PollerTyped' /\ CountsTyped'
  BY <1>1, <1>2, ProcessFrame, PollerFrame, FaultsTyped
<1>7. CASE Upsert(job[h].conf)
  <2>1. StoresTyped' /\ Grows /\ Stored(order', job[h].conf)
    BY <1>1, <1>2, <1>4, <1>5, <1>7, UpsertKeeps, GrowsByUpsert DEF StoresTyped
  <2>2. Proceed(h, "bump", job[h].pool) \/ Proceed(h, "failed", job[h].pool)
    BY <1>3
  <2>3. JobsTyped' /\ OrderInv'
    BY <1>1, <1>2, <1>4, <2>1, <2>2, ProceedKeeps, ProcessParts DEF Saver
  <2> QED BY <1>6, <2>1, <2>3, InvFromParts
<1>8. CASE row' = row /\ order' = order /\ Proceed(h, "failed", job[h].pool)
  <2>1. StoresTyped' /\ Grows
    BY <1>1, <1>2, <1>8, GrowsFrame DEF StoresTyped, OrderInv
  <2>2. JobsTyped' /\ OrderInv'
    BY <1>1, <1>2, <1>4, <1>8, <2>1, ProceedKeeps, ProcessParts DEF Saver, Passed
  <2> QED BY <1>6, <2>1, <2>2, InvFromParts
<1> QED BY <1>3, <1>7, <1>8

\* The revision is written, or not.
LEMMA BumpKeeps ==
    ASSUME Inv, NEW h \in Handlers, Bump(h)
    PROVE  Inv'
<1>1. StoresTyped /\ ProcessTyped /\ PollerTyped /\ JobsTyped /\ CountsTyped /\ OrderInv
  BY ShapeParts DEF Inv
<1> DEFINE at == IF job[h].op = "patch" THEN "reload" ELSE "mirror"
<1>2. /\ job[h].at = "bump" /\ (Works \/ Fails) /\ Proceed(h, at, job[h].pool)
      /\ revision' \in {revision, job[h].conf.id}
      /\ row' = row /\ backup' = backup /\ file' = file /\ order' = order
      /\ UNCHANGED process /\ UNCHANGED poller /\ reload' = reload /\ saves' = saves
  BY DEF Bump
<1>3. at \in {"reload", "mirror"}
  OBVIOUS
<1> HIDE DEF at
<1>4. /\ job[h].conf.id \in 0..MaxSaves /\ job[h].pool \in {"own", "shared", "closed", "none"}
      /\ job[h].op \in {"put", "setup"} => job[h].pool = "own"
  BY <1>1, <1>2, WriterFacts
<1>5. StoresTyped'
  BY <1>1, <1>2, <1>4 DEF StoresTyped
<1>6. ProcessTyped' /\ PollerTyped' /\ CountsTyped'
  BY <1>1, <1>2, ProcessFrame, PollerFrame, FaultsTyped
<1>7. Grows
  BY <1>1, <1>2, GrowsFrame DEF OrderInv
<1>8. JobsTyped' /\ OrderInv'
  BY <1>1, <1>2, <1>3, <1>4, <1>7, ProceedKeeps, ProcessParts DEF Passed
<1> QED BY <1>5, <1>6, <1>8, InvFromParts

\* The backup is written, or not.
LEMMA MirrorKeeps ==
    ASSUME Inv, NEW h \in Handlers, Mirror(h)
    PROVE  Inv'
<1>1. StoresTyped /\ ProcessTyped /\ PollerTyped /\ JobsTyped /\ CountsTyped /\ OrderInv
  BY ShapeParts DEF Inv
<1>2. /\ job[h].at = "mirror" /\ (Works \/ Fails)
      /\ backup' \in {backup, job[h].conf}
      /\ Proceed(h, "reload", job[h].pool) \/ Proceed(h, "failed", job[h].pool)
      /\ row' = row /\ revision' = revision /\ file' = file /\ order' = order
      /\ UNCHANGED process /\ UNCHANGED poller /\ reload' = reload /\ saves' = saves
  BY DEF Mirror
<1>3. /\ job[h].conf \in Config /\ job[h].pool \in {"own", "shared", "closed", "none"}
      /\ job[h].op \in {"put", "setup"} => job[h].pool = "own"
  BY <1>1, <1>2, WriterFacts
<1>4. StoresTyped'
  BY <1>1, <1>2, <1>3 DEF StoresTyped
<1>5. ProcessTyped' /\ PollerTyped' /\ CountsTyped'
  BY <1>1, <1>2, ProcessFrame, PollerFrame, FaultsTyped
<1>6. Grows
  BY <1>1, <1>2, GrowsFrame DEF OrderInv
<1>7. JobsTyped' /\ OrderInv'
  BY <1>1, <1>2, <1>3, <1>6, ProceedKeeps, ProcessParts DEF Passed
<1> QED BY <1>4, <1>5, <1>7, InvFromParts

\* The request is over.
LEMMA ReturnKeeps ==
    ASSUME Inv, NEW h \in Handlers, Return(h)
    PROVE  Inv'
<1>1. StoresTyped /\ ProcessTyped /\ PollerTyped /\ JobsTyped /\ CountsTyped /\ OrderInv
  BY ShapeParts DEF Inv
<1>2. /\ job[h].at \in {"ok", "failed"} /\ job' = [job EXCEPT ![h] = NoJob]
      /\ UNCHANGED stores /\ UNCHANGED process /\ UNCHANGED poller
      /\ reload' = reload /\ saves' = saves /\ faults' = faults
  BY DEF Return
<1>3. JobStep(h, NoJob)
  BY <1>2, NoJobFacts DEF JobStep
<1>4. StoresTyped' /\ ProcessTyped' /\ PollerTyped' /\ CountsTyped' /\ JobsTyped'
  BY <1>1, <1>2, <1>3, StoresFrame, ProcessFrame, PollerFrame, FaultsTyped, OneJob DEF Works
<1>5. Grows
  BY <1>1, <1>2, GrowsFrame DEF OrderInv, stores
<1>6. OrderInv'
  BY <1>1, <1>2, <1>3, <1>5, NoJobFacts, OneJobOrder, ProcessParts
<1> QED BY <1>4, <1>6, InvFromParts

-----------------------------------------------------------------------------
(* The theorems *)

\* The invariant holds at first.
LEMMA InitInv == Init => Inv
<1> SUFFICES ASSUME Init PROVE Inv
  OBVIOUS
<1>1. 0 \in 0..MaxSaves /\ 0 \in 0..MaxFaults /\ None \in Config
  BY RCBoundsAssumption DEF Config
<1>2. StoresTyped
  BY <1>1 DEF Init, StoresTyped
<1>3. ProcessTyped /\ PollerTyped /\ CountsTyped
  BY <1>1 DEF Init, ProcessTyped, PollerTyped, CountsTyped
<1>4. JobsTyped
  BY NoReloadFacts, NoJobFacts, PlaceFacts DEF Init, JobsTyped, ReloadIsOwned, JobIsSound
<1>5. OrderInv
  BY NoJobFacts DEF Init, OrderInv, RowIsLast, SaveIsStored, LoadedIsLater, InForce, Saver
<1> QED BY <1>2, <1>3, <1>4, <1>5, ShapeParts DEF Inv

\* Nothing happens.
LEMMA StutterKeeps ==
    ASSUME Inv, UNCHANGED vars
    PROVE  Inv'
<1>1. StoresTyped /\ ProcessTyped /\ PollerTyped /\ JobsTyped /\ CountsTyped /\ OrderInv
  BY ShapeParts DEF Inv
<1>2. /\ UNCHANGED stores /\ UNCHANGED process /\ UNCHANGED poller
      /\ reload' = reload /\ job' = job /\ saves' = saves /\ faults' = faults
  BY DEF vars
<1>3. StoresTyped' /\ ProcessTyped' /\ PollerTyped' /\ JobsTyped' /\ CountsTyped'
  BY <1>1, <1>2, StoresFrame, ProcessFrame, PollerFrame, JobsFrame, FaultsTyped DEF Works
<1>4. Grows
  BY <1>1, <1>2, GrowsFrame DEF OrderInv, stores
<1>5. OrderInv'
  BY <1>1, <1>2, <1>4, QuietOrder, ProcessParts
<1> QED BY <1>3, <1>5, InvFromParts

\* Every step keeps the invariant.
LEMMA NextInv == Inv /\ [Next]_vars => Inv'
<1> SUFFICES ASSUME Inv, [Next]_vars PROVE Inv'
  OBVIOUS
<1>1. ASSUME NEW p \in Pods, Start(p) PROVE Inv'
  BY <1>1, EnterKeeps DEF Start, MayEnter
<1>2. ASSUME NEW p \in Pods, Reloading(p) PROVE Inv'
  BY <1>2, RestoreKeeps, KeepKeeps, ConnectKeeps, ImportKeeps, LoadKeeps, InstallKeeps DEF Reloading
<1>3. ASSUME NEW p \in Pods, Follow(p) PROVE Inv'
  BY <1>3, EnterKeeps DEF Follow, Free, MayEnter
<1>4. ASSUME NEW p \in Pods, Process(p) PROVE Inv'
  BY <1>1, <1>2, <1>3, <1>4, TickKeeps, ReconnectKeeps DEF Process
<1>5. ASSUME NEW h \in Handlers, Activate(h) PROVE Inv'
  <2>1. PodOf[h] \in Pods /\ MayEnter(PodOf[h], h) /\ Enter(PodOf[h], h)
    BY <1>5, PlaceFacts DEF Activate, Free, MayEnter
  <2> QED BY <2>1, EnterKeeps
<1>6. ASSUME NEW h \in Handlers, Saving(h) PROVE Inv'
  BY <1>5, <1>6, GetPoolKeeps, WriteFileKeeps, WriteRowKeeps, BumpKeeps, MirrorKeeps, ReturnKeeps
     DEF Saving
<1>7. CASE Next
  BY <1>4, <1>6, <1>7, CrashKeeps, GetKeeps, SaveBegins DEF Next
<1> QED BY <1>7, StutterKeeps

\* Every variable keeps its type, a poller reloads only for a revision it has not
\* noted, and a handler waits exactly for the Reload that it has called
\* (server_app.go, Reload and its callers), for any pods, volumes and handlers.
THEOREM TypeCorrect == Spec => []TypeOK
<1>1. Inv => TypeOK
  BY DEF Inv, Shape
<1> QED BY <1>1, InitInv, NextInv, PTL DEF Spec

\* A save that was answered as a success is in force at its pod, or one that came
\* later to the row is, whatever happens at the other pods and to the stores
\* (settings_runtime_handlers.go, setup_handlers.go, server_app.go).
THEOREM SavesAreInForce == Spec => []SavedIsInForce
<1>1. Inv => SavedIsInForce
  BY DEF Inv, OrderInv, InForce, Saver, InOrder, SavedIsInForce, Precedes
<1> QED BY <1>1, InitInv, NextInv, PTL DEF Spec

-----------------------------------------------------------------------------
(* What a poller has noted *)

\* The save of a revision has reached the row: a revision is written by a handler that has
\* passed the row, and read by pollers.  What a poller's Reload has loaded from the row is
\* that save or one that came later.
NotedInv ==
    /\ revision # 0 => Stored(order, [id |-> revision])
    /\ \A p \in Pods : poll[p] # 0 => Stored(order, [id |-> poll[p]])
    /\ \A h \in Handlers : job[h].at = "bump" => Stored(order, job[h].conf)
    /\ \A p \in Pods : reload[p].by = "poll" =>
         /\ poll[p] # 0
         /\ HasRow(p) => InOrder(order, [id |-> poll[p]], reload[p].conf)

\* Every step leaves the row's history alone or adds to it.
LEMMA NextGrows ==
    ASSUME Inv, Next
    PROVE  Grows
<1>1. order \in Seq(Settings) /\ JobsTyped /\ RowIsLast
  BY ShapeParts DEF Inv, StoresTyped, OrderInv
<1>2. ASSUME UNCHANGED stores \/ (row' = row /\ order' = order) PROVE Grows
  BY <1>1, <1>2, GrowsFrame DEF stores
<1>3. ASSUME NEW conf, Upsert(conf), conf \in Settings PROVE Grows
  BY <1>1, <1>3, GrowsByUpsert
<1>4. ASSUME NEW p \in Pods, Import(p) PROVE Grows
  <2>1. file[VolumeOf[p]] \in Config
    BY ShapeParts, RCPlacesAssumption DEF Inv, StoresTyped
  <2> QED BY <1>2, <1>3, <1>4, <2>1, SettingsFacts DEF Import
<1>5. ASSUME NEW p \in Pods, Install(p) PROVE Grows
  <2>1. (row' = row /\ order' = order) \/ \E i \in DOMAIN order : Upsert(order[i])
    BY <1>5 DEF Install
  <2>2. \A i \in DOMAIN order : order[i] \in Settings
    BY <1>1
  <2> QED BY <1>2, <1>3, <2>1, <2>2
<1>6. ASSUME NEW h \in Handlers, WriteRow(h) PROVE Grows
  <2>1. job[h].conf \in Settings
    BY <1>1, <1>6, WriterFacts DEF WriteRow
  <2> QED BY <1>2, <1>3, <1>6, <2>1 DEF WriteRow
<1>7. ASSUME NEW p \in Pods, Process(p) \/ Crash(p) \/ Get(p) PROVE Grows
  <2>1. CASE Start(p) \/ Follow(p)
    BY <1>2, <2>1 DEF Start, Follow, Enter
  <2>2. CASE Restore(p) \/ Keep(p) \/ Connect(p) \/ Load(p)
    BY <1>2, <2>2 DEF Restore, Keep, Connect, Load
  <2>3. CASE Tick(p) \/ Reconnect(p) \/ Crash(p) \/ Get(p)
    BY <1>2, <2>3 DEF Tick, Reconnect, Crash, Get
  <2> QED BY <1>4, <1>5, <1>7, <2>1, <2>2, <2>3 DEF Process, Reloading
<1>8. ASSUME NEW h \in Handlers, Put(h) \/ Setup(h) \/ Patch(h) PROVE Grows
  BY <1>2, <1>8 DEF Put, Setup, Patch, Begin
<1>9. ASSUME NEW h \in Handlers, Saving(h) PROVE Grows
  BY <1>2, <1>6, <1>9 DEF Saving, GetPool, WriteFile, Bump, Mirror, Activate, Enter, Return
<1> QED BY <1>7, <1>8, <1>9 DEF Next

\* A step keeps the invariant if all that is new about revisions has reached the row.
LEMMA NotedFrame ==
    ASSUME NotedInv, Grows,
           revision' = revision \/ Stored(order', [id |-> revision']),
           \A p \in Pods : poll'[p] \in {0, poll[p], revision},
           \A h \in Handlers : job'[h].at = "bump" =>
              (job[h].at = "bump" /\ job'[h].conf = job[h].conf) \/ Stored(order', job'[h].conf),
           \A p \in Pods : reload'[p].by = "poll" =>
              /\ poll'[p] # 0
              /\ HasRow(p)' =>
                   \/ HasRow(p) /\ reload'[p].conf = reload[p].conf /\ reload'[p].by = reload[p].by
                        /\ poll'[p] = poll[p]
                   \/ InOrder(order', [id |-> poll'[p]], reload'[p].conf)
    PROVE  NotedInv'
<1>1. \A c : Stored(order, c) => Stored(order', c)
  BY DEF Grows
<1>2. \A c, d : InOrder(order, c, d) => InOrder(order', c, d)
  BY DEF Grows
<1>3. revision' # 0 => Stored(order', [id |-> revision'])
  BY <1>1 DEF NotedInv
<1>4. \A p \in Pods : poll'[p] # 0 => Stored(order', [id |-> poll'[p]])
  BY <1>1 DEF NotedInv
<1>5. \A h \in Handlers : job'[h].at = "bump" => Stored(order', job'[h].conf)
  BY <1>1 DEF NotedInv
<1>6. ASSUME NEW p \in Pods, reload'[p].by = "poll"
      PROVE  /\ poll'[p] # 0
             /\ HasRow(p)' => InOrder(order', [id |-> poll'[p]], reload'[p].conf)
  BY <1>2, <1>6 DEF NotedInv
<1> QED BY <1>3, <1>4, <1>5, <1>6 DEF NotedInv

\* A step that leaves Reloads and what pollers wait for alone.
LEMMA NotedQuiet ==
    ASSUME NotedInv, Grows, reload' = reload, poll' = poll,
           revision' = revision \/ Stored(order', [id |-> revision']),
           \A h \in Handlers : job'[h].at = "bump" =>
              (job[h].at = "bump" /\ job'[h].conf = job[h].conf) \/ Stored(order', job'[h].conf)
    PROVE  NotedInv'
<1>1. \A p \in Pods : reload'[p].by = "poll" => poll'[p] # 0
  BY DEF NotedInv
<1> QED BY <1>1, NotedFrame DEF HasRow

\* A Reload begins; the poller's for the revision it has seen.
LEMMA NotedEnter ==
    ASSUME Inv, NotedInv, Grows, NEW p \in Pods, NEW by, MayEnter(p, by), Enter(p, by),
           by = "poll" => poll[p] # 0
    PROVE  NotedInv'
<1>1. /\ JobsTyped /\ PollerTyped /\ reload \in [Pods -> Reloads]
      /\ job \in [Handlers -> Jobs] /\ \A h \in Handlers : JobIsSound(h)
  BY ShapeParts DEF Inv, JobsTyped
<1>2. by \in Callers /\ reload[p].by = "start"
  BY <1>1 DEF MayEnter, Callers, JobsTyped, ReloadIsOwned
<1>3. revision' = revision
  BY DEF Enter, stores
<1>4. Closing(p, by, "wait") \/ Closing(p, by, "failed")
  BY DEF Enter
<1>5. \A h \in Handlers : job'[h].at = "bump" => job[h].at = "bump" /\ job'[h].conf = job[h].conf
  BY <1>1, <1>2, <1>4, ClosingFacts
<1>6. CASE UNCHANGED reload /\ Polled(p, by, FALSE)
  <2>1. \A q \in Pods : IF q = p THEN poll'[q] \in {0, poll[q]} ELSE poll'[q] = poll[q]
    BY <1>1, <1>6 DEF Polled, PollerTyped
  <2>2. \A q \in Pods : reload'[q].by = "poll" => poll'[q] # 0 /\ poll'[q] = poll[q]
    BY <1>2, <1>6, <2>1 DEF NotedInv
  <2> QED BY <1>3, <1>5, <1>6, <2>1, <2>2, NotedFrame DEF HasRow
<1>7. CASE ~(UNCHANGED reload /\ Polled(p, by, FALSE))
  <2> DEFINE conf == file[VolumeOf[p]]
             r == [at |-> IF conf = None THEN "restore" ELSE "connect", by |-> by,
                   conf |-> conf, pool |-> FALSE, from |-> "file"]
  <2>1. reload' = [reload EXCEPT ![p] = r]
    BY <1>7, Zenon DEF Enter
  <2>2. poll' = poll
    BY <1>7 DEF Enter, poller
  <2>3. reload'[p] = r /\ \A q \in Pods : q # p => reload'[q] = reload[q]
    BY <1>1, <2>1
  <2>5. r.by = by /\ r.from = "file"
    OBVIOUS
  <2> HIDE DEF r
  <2>4. \A q \in Pods : reload'[q].by = "poll" =>
          poll'[q] # 0 /\ (reload'[q].from = "row" => reload'[q] = reload[q])
    BY <2>1, <2>2, <2>3, <2>5 DEF NotedInv
  <2> QED BY <1>3, <1>5, <2>2, <2>4, NotedFrame DEF HasRow
<1> QED BY <1>6, <1>7

\* A Reload loads the row after the revision was read, so that the save is there.
LEMMA NotedReloading ==
    ASSUME Inv, NotedInv, Grows, NEW p \in Pods, 
           Restore(p) \/ Keep(p) \/ Connect(p) \/ Import(p) \/ Load(p)
    PROVE  NotedInv'
<1>1. reload \in [Pods -> Reloads] /\ order \in Seq(Settings) /\ RowIsLast
  BY ShapeParts DEF Inv, JobsTyped, StoresTyped, OrderInv
<1>2. revision' = revision /\ poll' = poll /\ job' = job
  BY DEF Restore, Keep, Connect, Import, Load, stores, poller
<1> DEFINE New(conf) == row # None /\ conf = row /\ order' = order
           Loads(r) == /\ reload' = [reload EXCEPT ![p] = r] /\ r.by = reload[p].by
                       /\ r.from = "row" => New(r.conf) \/ (HasRow(p) /\ r.conf = reload[p].conf)
<1>a. ASSUME NEW at, NEW conf, NEW pool, NEW from, Goto(p, at, conf, pool, from),
             from = "row" => New(conf) \/ (HasRow(p) /\ conf = reload[p].conf)
      PROVE  \E r : Loads(r)
  <2> DEFINE r == [at |-> at, by |-> reload[p].by, conf |-> conf, pool |-> pool,
                   from |-> from]
  <2>1. Loads(r)
    BY <1>a DEF Goto
  <2> QED BY <2>1
<1>3. PICK r : Loads(r)
  <2> HIDE DEF Loads
  <2>1. CASE Load(p)
    <3>1. order' = order
      BY <2>1 DEF Load, stores
    <3>2. \/ Goto(p, "keep", row, TRUE, "row") /\ row # None
          \/ Goto(p, "install", reload[p].conf, TRUE, "file")
      BY <2>1 DEF Load
    <3> QED BY <3>1, <3>2, <1>a
  <2>2. CASE Restore(p) \/ Connect(p) \/ Import(p)
    <3>1. PICK at, conf, pool : Goto(p, at, conf, pool, "file")
      BY <2>2 DEF Restore, Connect, Import
    <3> QED BY <3>1, <1>a
  <2>3. CASE Keep(p)
    <3>1. PICK at : Goto(p, at, reload[p].conf, reload[p].pool, reload[p].from)
      BY <2>3 DEF Keep
    <3>2. reload[p].from = "row" => HasRow(p)
      BY <2>3 DEF Keep, HasRow
    <3> QED BY <3>1, <3>2, <1>a
  <2> QED BY <2>1, <2>2, <2>3
<1>4. reload'[p] = r /\ \A q \in Pods : q # p => reload'[q] = reload[q]
  BY <1>1, <1>3
<1>5. ASSUME r.by = "poll", r.from = "row", New(r.conf)
      PROVE  InOrder(order', [id |-> poll[p]], r.conf)
  <2>1. Stored(order, [id |-> poll[p]])
    BY <1>3, <1>5 DEF NotedInv
  <2> QED BY <1>1, <1>3, <1>5, <2>1, StoredPrecedesRow
<1>6. \A q \in Pods : reload'[q].by = "poll" =>
        /\ poll'[q] # 0
        /\ HasRow(q)' =>
             \/ HasRow(q) /\ reload'[q].conf = reload[q].conf /\ reload'[q].by = reload[q].by
             \/ InOrder(order', [id |-> poll'[q]], reload'[q].conf)
  BY <1>2, <1>3, <1>4, <1>5 DEF NotedInv, HasRow
<1> QED BY <1>2, <1>6, NotedFrame DEF HasRow

\* What was loaded is installed, and the poller has its answer.
LEMMA NotedInstall ==
    ASSUME Inv, NotedInv, Grows, NEW p \in Pods, Install(p)
    PROVE  NotedInv'
<1>1. /\ reload \in [Pods -> Reloads] /\ PollerTyped
      /\ job \in [Handlers -> Jobs]
  BY ShapeParts DEF Inv, JobsTyped
<1>2. /\ revision' = revision
      /\ reload' = [reload EXCEPT ![p] = NoReload]
      /\ Polled(p, reload[p].by, TRUE)
      /\ job' = [h \in Handlers |-> IF h = reload[p].by THEN [job[h] EXCEPT !.at = "ok"] ELSE job[h]]
  BY DEF Install
<1>3. \A h \in Handlers : job'[h].at = "bump" => job'[h] = job[h]
  <2> SUFFICES ASSUME NEW h \in Handlers, h = reload[p].by PROVE job'[h].at = "ok"
    BY <1>2
  <2> QED BY <1>1, <1>2, JobMoves
<1>4. reload'[p].by = "start" /\ \A q \in Pods : q # p => reload'[q] = reload[q]
  BY <1>1, <1>2, NoReloadFacts
<1>5. \A q \in Pods : poll'[q] \in {0, poll[q]} /\ (q # p => poll'[q] = poll[q])
  BY <1>1, <1>2 DEF Polled, PollerTyped
<1>6. \A q \in Pods : reload'[q].by = "poll" =>
        poll'[q] # 0 /\ reload'[q] = reload[q] /\ poll'[q] = poll[q]
  BY <1>4, <1>5 DEF NotedInv
<1> QED BY <1>2, <1>3, <1>5, <1>6, NotedFrame DEF HasRow

\* The poller's own steps, and those that end the process.
LEMMA NotedProcess ==
    ASSUME Inv, NotedInv, Grows, NEW p \in Pods, Process(p) \/ Crash(p) \/ Get(p)
    PROVE  NotedInv'
<1>1. /\ reload \in [Pods -> Reloads] /\ PollerTyped /\ JobsTyped
      /\ job \in [Handlers -> Jobs]
  BY ShapeParts DEF Inv, JobsTyped
<1>2. CASE Start(p)
  BY <1>2, NotedEnter DEF Start, MayEnter
<1>3. CASE Follow(p)
  BY <1>3, NotedEnter DEF Follow, Free, MayEnter
<1>4. CASE Reloading(p)
  BY <1>4, NotedReloading, NotedInstall DEF Reloading
<1>5. CASE Tick(p)
  <2>1. /\ reload' = reload /\ revision' = revision /\ job' = job
        /\ poll' = poll \/ poll' = [poll EXCEPT ![p] = revision]
        /\ reload[p].at = "idle"
    BY <1>5 DEF Tick, Free, stores
  <2>2. \A q \in Pods : poll'[q] \in {poll[q], revision} /\ (q # p => poll'[q] = poll[q])
    BY <1>1, <2>1 DEF PollerTyped
  <2>3. reload[p].by = "start"
    BY <1>1, <2>1 DEF JobsTyped, ReloadIsOwned
  <2>4. \A q \in Pods : reload'[q].by = "poll" =>
          poll'[q] # 0 /\ reload'[q] = reload[q] /\ poll'[q] = poll[q]
    BY <2>1, <2>2, <2>3 DEF NotedInv
  <2> QED BY <2>1, <2>2, <2>4, NotedFrame DEF HasRow
<1>6. CASE Reconnect(p) \/ Get(p)
  <2>1. reload' = reload /\ poll' = poll /\ revision' = revision /\ job' = job
    BY <1>6 DEF Reconnect, Get, stores, poller
  <2> QED BY <2>1, NotedQuiet
<1>7. CASE Crash(p)
  <2>1. /\ reload' = [reload EXCEPT ![p] = Down] /\ poll' = [poll EXCEPT ![p] = 0]
        /\ job' = [h \in Handlers |-> IF PodOf[h] = p THEN NoJob ELSE job[h]]
        /\ revision' = revision
    BY <1>7 DEF Crash
  <2>2. reload'[p].by = "start" /\ \A q \in Pods : q # p => reload'[q] = reload[q]
    BY <1>1, <2>1, NoReloadFacts
  <2>3. \A q \in Pods : poll'[q] \in {0, poll[q]} /\ (q # p => poll'[q] = poll[q])
    BY <1>1, <2>1 DEF PollerTyped
  <2>4. \A h \in Handlers : job'[h].at = "bump" => job'[h] = job[h]
    BY <2>1, NoJobFacts
  <2>5. \A q \in Pods : reload'[q].by = "poll" =>
          poll'[q] # 0 /\ reload'[q] = reload[q] /\ poll'[q] = poll[q]
    BY <2>2, <2>3 DEF NotedInv
  <2> QED BY <2>1, <2>3, <2>4, <2>5, NotedFrame DEF HasRow
<1> QED BY <1>2, <1>3, <1>4, <1>5, <1>6, <1>7 DEF Process

\* A handler writes the revision of a save that has reached the row.
LEMMA NotedSaving ==
    ASSUME Inv, NotedInv, Grows, NEW h \in Handlers, Put(h) \/ Setup(h) \/ Patch(h) \/ Saving(h)
    PROVE  NotedInv'
<1>1. job \in [Handlers -> Jobs] /\ JobsTyped /\ order \in Seq(Settings)
  BY ShapeParts DEF Inv, JobsTyped, StoresTyped
<1>2. ASSUME NEW j, job' = [job EXCEPT ![h] = j], reload' = reload, poll' = poll,
             revision' = revision \/ Stored(order', [id |-> revision']),
             j.at = "bump" => Stored(order', j.conf)
      PROVE  NotedInv'
  <2>1. \A g \in Handlers : job'[g] = IF g = h THEN j ELSE job[g]
    BY <1>1, <1>2
  <2> QED BY <1>2, <2>1, NotedQuiet
<1>3. CASE Put(h) \/ Setup(h) \/ Patch(h)
  <2>1. PICK op, at, key : Begin(h, op, at, key) /\ at \in {"file", "pool"}
    BY <1>3 DEF Put, Setup, Patch
  <2>2. reload' = reload /\ poll' = poll /\ revision' = revision
    BY <2>1 DEF Begin, stores, poller
  <2> DEFINE j == [op |-> op, at |-> at, conf |-> [id |-> saves + 1, key |-> key],
                   pool |-> IF op = "patch" THEN "none" ELSE "own"]
  <2>3. job' = [job EXCEPT ![h] = j] /\ j.at # "bump"
    BY <2>1 DEF Begin
  <2> HIDE DEF j
  <2> QED BY <1>2, <2>2, <2>3
<1>4. ASSUME NEW at, NEW pool, Proceed(h, at, pool), reload' = reload, poll' = poll,
             revision' = revision \/ Stored(order', [id |-> revision']),
             at = "bump" => Stored(order', job[h].conf)
      PROVE  NotedInv'
  <2> DEFINE j == [op |-> job[h].op, at |-> at, conf |-> job[h].conf, pool |-> pool]
  <2>1. job' = [job EXCEPT ![h] = j] /\ j.at = at /\ j.conf = job[h].conf
    BY <1>4 DEF Proceed
  <2> HIDE DEF j
  <2> QED BY <1>2, <1>4, <2>1
<1>5. CASE GetPool(h) \/ WriteFile(h) \/ Mirror(h)
  <2>1. /\ \E at, pool : Proceed(h, at, pool) /\ at # "bump"
        /\ reload' = reload /\ poll' = poll /\ revision' = revision
    <3>1. CASE GetPool(h)
      BY <3>1 DEF GetPool, stores, poller
    <3>2. CASE WriteFile(h)
      BY <3>2 DEF WriteFile, poller
    <3>3. CASE Mirror(h)
      BY <3>3 DEF Mirror, poller
    <3> QED BY <1>5, <3>1, <3>2, <3>3
  <2> QED BY <1>4, <2>1
<1>6. CASE WriteRow(h)
  <2>1. /\ reload' = reload /\ poll' = poll /\ revision' = revision
        /\ \/ Proceed(h, "failed", job[h].pool)
           \/ Upsert(job[h].conf) /\ Proceed(h, "bump", job[h].pool)
    BY <1>6 DEF WriteRow, poller
  <2>2. job[h].conf \in Settings
    BY <1>1, <1>6, WriterFacts DEF WriteRow
  <2>3. Upsert(job[h].conf) => Stored(order', job[h].conf)
    BY <1>1, <2>2, UpsertKeeps
  <2> QED BY <1>4, <2>1, <2>3
<1>7. CASE Bump(h)
  <2>1. /\ reload' = reload /\ poll' = poll /\ order' = order /\ job[h].at = "bump"
        /\ revision' \in {revision, job[h].conf.id}
        /\ \E at \in {"reload", "mirror"} : Proceed(h, at, job[h].pool)
    BY <1>7 DEF Bump, poller
  <2>2. Stored(order', job[h].conf)
    BY <2>1 DEF NotedInv
  <2>3. Stored(order', [id |-> job[h].conf.id])
    BY <2>2 DEF Stored
  <2> QED BY <1>4, <2>1, <2>3
<1>8. CASE Activate(h)
  <2>1. PodOf[h] \in Pods /\ MayEnter(PodOf[h], h) /\ Enter(PodOf[h], h) /\ h # "poll"
    BY <1>8, PlaceFacts, NoReloadFacts DEF Activate, Free, MayEnter
  <2> QED BY <2>1, NotedEnter
<1>9. CASE Return(h)
  <2>1. /\ job' = [job EXCEPT ![h] = NoJob]
        /\ reload' = reload /\ poll' = poll /\ revision' = revision
    BY <1>9 DEF Return, stores, poller
  <2> QED BY <1>2, <2>1, NoJobFacts
<1> QED BY <1>3, <1>5, <1>6, <1>7, <1>8, <1>9 DEF Saving

LEMMA NextNoted == Inv /\ NotedInv /\ [Next]_vars => NotedInv'
<1> SUFFICES ASSUME Inv, NotedInv, [Next]_vars PROVE NotedInv'
  OBVIOUS
<1>1. CASE Next
  BY <1>1, NextGrows, NotedProcess, NotedSaving DEF Next
<1>2. CASE UNCHANGED vars
  BY <1>2 DEF vars, stores, poller, NotedInv, HasRow
<1> QED BY <1>1, <1>2

\* The step the property speaks of.
NotedStep ==
    \A p \in Pods :
        seen[p] # 0 /\ seen'[p] \notin {0, seen[p]} /\ source'[p] = "row" => FollowsNoted(p)'

\* Only a Reload that the poller has called, and that ended well, lets it go on.
LEMMA GoesOn ==
    ASSUME Inv, NEW p \in Pods, Next, seen[p] # 0, seen'[p] \notin {0, seen[p]}
    PROVE  Install(p) /\ reload[p].by = "poll" /\ seen'[p] = poll[p]
<1>1. PollerTyped
  BY ShapeParts DEF Inv
<1>2. ASSUME NEW q \in Pods, NEW by, NEW done \in BOOLEAN, Polled(q, by, done)
      PROVE  q = p /\ by = "poll" /\ done /\ seen'[p] = poll[p]
  BY <1>1, <1>2 DEF Polled, PollerTyped
<1>3. seen' # seen
  OBVIOUS
<1>4. ASSUME NEW q \in Pods, NEW by, Enter(q, by) PROVE FALSE
  BY <1>2, <1>3, <1>4 DEF Enter, poller
<1>5. ASSUME NEW q \in Pods, Process(q) \/ Crash(q) \/ Get(q)
      PROVE  Install(p) /\ reload[p].by = "poll" /\ seen'[p] = poll[p]
  <2>1. CASE Start(q) \/ Follow(q)
    BY <1>4, <2>1 DEF Start, Follow
  <2>2. CASE Restore(q) \/ Keep(q) \/ Connect(q) \/ Import(q) \/ Load(q)
    BY <1>3, <2>2 DEF Restore, Keep, Connect, Import, Load, poller
  <2>3. CASE Install(q)
    <3>1. Polled(q, reload[q].by, TRUE)
      BY <2>3 DEF Install
    <3> QED BY <1>2, <2>3, <3>1
  <2>4. CASE Tick(q)
    <3>1. seen' = seen \/ (seen[q] = 0 /\ seen' = [seen EXCEPT ![q] = revision])
      BY <2>4 DEF Tick
    <3> QED BY <1>1, <1>3, <3>1 DEF PollerTyped
  <2>5. CASE Crash(q)
    <3>1. seen' = [seen EXCEPT ![q] = 0]
      BY <2>5 DEF Crash
    <3> QED BY <1>1, <3>1 DEF PollerTyped
  <2>6. CASE Reconnect(q) \/ Get(q)
    BY <1>3, <2>6 DEF Reconnect, Get, poller
  <2> QED BY <1>5, <2>1, <2>2, <2>3, <2>4, <2>5, <2>6 DEF Process, Reloading
<1>6. ASSUME NEW h \in Handlers, Put(h) \/ Setup(h) \/ Patch(h) \/ Saving(h) PROVE FALSE
  <2>1. CASE Activate(h)
    BY <1>4, <2>1, PlaceFacts DEF Activate
  <2>2. CASE ~Activate(h)
    BY <1>3, <1>6, <2>2 DEF Put, Setup, Patch, Begin, Saving, GetPool, WriteFile, WriteRow, Bump,
       Mirror, Return, poller
  <2> QED BY <2>1, <2>2
<1> QED BY <1>5, <1>6 DEF Next

LEMMA NextFollows == Inv /\ NotedInv /\ [Next]_vars => [NotedStep]_vars
<1> SUFFICES ASSUME Inv, NotedInv, Next,
                    NEW p \in Pods, seen[p] # 0, seen'[p] \notin {0, seen[p]}, source'[p] = "row"
             PROVE  FollowsNoted(p)'
  BY DEF NotedStep
<1>1. Install(p) /\ reload[p].by = "poll" /\ seen'[p] = poll[p]
  BY GoesOn
<1>2. running'[p] = reload[p].conf /\ source'[p] = reload[p].from /\ reload[p].at = "install"
  BY <1>1, ShapeParts DEF Install, Inv, ProcessTyped
<1>3. InOrder(order, [id |-> poll[p]], reload[p].conf)
  BY <1>1, <1>2 DEF NotedInv, HasRow
<1>4. InOrder(order', [id |-> poll[p]], reload[p].conf)
  BY <1>3, NextGrows DEF Grows
<1>5. InOrder(order', [id |-> seen'[p]], running'[p])
  BY <1>1, <1>2, <1>4
<1> QED BY <1>5 DEF InOrder, FollowsNoted, Precedes

\* A poller that goes on from one revision to the next leaves the pod with the save of that
\* revision or a later one, if the pod could read the row (runtime_cluster_sync.go).
THEOREM NotedSavesAreInForce == Spec => NotedIsInForce
<1>1. Init => NotedInv
  BY NoJobFacts, NoReloadFacts DEF Init, NotedInv
<1>2. NotedIsInForce <=> [][NotedStep]_vars
  BY DEF NotedIsInForce, NotedStep
<1> QED BY <1>1, <1>2, InitInv, NextInv, NextNoted, NextFollows, PTL DEF Spec
=============================================================================
