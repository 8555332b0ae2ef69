----------------------------- MODULE RuntimeConfig -----------------------------
(***************************************************************************)
(* The runtime configuration of the replicas: the file of a data volume,   *)
(* the row in MySQL with its revision, the backup in Redis, and what each  *)
(* pod runs (internal/server_app.go, mysql_platform.go,                    *)
(* runtime_cluster_sync.go, settings_runtime_handlers.go,                  *)
(* setup_handlers.go, redis_reconnect.go).                                 *)
(*                                                                         *)
(* Settings are told apart by the save they come from and by the save that *)
(* last changed the panel's key; Masked stands for a key replaced by       *)
(* "***".  The addresses of MySQL and Redis come from the environment and  *)
(* both stores are in use.                                                 *)
(***************************************************************************)
EXTENDS Naturals, Sequences

CONSTANTS
    Pods, Volumes,
    VolumeOf,       \* the data directory of each pod
    Ephemeral,      \* volumes that are lost with their pod
    Handlers,       \* handlers of requests
    PodOf,          \* where they run
    None,           \* no settings: the set-up has not been done
    MaxSaves,       \* bound: saves
    MaxFaults       \* bound: failed accesses and crashes

ASSUME RCPlacesAssumption ==
    /\ VolumeOf \in [Pods -> Volumes]
    /\ PodOf \in [Handlers -> Pods]
    /\ Ephemeral \subseteq Volumes
    /\ Handlers \intersect {"poll", "start"} = {}

ASSUME RCBoundsAssumption == MaxSaves \in Nat /\ MaxFaults \in Nat

Masked == 0

Saves == 1..MaxSaves

Settings == [id: Saves, key: Saves \union {Masked}]

ASSUME RCNoneAssumption == None \notin Settings

Config == Settings \union {None}

VARIABLES
    row,        \* the settings in MySQL
    revision,   \* the revision in MySQL, 0 if there is none
    backup,     \* the settings in Redis
    file,       \* of each volume
    running,    \* what each pod runs (runtime and cfg)
    source,     \* history: where that came from
    masked,     \* whether the keys in the pod's runtime are masked
    mysql,      \* whether the pod has a pool
    redis,      \* whether the pod has a client
    seen,       \* lastRev of the pod's poller
    poll,       \* the revision the poller reloads for
    reload,     \* the Reload that holds the pod's mutex
    job,        \* what each handler does
    saves,      \* saves begun
    order,      \* history: the settings in the order they reached the row
    faults      \* faults so far

stores == <<row, revision, backup, file, order>>
process == <<running, source, masked, mysql, redis>>
poller == <<seen, poll>>
vars == <<stores, process, poller, reload, job, saves, faults>>

Callers == Handlers \union {"poll", "start"}

Reloads ==
    [at: {"down", "idle", "restore", "keep", "connect", "import", "load", "install"},
     by: Callers, conf: Config, pool: BOOLEAN, from: {"file", "row"}]

NoReload == [at |-> "idle", by |-> "start", conf |-> None, pool |-> FALSE, from |-> "file"]

Down == [NoReload EXCEPT !.at = "down"]

Jobs ==
    [op: {"idle", "put", "patch", "setup"},
     at: {"idle", "pool", "file", "row", "bump", "mirror", "reload", "wait", "ok", "failed"},
     conf: Config,
     pool: {"own", "shared", "closed", "none"}]   \* where the row is written

NoJob == [op |-> "idle", at |-> "idle", conf |-> None, pool |-> "own"]

Init ==
    /\ row = None
    /\ revision = 0
    /\ backup = None
    /\ file = [v \in Volumes |-> None]
    /\ running = [p \in Pods |-> None]
    /\ source = [p \in Pods |-> "file"]
    /\ masked = [p \in Pods |-> FALSE]
    /\ mysql = [p \in Pods |-> FALSE]
    /\ redis = [p \in Pods |-> FALSE]
    /\ seen = [p \in Pods |-> 0]
    /\ poll = [p \in Pods |-> 0]
    /\ reload = [p \in Pods |-> Down]
    /\ job = [h \in Handlers |-> NoJob]
    /\ saves = 0
    /\ order = <<>>
    /\ faults = 0

Works == UNCHANGED faults

Fails == faults < MaxFaults /\ faults' = faults + 1

\* Methods of the pod's ServerApp wait for a Reload that runs.
Free(p) == reload[p].at = "idle"

\* The pod answers requests once its first Reload is done.
Serving(p) == Free(p) \/ reload[p].by # "start"

-----------------------------------------------------------------------------
(* Reload *)

Goto(p, at, conf, pool, from) ==
    reload' = [reload EXCEPT ![p] = [at |-> at, by |-> reload[p].by, conf |-> conf,
                                     pool |-> pool, from |-> from]]

\* Who has the pod's pool loses it when it is closed.
Closing(p, by, at) ==
    job' = [h \in Handlers |->
              IF h = by THEN [job[h] EXCEPT !.at = at]
              ELSE IF PodOf[h] = p /\ job[h].pool = "shared" THEN [job[h] EXCEPT !.pool = "closed"]
              ELSE job[h]]

\* The poller has its answer; only a Reload that ended well is noted.
Polled(p, by, done) ==
    /\ seen' = IF by = "poll" /\ done THEN [seen EXCEPT ![p] = poll[p]] ELSE seen
    /\ poll' = IF by = "poll" THEN [poll EXCEPT ![p] = 0] ELSE poll

\* The pool is closed first; then the file is read.
Enter(p, by) ==
    LET conf == file[VolumeOf[p]]
    IN  /\ mysql' = [mysql EXCEPT ![p] = FALSE]
        /\ \/ /\ Works
              /\ reload' = [reload EXCEPT ![p] =
                              [at |-> IF conf = None THEN "restore" ELSE "connect",
                               by |-> by, conf |-> conf, pool |-> FALSE, from |-> "file"]]
              /\ Closing(p, by, "wait")
              /\ UNCHANGED poller
           \/ /\ Fails
              /\ UNCHANGED reload
              /\ Closing(p, by, "failed")
              /\ Polled(p, by, FALSE)
        /\ UNCHANGED <<stores, running, source, masked, redis, saves>>

\* A pod that has no settings takes those of the backup.
Restore(p) ==
    /\ reload[p].at = "restore"
    /\ \/ backup # None /\ Works /\ Goto(p, "keep", backup, FALSE, "file")
       \/ backup = None /\ Works /\ Goto(p, "connect", None, FALSE, "file")
       \/ backup # None /\ Fails /\ Goto(p, "connect", None, FALSE, "file")
    /\ UNCHANGED <<stores, process, poller, job, saves>>

\* Settings that came from the backup or from the row take the place of the file; the
\* Reload goes on if they cannot be written.
Keep(p) ==
    LET r == reload[p]
    IN  /\ r.at = "keep"
        /\ \/ Works /\ file' = [file EXCEPT ![VolumeOf[p]] = r.conf]
           \/ Fails /\ UNCHANGED file
        /\ Goto(p, IF r.from = "row" THEN "install" ELSE "connect", r.conf, r.pool, r.from)
        /\ UNCHANGED <<row, revision, backup, order, process, poller, job, saves>>

\* A new pool, and a look whether there is a row.
Connect(p) ==
    /\ reload[p].at = "connect"
    /\ \/ Works /\ Goto(p, IF row = None THEN "import" ELSE "load", reload[p].conf, TRUE, "file")
       \/ Fails /\ Goto(p, "load", reload[p].conf, TRUE, "file")
       \/ Fails /\ Goto(p, "install", reload[p].conf, FALSE, "file")
    /\ UNCHANGED <<stores, process, poller, job, saves>>

\* Settings reach the row.
Upsert(conf) == row' = conf /\ order' = Append(order, conf)

\* There was no row: it is made from the file.
Import(p) ==
    LET conf == file[VolumeOf[p]]
    IN  /\ reload[p].at = "import"
        /\ \/ conf = None /\ Works /\ UNCHANGED <<row, order>>
           \/ conf # None /\ Works /\ Upsert(conf)
           \/ conf # None /\ Fails /\ UNCHANGED <<row, order>>
        /\ Goto(p, "load", reload[p].conf, TRUE, "file")
        /\ UNCHANGED <<revision, backup, file, process, poller, job, saves>>

\* Faulty variant: the row is only used when there is no file.
LoadForEmpty(p) ==
    /\ reload[p].at = "load"
    /\ Works
    /\ IF row = None \/ reload[p].conf # None
       THEN Goto(p, "install", reload[p].conf, TRUE, "file")
       ELSE Goto(p, "keep", row, TRUE, "row")
    /\ UNCHANGED <<stores, process, poller, job, saves>>

\* The row, if there is one, takes the place of what was in the file.
Load(p) ==
    /\ reload[p].at = "load"
    /\ \/ row # None /\ Works /\ Goto(p, "keep", row, TRUE, "row")
       \/ row = None /\ Works /\ Goto(p, "install", reload[p].conf, TRUE, "file")
       \/ row # None /\ Fails /\ Goto(p, "install", reload[p].conf, TRUE, "file")
    /\ UNCHANGED <<stores, process, poller, job, saves>>

\* A new client of Redis, the backups, and the settings that the pod runs.  The
\* row is one of platform_kv: when these cannot be listed they are taken from
\* their backup, which has what the row was at some time.
Install(p) ==
    LET r == reload[p]
    IN  /\ r.at = "install"
        /\ \/ /\ redis' = [redis EXCEPT ![p] = TRUE]
              /\ backup' = IF r.conf = None THEN backup ELSE r.conf
              /\ \/ Works /\ UNCHANGED <<row, order>>
                 \/ r.pool /\ Fails /\ \E i \in DOMAIN order : Upsert(order[i])
           \/ Fails /\ \E client \in BOOLEAN :
                redis' = [redis EXCEPT ![p] = client] /\ UNCHANGED <<backup, row, order>>
        /\ running' = [running EXCEPT ![p] = r.conf]
        /\ source' = [source EXCEPT ![p] = r.from]
        /\ masked' = [masked EXCEPT ![p] = FALSE]
        /\ mysql' = [mysql EXCEPT ![p] = r.pool]
        /\ reload' = [reload EXCEPT ![p] = NoReload]
        /\ job' = [h \in Handlers |-> IF h = r.by THEN [job[h] EXCEPT !.at = "ok"] ELSE job[h]]
        /\ Polled(p, r.by, TRUE)
        /\ UNCHANGED <<revision, file, saves>>

Reloading(p) == Restore(p) \/ Keep(p) \/ Connect(p) \/ Import(p) \/ Load(p) \/ Install(p)

-----------------------------------------------------------------------------
(* The process: start, the polling of the revision, Redis, the settings page *)

Start(p) == reload[p].at = "down" /\ Enter(p, "start")

Crash(p) ==
    /\ reload[p].at # "down"
    /\ Fails
    /\ \/ UNCHANGED file
       \/ VolumeOf[p] \in Ephemeral /\ file' = [file EXCEPT ![VolumeOf[p]] = None]
    /\ running' = [running EXCEPT ![p] = None]
    /\ source' = [source EXCEPT ![p] = "file"]
    /\ masked' = [masked EXCEPT ![p] = FALSE]
    /\ mysql' = [mysql EXCEPT ![p] = FALSE]
    /\ redis' = [redis EXCEPT ![p] = FALSE]
    /\ seen' = [seen EXCEPT ![p] = 0]
    /\ poll' = [poll EXCEPT ![p] = 0]
    /\ reload' = [reload EXCEPT ![p] = Down]
    /\ job' = [h \in Handlers |-> IF PodOf[h] = p THEN NoJob ELSE job[h]]
    /\ UNCHANGED <<row, revision, backup, order, saves>>

\* Faulty variant: the poller does not compare.
TickAlways(p) ==
    /\ Free(p) /\ mysql[p]
    /\ poll[p] = 0
    /\ revision # 0
    /\ IF seen[p] = 0
       THEN seen' = [seen EXCEPT ![p] = revision] /\ UNCHANGED poll
       ELSE poll' = [poll EXCEPT ![p] = revision] /\ UNCHANGED seen
    /\ UNCHANGED <<stores, process, reload, job, saves, faults>>

\* Faulty variant: the revision is noted before it has been loaded.
TickNoting(p) ==
    /\ Free(p) /\ mysql[p]
    /\ poll[p] = 0
    /\ revision \notin {0, seen[p]}
    /\ seen' = [seen EXCEPT ![p] = revision]
    /\ UNCHANGED poll
    /\ UNCHANGED <<stores, process, reload, job, saves, faults>>

\* The poller compares revisions.  The first one it sees is only noted.
Tick(p) ==
    /\ Free(p) /\ mysql[p]
    /\ poll[p] = 0
    /\ revision \notin {0, seen[p]}
    /\ IF seen[p] = 0
       THEN seen' = [seen EXCEPT ![p] = revision] /\ UNCHANGED poll
       ELSE poll' = [poll EXCEPT ![p] = revision] /\ UNCHANGED seen
    /\ UNCHANGED <<stores, process, reload, job, saves, faults>>

Follow(p) == poll[p] # 0 /\ Free(p) /\ Enter(p, "poll")

\* handleGetRuntimeSettings masks the keys of the list it shares with the pod.
Get(p) ==
    /\ Free(p)
    /\ running[p] # None
    /\ masked' = [masked EXCEPT ![p] = TRUE]
    /\ UNCHANGED <<stores, running, source, mysql, redis, poller, reload, job, saves, faults>>

\* What the pod holds in its memory.
Held(p) == IF masked[p] THEN [running[p] EXCEPT !.key = Masked] ELSE running[p]

\* TryRedisReconnect: a client, and the backup from what the pod holds.
Reconnect(p) ==
    /\ Free(p)
    /\ ~redis[p]
    /\ redis' = [redis EXCEPT ![p] = TRUE]
    /\ \/ Works /\ backup' = IF running[p] = None THEN backup ELSE Held(p)
       \/ Fails /\ UNCHANGED backup
    /\ UNCHANGED <<row, revision, file, order, running, source, masked, mysql, poller,
                   reload, job, saves>>

-----------------------------------------------------------------------------
(* Saving: PUT of the settings, the set-up, PatchRuntimePrometheusK8sURL *)

Begin(h, op, at, key) ==
    /\ job[h].op = "idle"
    /\ saves < MaxSaves
    /\ saves' = saves + 1
    /\ job' = [job EXCEPT ![h] = [op |-> op, at |-> at, conf |-> [id |-> saves + 1, key |-> key],
                                  pool |-> IF op = "patch" THEN "none" ELSE "own"]]
    /\ UNCHANGED <<stores, process, poller, reload, faults>>

\* The settings on the page, with the key of the file unless a new one was given.
Put(h) ==
    LET cur == file[VolumeOf[PodOf[h]]]
    IN  /\ Serving(PodOf[h])
        /\ cur # None
        /\ \/ Begin(h, "put", "file", saves + 1)
           \/ cur.key # Masked /\ Begin(h, "put", "file", cur.key)

Setup(h) ==
    /\ Free(PodOf[h])
    /\ running[PodOf[h]] = None
    /\ Begin(h, "setup", "file", saves + 1)

Patch(h) ==
    LET cur == file[VolumeOf[PodOf[h]]]
    IN  /\ Serving(PodOf[h])
        /\ cur # None
        /\ Begin(h, "patch", "pool", cur.key)

Proceed(h, at, pool) ==
    job' = [job EXCEPT ![h] = [op |-> job[h].op, at |-> at, conf |-> job[h].conf, pool |-> pool]]

\* A patch writes through the pod's pool, if it has one.
GetPool(h) ==
    /\ job[h].at = "pool"
    /\ Free(PodOf[h])
    /\ Proceed(h, "file", IF mysql[PodOf[h]] THEN "shared" ELSE "none")
    /\ UNCHANGED <<stores, process, poller, reload, saves, faults>>

WriteFile(h) ==
    /\ job[h].at = "file"
    /\ \/ /\ Works
          /\ file' = [file EXCEPT ![VolumeOf[PodOf[h]]] = job[h].conf]
          /\ Proceed(h, IF job[h].pool = "none" THEN "reload" ELSE "row", job[h].pool)
       \/ Fails /\ UNCHANGED file /\ Proceed(h, "failed", job[h].pool)
    /\ UNCHANGED <<row, revision, backup, order, process, poller, reload, saves>>

\* Faulty variant: the result is not looked at.
WriteRowUnchecked(h) ==
    /\ job[h].at = "row"
    /\ \/ job[h].pool # "closed" /\ Works /\ Upsert(job[h].conf)
       \/ Fails /\ UNCHANGED <<row, order>>
    /\ Proceed(h, "bump", job[h].pool)
    /\ UNCHANGED <<revision, backup, file, process, poller, reload, saves>>

WriteRow(h) ==
    /\ job[h].at = "row"
    /\ \/ job[h].pool # "closed" /\ Works /\ Upsert(job[h].conf) /\ Proceed(h, "bump", job[h].pool)
       \/ job[h].pool # "closed" /\ Fails /\ Upsert(job[h].conf) /\ Proceed(h, "failed", job[h].pool)
       \/ Fails /\ UNCHANGED <<row, order>> /\ Proceed(h, "failed", job[h].pool)
       \/ /\ job[h].pool = "closed" /\ Works
          /\ UNCHANGED <<row, order>>
          /\ Proceed(h, "failed", job[h].pool)
    /\ UNCHANGED <<revision, backup, file, process, poller, reload, saves>>

\* The result of the revision's update is not looked at.
Bump(h) ==
    /\ job[h].at = "bump"
    /\ \/ job[h].pool # "closed" /\ Works /\ revision' = job[h].conf.id
       \/ job[h].pool = "closed" /\ Works /\ UNCHANGED revision
       \/ Fails /\ UNCHANGED revision
    /\ Proceed(h, IF job[h].op = "patch" THEN "reload" ELSE "mirror", job[h].pool)
    /\ UNCHANGED <<row, backup, file, order, process, poller, reload, saves>>

\* The certificate's files, which may fail the request; then, after a PUT, the backup.
Mirror(h) ==
    /\ job[h].at = "mirror"
    /\ Free(PodOf[h])
    /\ \/ /\ Works
          /\ backup' = IF job[h].op = "put" /\ redis[PodOf[h]] THEN job[h].conf ELSE backup
          /\ Proceed(h, "reload", job[h].pool)
       \/ Fails /\ UNCHANGED backup /\ \E at \in {"reload", "failed"} : Proceed(h, at, job[h].pool)
    /\ UNCHANGED <<row, revision, file, order, process, poller, reload, saves>>

Activate(h) == job[h].at = "reload" /\ Free(PodOf[h]) /\ Enter(PodOf[h], h)

\* The request has been answered.
Return(h) ==
    /\ job[h].at \in {"ok", "failed"}
    /\ job' = [job EXCEPT ![h] = NoJob]
    /\ UNCHANGED <<stores, process, poller, reload, saves, faults>>

Saving(h) ==
    \/ GetPool(h) \/ WriteFile(h) \/ WriteRow(h) \/ Bump(h) \/ Mirror(h)
    \/ Activate(h) \/ Return(h)

-----------------------------------------------------------------------------
Process(p) == Start(p) \/ Reloading(p) \/ Tick(p) \/ Follow(p) \/ Reconnect(p)

Next ==
    \/ \E p \in Pods : Process(p) \/ Crash(p) \/ Get(p)
    \/ \E h \in Handlers : Put(h) \/ Setup(h) \/ Patch(h) \/ Saving(h)

Spec == Init /\ [][Next]_vars

\* Goroutines run and calls time out; users are free.  A pod can take one of its steps at
\* a time: it starts, a Reload goes on, or the poller ticks or follows.
FairSpec ==
    /\ Spec
    /\ \A p \in Pods : WF_vars(Start(p) \/ Reloading(p) \/ Tick(p) \/ Follow(p))
    /\ \A h \in Handlers : WF_vars(Saving(h))

-----------------------------------------------------------------------------
(* Properties *)

\* Every variable stays in its type; a poller reloads for a revision it has not
\* noted; a handler waits exactly for the Reload it has called.
TypeOK ==
    /\ row \in Config /\ backup \in Config
    /\ revision \in 0..MaxSaves
    /\ file \in [Volumes -> Config]
    /\ running \in [Pods -> Config]
    /\ source \in [Pods -> {"file", "row"}]
    /\ masked \in [Pods -> BOOLEAN] /\ mysql \in [Pods -> BOOLEAN] /\ redis \in [Pods -> BOOLEAN]
    /\ seen \in [Pods -> 0..MaxSaves] /\ poll \in [Pods -> 0..MaxSaves]
    /\ reload \in [Pods -> Reloads]
    /\ job \in [Handlers -> Jobs]
    /\ saves \in 0..MaxSaves
    /\ order \in Seq(Settings)
    /\ faults \in 0..MaxFaults
    /\ \A p \in Pods : poll[p] = 0 \/ poll[p] # seen[p]
    /\ \A h \in Handlers : job[h].at = "wait" <=> reload[PodOf[h]].by = h

\* One save reached the row, then or before the other did.
Precedes(c, d) ==
    \E i, j \in DOMAIN order : i <= j /\ order[i].id = c.id /\ order[j].id = d.id

\* A save that was answered as a success is in force at its pod, or one that came
\* later to the row is, whatever the other pods save, load, import and restore
\* meanwhile; unless the pod could not read the row.
SavedIsInForce ==
    \A h \in Handlers :
        job[h].at = "ok" /\ job[h].op \in {"put", "setup"} /\ source[PodOf[h]] = "row"
            => Precedes(job[h].conf, running[PodOf[h]])

\* A poller that has noted another revision than MySQL has follows: unless it loses MySQL
\* or the pod stops, the pod comes to run the save of the revision that MySQL has, or one
\* that came later to the row.  A save whose revision was not written, because a Reload
\* closed the pool it shared, is followed by nobody, although it is what the row has.
PollersFollow ==
    \A p \in Pods :
        seen[p] # 0 /\ seen[p] # revision
            ~> \/ running[p] # None /\ Precedes([id |-> revision], running[p])
               \/ ~mysql[p] /\ reload[p].at \in {"idle", "down"}

\* The pod runs the save of the revision that its poller has noted, or a later one.
FollowsNoted(p) == Precedes([id |-> seen[p]], running[p])

\* A poller that goes on from one revision to the next has not skipped the save: what the
\* pod runs then is that save or one that came later to the row, whatever was saved, loaded
\* and restored while the pod reloaded; unless the pod could not read the row.
NotedIsInForce ==
    [][\A p \in Pods :
         seen[p] # 0 /\ seen'[p] \notin {0, seen[p]} /\ source'[p] = "row" =>
             FollowsNoted(p)']_vars
=============================================================================
