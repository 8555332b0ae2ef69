------------------------------ MODULE PlatformKV ------------------------------
(***************************************************************************)
(* The platform key-value store (internal/platform_kv_*.go,                *)
(* mysql_platform.go, and the wiring of server_app.go, redis_reconnect.go  *)
(* and runtime_redis.go), seen through one of its keys.                    *)
(*                                                                         *)
(* Every pod holds a PlatformKV object: rows of MySQL, or a JSON file of   *)
(* its own when MySQL could not be opened, and above it, if Redis answered *)
(* when the object was built, a copy in Redis that lives for 300 s.  Redis *)
(* also keeps a mirror of all keys, as a backup.  A call of Get or Set     *)
(* takes several steps, which interleave with calls of any other pod.      *)
(*                                                                         *)
(* A pod that dies inside a call is a failure of its next step; a call on  *)
(* a file that is opened anew meanwhile ends on the new object.  The table *)
(* of MySQL holds other keys, so that it is never empty (setup writes one).*)
(* RuntimeDualWriteRedis is on, its default.  MaxFaults bounds failures.   *)
(***************************************************************************)
EXTENDS Naturals

CONSTANTS
    Pods,      \* replicas of the server
    Clients,   \* goroutines that call Get and Set
    PodOf,     \* the pod of every client
    Values,    \* the strings that may be stored
    Empty,     \* the empty string
    Large,     \* those longer than platformKVRedisMaxCacheBytes
    Nothing,   \* no row, no copy, no answer
    MaxFaults  \* bound: failed calls to MySQL, the file or Redis

ASSUME KVPodsAssumption == PodOf \in [Clients -> Pods]
ASSUME KVValuesAssumption ==
    /\ Large \subseteq Values \ {Empty}
    /\ Nothing \notin Values
ASSUME KVBoundsAssumption == MaxFaults \in Nat

VARIABLES
    db,      \* the row in kubebt_platform_kv
    file,    \* the entry of each pod's file object, and the one on its disk
    hot,     \* the copy under pkv:v1:<key> in Redis
    mirror,  \* the entry of the backup in Redis
    wiring,  \* the PlatformKV object of each pod, and whether it has Redis
    call,    \* the call each client is in
    faults,
    stored,  \* history: what was ever in a store
    serial   \* history: no failure, and no two calls or reloads at once

data == <<db, file, hot, mirror>>
vars == <<data, wiring, call, faults, stored, serial>>

Maybe == Values \union {Nothing}

File == [mem: Maybe, disk: Maybe]

Wiring == [store: {"mysql", "file"}, redis: BOOLEAN, hot: BOOLEAN]

\* `store` and `hot` are those of the object the call was made on; its connections
\* to MySQL and to Redis may have been cut since.
Call == [op: {"get", "set"},
         step: {"idle", "look", "read", "fill", "write", "cache", "done", "failed"},
         val: Maybe,
         store: {"mysql", "file"},
         hot: BOOLEAN,
         cut: BOOLEAN]

NoCall == [op |-> "get", step |-> "idle", val |-> Nothing,
           store |-> "mysql", hot |-> TRUE, cut |-> FALSE]

\* What a server finds when it starts: MySQL, or without it its own empty file.
Connected == [store |-> "mysql", redis |-> TRUE, hot |-> TRUE]
OnFile == [store |-> "file", redis |-> TRUE, hot |-> TRUE]

Active(c) == call[c].step \notin {"idle", "done", "failed"}

Quiet == \A c \in Clients : ~Active(c)

-----------------------------------------------------------------------------
Init ==
    /\ db = Nothing
    /\ file = [p \in Pods |-> [mem |-> Nothing, disk |-> Nothing]]
    /\ hot = Nothing
    /\ mirror = Nothing
    /\ wiring \in [Pods -> {Connected, OnFile}]
    /\ call = [c \in Clients |-> NoCall]
    /\ faults = 0
    /\ stored = {}
    /\ serial = (\A p \in Pods : wiring[p] = Connected)

Fault == faults < MaxFaults /\ faults' = faults + 1 /\ serial' = FALSE
NoFault == UNCHANGED <<faults, serial>>

Contents(p, s) == IF s = "mysql" THEN db ELSE file[p].mem

-----------------------------------------------------------------------------
(* platformKVRedisHot.Get and Set, or those of the store where it is bare *)

Begin(c, op, step, v) ==
    LET w == wiring[PodOf[c]]
    IN  /\ call[c].step = "idle"
        /\ call' = [call EXCEPT ![c] = [op |-> op, step |-> step, val |-> v,
                                        store |-> w.store, hot |-> w.hot, cut |-> FALSE]]
        /\ serial' = (serial /\ Quiet)
        /\ UNCHANGED <<data, wiring, faults, stored>>

BeginGet(c) ==
    Begin(c, "get", IF wiring[PodOf[c]].hot THEN "look" ELSE "read", Nothing)

BeginSet(c, v) == Begin(c, "set", "write", v)

\* The call goes on with v.
Answer(c, step, v) ==
    call' = [call EXCEPT ![c] = [op |-> call[c].op, step |-> step, val |-> v,
                                 store |-> call[c].store, hot |-> call[c].hot,
                                 cut |-> call[c].cut]]

Goto(c, step) == Answer(c, step, call[c].val)

\* The pool of MySQL behind the call has been closed.
NoRows(c) == call[c].cut /\ call[c].store = "mysql"

\* An empty copy counts as none; so does an error of Redis.
Look(c) ==
    /\ call[c].step = "look"
    /\ \/ /\ ~call[c].cut /\ hot \notin {Nothing, Empty}
          /\ Answer(c, "done", hot)
          /\ NoFault
       \/ (call[c].cut \/ hot \in {Nothing, Empty}) /\ Goto(c, "read") /\ NoFault
       \/ Goto(c, "read") /\ Fault
    /\ UNCHANGED <<data, wiring, stored>>

\* Faulty variant: a miss is copied as well.
ReadAndFill(c) ==
    /\ call[c].step = "read"
    /\ Answer(c, IF call[c].hot THEN "fill" ELSE "done",
              Contents(PodOf[c], call[c].store))
    /\ NoFault
    /\ UNCHANGED <<data, wiring, stored>>

\* The store's own Get, whose errors answer "not found".
Read(c) ==
    /\ call[c].step = "read"
    /\ \/ /\ ~NoRows(c)
          /\ LET v == Contents(PodOf[c], call[c].store)
             IN  Answer(c, IF call[c].hot /\ v # Nothing /\ v \notin Large
                           THEN "fill" ELSE "done", v)
          /\ NoFault
       \/ NoRows(c) /\ Answer(c, "done", Nothing) /\ NoFault
       \/ Answer(c, "done", Nothing) /\ Fault
    /\ UNCHANGED <<data, wiring, stored>>

\* The value read goes to Redis, whatever has happened to the row since.
Fill(c) ==
    /\ call[c].step = "fill"
    /\ \/ hot' = (IF call[c].cut THEN hot ELSE call[c].val) /\ NoFault
       \/ hot' \in {hot, call[c].val} /\ Fault
    /\ Goto(c, "done")
    /\ UNCHANGED <<db, file, mirror, wiring, stored>>

\* The row becomes v; or the entry of the file does, in memory before it is saved.
Store(c, v) ==
    \/ ~NoRows(c) /\ call[c].store = "mysql" /\ db' = v /\ UNCHANGED file
    \/ /\ call[c].store = "file"
       /\ file' = [file EXCEPT ![PodOf[c]] = [mem |-> v, disk |-> v]]
       /\ UNCHANGED db

Unsaved(c, v) ==
    /\ call[c].store = "file"
    /\ file' = [file EXCEPT ![PodOf[c]] = [mem |-> v, disk |-> file[PodOf[c]].disk]]
    /\ UNCHANGED db

\* Faulty variant: a failed write is cached all the same.
WriteAnyway(c) ==
    /\ call[c].step = "write"
    /\ \/ /\ Store(c, call[c].val)
          /\ stored' = stored \union {call[c].val}
          /\ NoFault
       \/ UNCHANGED <<db, file, stored>> /\ Fault
    /\ Goto(c, IF call[c].hot THEN "cache" ELSE "done")
    /\ UNCHANGED <<hot, mirror, wiring>>

\* A failed write of the row may have taken effect, and a failed save of the file has
\* in memory: Gets of the pod answer with it.  The copy in Redis is left as it is.
Write(c) ==
    /\ call[c].step = "write"
    /\ \/ /\ Store(c, call[c].val)
          /\ stored' = stored \union {call[c].val}
          /\ Goto(c, IF call[c].hot THEN "cache" ELSE "done")
          /\ NoFault
       \/ /\ Store(c, call[c].val) \/ Unsaved(c, call[c].val)
          /\ stored' = stored \union {call[c].val}
          /\ Goto(c, "failed")
          /\ Fault
       \/ UNCHANGED <<db, file, stored>> /\ Goto(c, "failed") /\ Fault
       \/ /\ NoRows(c)
          /\ Goto(c, "failed")
          /\ UNCHANGED <<db, file, stored>> /\ NoFault
    /\ UNCHANGED <<hot, mirror, wiring>>

\* Faulty variants: Set leaves the copy to Get, or leaves it when the value is
\* too long for Redis.
CacheNothing(c) ==
    /\ call[c].step = "cache"
    /\ NoFault
    /\ Goto(c, "done")
    /\ UNCHANGED <<data, wiring, stored>>

CacheSmall(c) ==
    /\ call[c].step = "cache"
    /\ hot' = IF call[c].val \in Large THEN hot ELSE call[c].val
    /\ NoFault
    /\ Goto(c, "done")
    /\ UNCHANGED <<db, file, mirror, wiring, stored>>

\* The copy is replaced, or deleted when the value is too long for it.
Cache(c) ==
    /\ call[c].step = "cache"
    /\ LET copy == IF call[c].val \in Large THEN Nothing ELSE call[c].val
       IN  \/ hot' = (IF call[c].cut THEN hot ELSE copy) /\ NoFault
           \/ hot' \in {hot, copy} /\ Fault
    /\ Goto(c, "done")
    /\ UNCHANGED <<db, file, mirror, wiring, stored>>

Step(c) == Look(c) \/ Read(c) \/ Fill(c) \/ Write(c) \/ Cache(c)

\* The caller has its answer.
Return(c) ==
    /\ call[c].step \in {"done", "failed"}
    /\ call' = [call EXCEPT ![c] = NoCall]
    /\ UNCHANGED <<data, wiring, faults, stored, serial>>

\* Faulty variant: copies are kept for good.
ExpireNever == hot # Nothing /\ UNCHANGED vars

\* The 300 seconds are over.
Expire ==
    /\ hot # Nothing
    /\ hot' = Nothing
    /\ UNCHANGED <<db, file, mirror, wiring, call, faults, stored, serial>>

-----------------------------------------------------------------------------
(* ServerApp.Reload and TryRedisReconnect *)

\* A save of another key writes the whole map of the file object.
SaveOther(p) ==
    /\ wiring[p].store = "file"
    /\ file[p].disk # file[p].mem
    /\ file' = [file EXCEPT ![p] = [mem |-> file[p].mem, disk |-> file[p].mem]]
    /\ UNCHANGED <<db, hot, mirror, wiring, call, faults, stored, serial>>

\* A new object; the connections of the old one, to MySQL and to Redis, are closed.
Rewire(p, s, r) ==
    /\ wiring' = [wiring EXCEPT ![p] = [store |-> s, redis |-> r, hot |-> r]]
    /\ call' = [c \in Clients |->
                 IF PodOf[c] = p /\ Active(c)
                 THEN [op |-> call[c].op, step |-> call[c].step, val |-> call[c].val,
                       store |-> call[c].store, hot |-> call[c].hot, cut |-> TRUE]
                 ELSE call[c]]

\* Everything connects; the rows are not empty, and are mirrored.
Reload(p) ==
    /\ Rewire(p, "mysql", TRUE)
    /\ mirror' = db
    /\ serial' = (serial /\ Quiet)
    /\ UNCHANGED <<db, file, hot, faults, stored>>

\* Redis does not answer: the object has no copy in Redis.
ReloadWithoutRedis(p) ==
    /\ Fault
    /\ Rewire(p, "mysql", FALSE)
    /\ UNCHANGED <<data, stored>>

\* The rows cannot be listed, which looks as if there were none: the backup is
\* written over them; or the list to mirror, or the mirroring, fails.
ReloadUnlisted(p) ==
    /\ Fault
    /\ Rewire(p, "mysql", TRUE)
    /\ db' \in {db, IF mirror = Nothing THEN db ELSE mirror}
    /\ mirror' \in {mirror, db', Nothing}
    /\ UNCHANGED <<file, hot, stored>>

\* The file object that is built from the disk; or from the backup when the file has
\* no entry at all, its save succeeding or not.
Opened(p) ==
    {[mem |-> file[p].disk, disk |-> file[p].disk]} \union
        (IF file[p].disk = Nothing
         THEN {[mem |-> mirror, disk |-> d] : d \in {mirror, Nothing}} ELSE {})

\* MySQL does not answer: the pod's own file becomes the store.
ReloadOnFile(p) ==
    /\ Fault
    /\ \/ /\ Rewire(p, "file", FALSE)
          /\ file' = [file EXCEPT ![p] = [mem |-> file[p].disk, disk |-> file[p].disk]]
          /\ UNCHANGED mirror
       \/ /\ Rewire(p, "file", TRUE)
          /\ \E f \in Opened(p) : file' = [file EXCEPT ![p] = f]
          /\ mirror' \in {mirror, file'[p].mem}
    /\ UNCHANGED <<db, hot, stored>>

\* The whole store is listed and sent to Redis; either may fail.
Backup(p) ==
    LET now == Contents(p, wiring[p].store)
    IN  \/ mirror' = now /\ NoFault
        \/ mirror' \in {mirror, now, Nothing} /\ Fault

\* Faulty variant: the copy is filled from the backup.
ReconnectWarm(p) ==
    /\ ~wiring[p].redis
    /\ wiring' = [wiring EXCEPT ![p].redis = TRUE]
    /\ mirror' = Contents(p, wiring[p].store)
    /\ hot' = mirror
    /\ UNCHANGED <<db, file, call, faults, stored, serial>>

\* The pod has Redis again, but its PlatformKV object stays as it was built.
Reconnect(p) ==
    /\ ~wiring[p].redis
    /\ wiring' = [wiring EXCEPT ![p].redis = TRUE]
    /\ Backup(p)
    /\ UNCHANGED <<db, file, hot, call, stored>>

\* Handlers that mirror the whole store after a save of theirs.
Mirror(p) ==
    /\ wiring[p].redis
    /\ Backup(p)
    /\ UNCHANGED <<db, file, hot, wiring, call, stored>>

Environment ==
    \/ Expire
    \/ \E p \in Pods :
         \/ Reload(p) \/ ReloadWithoutRedis(p) \/ ReloadUnlisted(p)
         \/ ReloadOnFile(p) \/ Reconnect(p) \/ Mirror(p) \/ SaveOther(p)

Next ==
    \/ \E c \in Clients :
         \/ BeginGet(c) \/ (\E v \in Values : BeginSet(c, v))
         \/ Step(c) \/ Return(c)
    \/ Environment

Spec == Init /\ [][Next]_vars

\* Every call of MySQL and Redis has a time-out; Redis drops what has expired.
Fairness == WF_vars(Expire) /\ \A c \in Clients : WF_vars(Step(c))

FairSpec == Spec /\ Fairness

-----------------------------------------------------------------------------
(* Properties *)

\* Every variable stays in its type; the copy is only touched by calls of objects
\* that have one, and gets neither misses nor, from a Get, long values.
TypeOK ==
    /\ db \in Maybe /\ hot \in Maybe /\ mirror \in Maybe
    /\ file \in [Pods -> File]
    /\ wiring \in [Pods -> Wiring]
    /\ call \in [Clients -> Call]
    /\ \A c \in Clients :
         /\ call[c].step \in {"look", "fill", "cache"} => call[c].hot
         /\ call[c].step = "fill" => call[c].val \in Values \ Large
         /\ call[c].step \in {"write", "cache"} => call[c].val \in Values
    /\ faults \in 0..MaxFaults
    /\ stored \subseteq Values
    /\ serial \in BOOLEAN

\* No answer is invented: a Get answers with something that was in a store, so
\* a value whose write had no effect is never read, whatever went wrong with the
\* copies, the backup and the files.  (A value whose file could not be saved had
\* one: it is in the memory of the pod.)
ReadsWereStored ==
    \A c \in Clients :
        call[c].op = "get" /\ call[c].step = "done" => call[c].val \in stored \union {Nothing}

\* As long as calls come one at a time and nothing fails, the store and its copy
\* are one register: between calls the copy, if there is one, is the row (a long
\* value leaves no older copy behind), and a Get answers with the row.
SerialCopyIsCurrent == serial /\ Quiet => hot \in {Nothing, db}

SerialGetIsCurrent ==
    [][\A c \in Clients :
         serial' /\ call[c].op = "get" /\ Active(c) /\ call'[c].step = "done"
            => call'[c].val = db]_vars

\* Nobody is writing, and every pod is on MySQL.
Settled ==
    /\ \A c \in Clients : call[c].op = "get"
    /\ \A p \in Pods : wiring[p].store = "mysql"

\* A copy left behind by a race, a failed call or a pod that goes round Redis is
\* not for ever: once writes have ended and every pod is back on MySQL, the copy
\* agrees with the row.
CopyConverges == <>[]Settled => <>[](hot \in {Nothing, db})

\* The copy agrees with the row, and no call is under way that will store another value.
Converged ==
    /\ hot \in {Nothing, db}
    /\ \A c \in Clients :
         /\ call[c].step = "fill" => call[c].val = db
         /\ Active(c) /\ call[c].hot => call[c].store # "file"

\* Once they agree, copy and row agree for as long as nobody writes, whatever expires, fails
\* or is reloaded and reconnected.
ConvergedStays ==
    [][Settled /\ Settled' /\ db' = db /\ Converged => Converged']_vars
=============================================================================
