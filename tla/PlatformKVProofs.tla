--------------------------- MODULE PlatformKVProofs ---------------------------
(* Proofs of the safety properties of PlatformKV, for every number of pods,   *)
(* clients, values and failures.                                              *)
EXTENDS PlatformKV, TLAPS

USE DEF data, Maybe

-----------------------------------------------------------------------------
(* Types *)

\* What a step of a call leaves in call', in one place.
LEMMA AnswerFacts ==
    ASSUME TypeOK, NEW c \in Clients, NEW step, NEW v, Answer(c, step, v)
    PROVE  /\ call'[c].op = call[c].op
           /\ call'[c].step = step
           /\ call'[c].val = v
           /\ call'[c].store = call[c].store
           /\ call'[c].hot = call[c].hot
           /\ call'[c].cut = call[c].cut
           /\ \A d \in Clients \ {c} : call'[d] = call[d]
  BY DEF Answer, TypeOK, Call

LEMMA AnswerRecord ==
    ASSUME TypeOK, NEW c \in Clients, NEW step, NEW v, Answer(c, step, v)
    PROVE  /\ call'[c] = [op |-> call[c].op, step |-> step, val |-> v,
                          store |-> call[c].store, hot |-> call[c].hot,
                          cut |-> call[c].cut]
           /\ \A d \in Clients \ {c} : call'[d] = call[d]
           /\ DOMAIN call' = Clients
           /\ call' = [d \in Clients |-> call'[d]]
  BY DEF Answer, TypeOK, Call

\* A step of a call keeps the type of `call`.
LEMMA AnswerType ==
    ASSUME TypeOK, NEW c \in Clients,
           NEW step \in {"read", "fill", "cache", "done", "failed"}, NEW v \in Maybe,
           Answer(c, step, v),
           step \in {"fill", "cache"} => call[c].hot,
           step = "fill" => v \in Values \ Large,
           step = "cache" => v \in Values
    PROVE  /\ call' \in [Clients -> Call]
           /\ \A d \in Clients :
                /\ call'[d].step \in {"look", "fill", "cache"} => call'[d].hot
                /\ call'[d].step = "fill" => call'[d].val \in Values \ Large
                /\ call'[d].step \in {"write", "cache"} => call'[d].val \in Values
<1>1. call[c] \in Call
  BY DEF TypeOK
<1>2. call'[c] \in Call
  <2>1. call[c].op \in {"get", "set"} /\ call[c].hot \in BOOLEAN
        /\ call[c].store \in {"mysql", "file"} /\ call[c].cut \in BOOLEAN
    BY <1>1 DEF Call
  <2>2. call'[c] = [op |-> call[c].op, step |-> step, val |-> v,
                    store |-> call[c].store, hot |-> call[c].hot,
                    cut |-> call[c].cut]
    BY AnswerRecord
  <2> QED BY <2>1, <2>2 DEF Call
<1>3. call' \in [Clients -> Call]
  BY <1>2, AnswerRecord DEF TypeOK
<1>4. ASSUME NEW d \in Clients
      PROVE  /\ call'[d].step \in {"look", "fill", "cache"} => call'[d].hot
             /\ call'[d].step = "fill" => call'[d].val \in Values \ Large
             /\ call'[d].step \in {"write", "cache"} => call'[d].val \in Values
  <2>1. CASE d = c
    BY <2>1, AnswerFacts
  <2>2. CASE d # c
    BY <2>2, AnswerFacts DEF TypeOK
  <2> QED BY <2>1, <2>2
<1> QED BY <1>3, <1>4

\* Failures are counted within their bound.
LEMMA FaultType ==
    ASSUME TypeOK, Fault \/ NoFault
    PROVE  faults' \in 0..MaxFaults /\ serial' \in BOOLEAN
<1>0. faults \in 0..MaxFaults /\ serial \in BOOLEAN
  BY DEF TypeOK
<1>1. CASE Fault
  <2>1. faults < MaxFaults /\ faults' = faults + 1 /\ serial' = FALSE
    BY <1>1 DEF Fault
  <2>2. faults' \in 0..MaxFaults
    BY <2>1, <1>0, KVBoundsAssumption
  <2> QED BY <2>1, <2>2
<1>2. CASE NoFault
  BY <1>2, <1>0 DEF NoFault
<1> QED BY <1>1, <1>2

\* Rebuilding a pod's object keeps the types, and only cuts connections.
LEMMA RewireFacts ==
    ASSUME TypeOK, NEW p \in Pods, NEW s \in {"mysql", "file"}, NEW r \in BOOLEAN,
           Rewire(p, s, r)
    PROVE  /\ wiring' \in [Pods -> Wiring]
           /\ wiring'[p] = [store |-> s, redis |-> r, hot |-> r]
           /\ \A q \in Pods \ {p} : wiring'[q] = wiring[q]
           /\ call' \in [Clients -> Call]
           /\ \A d \in Clients :
                /\ call'[d].op = call[d].op
                /\ call'[d].step = call[d].step
                /\ call'[d].val = call[d].val
                /\ call'[d].store = call[d].store
                /\ call'[d].hot = call[d].hot
                /\ ~Active(d) => call'[d] = call[d]
<1>1. ASSUME NEW d \in Clients
      PROVE  /\ call'[d] \in Call
             /\ call'[d].op = call[d].op
             /\ call'[d].step = call[d].step
             /\ call'[d].val = call[d].val
             /\ call'[d].store = call[d].store
             /\ call'[d].hot = call[d].hot
             /\ ~Active(d) => call'[d] = call[d]
  <2>1. call[d] \in Call
    BY DEF TypeOK
  <2>2. call'[d] = IF PodOf[d] = p /\ Active(d)
                   THEN [op |-> call[d].op, step |-> call[d].step, val |-> call[d].val,
                         store |-> call[d].store, hot |-> call[d].hot, cut |-> TRUE]
                   ELSE call[d]
    BY DEF Rewire
  <2> QED BY <2>1, <2>2 DEF Call
<1>2. call' \in [Clients -> Call]
  <2>1. DOMAIN call' = Clients /\ call' = [d \in Clients |-> call'[d]]
    BY DEF Rewire
  <2> QED BY <2>1, <1>1
<1>3. /\ wiring' \in [Pods -> Wiring]
      /\ wiring'[p] = [store |-> s, redis |-> r, hot |-> r]
      /\ \A q \in Pods \ {p} : wiring'[q] = wiring[q]
  BY DEF Rewire, TypeOK, Wiring
<1> QED BY <1>1, <1>2, <1>3

\* A call begins.
LEMMA BeginFacts ==
    ASSUME TypeOK, NEW c \in Clients, NEW op \in {"get", "set"},
           NEW step \in {"look", "read", "write"}, NEW v \in Maybe,
           step = "look" => wiring[PodOf[c]].hot,
           step = "write" => v \in Values,
           Begin(c, op, step, v)
    PROVE  /\ call[c].step = "idle"
           /\ call'[c].op = op /\ call'[c].step = step /\ call'[c].val = v
           /\ call'[c].store = wiring[PodOf[c]].store
           /\ call'[c].hot = wiring[PodOf[c]].hot
           /\ ~call'[c].cut
           /\ \A d \in Clients \ {c} : call'[d] = call[d]
           /\ serial' = (serial /\ Quiet)
           /\ UNCHANGED <<db, file, hot, mirror, wiring, faults, stored>>
           /\ TypeOK'
<1>1. PodOf[c] \in Pods /\ wiring[PodOf[c]] \in Wiring
  BY KVPodsAssumption DEF TypeOK
<1>2. /\ wiring[PodOf[c]].store \in {"mysql", "file"}
      /\ wiring[PodOf[c]].hot \in BOOLEAN
  BY <1>1 DEF Wiring
<1>3. /\ call' = [call EXCEPT ![c] = [op |-> op, step |-> step, val |-> v,
                   store |-> wiring[PodOf[c]].store, hot |-> wiring[PodOf[c]].hot,
                   cut |-> FALSE]]
      /\ call[c].step = "idle"
      /\ serial' = (serial /\ Quiet)
      /\ UNCHANGED <<db, file, hot, mirror, wiring, faults, stored>>
  BY DEF Begin
<1>4. /\ call'[c] = [op |-> op, step |-> step, val |-> v,
                     store |-> wiring[PodOf[c]].store, hot |-> wiring[PodOf[c]].hot,
                     cut |-> FALSE]
      /\ \A d \in Clients \ {c} : call'[d] = call[d]
  BY <1>3 DEF TypeOK
<1>5. call'[c] \in Call
  BY <1>2, <1>4 DEF Call
<1>6. call' \in [Clients -> Call]
  BY <1>3, <1>4, <1>5 DEF TypeOK
<1>7. ASSUME NEW d \in Clients
      PROVE  /\ call'[d].step \in {"look", "fill", "cache"} => call'[d].hot
             /\ call'[d].step = "fill" => call'[d].val \in Values \ Large
             /\ call'[d].step \in {"write", "cache"} => call'[d].val \in Values
  BY <1>4 DEF TypeOK
<1>8. TypeOK'
  <2>1. serial' \in BOOLEAN
    BY <1>3 DEF TypeOK, Quiet
  <2> QED BY <1>3, <1>6, <1>7, <2>1 DEF TypeOK
<1> QED BY <1>3, <1>4, <1>8

\* A call's step keeps everything else in its type.
LEMMA StepType ==
    ASSUME TypeOK, NEW c \in Clients, Step(c)
    PROVE  TypeOK'
<1>t. /\ db \in Maybe /\ hot \in Maybe /\ mirror \in Maybe
      /\ file \in [Pods -> File] /\ PodOf[c] \in Pods
      /\ faults \in 0..MaxFaults /\ stored \subseteq Values /\ serial \in BOOLEAN
      /\ wiring \in [Pods -> Wiring]
      /\ call[c] \in Call
  BY KVPodsAssumption DEF TypeOK
<1>f. ASSUME Fault \/ NoFault
      PROVE  faults' \in 0..MaxFaults /\ serial' \in BOOLEAN
  BY <1>f, FaultType
<1>v. call[c].val \in Maybe
  BY <1>t DEF Call
<1>1. CASE Look(c)
  <2>1. Answer(c, "done", hot) \/ Answer(c, "read", call[c].val)
    BY <1>1 DEF Look, Goto
  <2>2. /\ call' \in [Clients -> Call]
        /\ \A d \in Clients :
             /\ call'[d].step \in {"look", "fill", "cache"} => call'[d].hot
             /\ call'[d].step = "fill" => call'[d].val \in Values \ Large
             /\ call'[d].step \in {"write", "cache"} => call'[d].val \in Values
    <3>1. CASE Answer(c, "done", hot)
      BY <3>1, <1>t, AnswerType
    <3>2. CASE Answer(c, "read", call[c].val)
      BY <3>2, <1>v, AnswerType
    <3> QED BY <2>1, <3>1, <3>2
  <2>3. (Fault \/ NoFault) /\ UNCHANGED <<data, wiring, stored>>
    BY <1>1 DEF Look
  <2> QED BY <2>2, <2>3, <1>t, <1>f DEF TypeOK
<1>2. CASE Read(c)
  <2> DEFINE v == Contents(PodOf[c], call[c].store)
  <2>0. v \in Maybe
    BY <1>t DEF Contents, File
  <2>1. \/ Answer(c, "done", v)
        \/ call[c].hot /\ v # Nothing /\ v \notin Large /\ Answer(c, "fill", v)
        \/ Answer(c, "done", Nothing)
    BY <1>2 DEF Read
  <2> HIDE DEF v
  <2>2. /\ call' \in [Clients -> Call]
        /\ \A d \in Clients :
             /\ call'[d].step \in {"look", "fill", "cache"} => call'[d].hot
             /\ call'[d].step = "fill" => call'[d].val \in Values \ Large
             /\ call'[d].step \in {"write", "cache"} => call'[d].val \in Values
    <3>1. CASE Answer(c, "done", v)
      BY <3>1, <2>0, AnswerType
    <3>2. CASE call[c].hot /\ v # Nothing /\ v \notin Large /\ Answer(c, "fill", v)
      BY <3>2, <2>0, AnswerType
    <3>3. CASE Answer(c, "done", Nothing)
      BY <3>3, AnswerType
    <3> QED BY <2>1, <3>1, <3>2, <3>3
  <2>3. (Fault \/ NoFault) /\ UNCHANGED <<data, wiring, stored>>
    BY <1>2 DEF Read
  <2> QED BY <2>2, <2>3, <1>t, <1>f DEF TypeOK
<1>3. CASE Fill(c)
  <2>1. Answer(c, "done", call[c].val)
    BY <1>3 DEF Fill, Goto
  <2>2. /\ call' \in [Clients -> Call]
        /\ \A d \in Clients :
             /\ call'[d].step \in {"look", "fill", "cache"} => call'[d].hot
             /\ call'[d].step = "fill" => call'[d].val \in Values \ Large
             /\ call'[d].step \in {"write", "cache"} => call'[d].val \in Values
    BY <2>1, <1>v, AnswerType
  <2>3. /\ Fault \/ NoFault
        /\ hot' \in Maybe
        /\ UNCHANGED <<db, file, mirror, wiring, stored>>
    BY <1>3, <1>t, <1>v DEF Fill
  <2> QED BY <2>2, <2>3, <1>t, <1>f DEF TypeOK
<1>4. CASE Write(c)
  <2>1. /\ \/ Answer(c, "cache", call[c].val) /\ call[c].hot
           \/ Answer(c, "done", call[c].val)
           \/ Answer(c, "failed", call[c].val)
        /\ call[c].step = "write"
    BY <1>4 DEF Write, Goto
  <2>v. call[c].val \in Values
    BY <2>1 DEF TypeOK
  <2>2. /\ call' \in [Clients -> Call]
        /\ \A d \in Clients :
             /\ call'[d].step \in {"look", "fill", "cache"} => call'[d].hot
             /\ call'[d].step = "fill" => call'[d].val \in Values \ Large
             /\ call'[d].step \in {"write", "cache"} => call'[d].val \in Values
    <3>1. CASE Answer(c, "cache", call[c].val) /\ call[c].hot
      BY <3>1, <2>v, AnswerType
    <3>2. CASE Answer(c, "done", call[c].val)
      BY <3>2, <2>v, AnswerType
    <3>3. CASE Answer(c, "failed", call[c].val)
      BY <3>3, <2>v, AnswerType
    <3> QED BY <2>1, <3>1, <3>2, <3>3
  <2>3. /\ Fault \/ NoFault
        /\ \/ Store(c, call[c].val) \/ Unsaved(c, call[c].val)
           \/ UNCHANGED <<db, file>>
        /\ stored' \in {stored, stored \union {call[c].val}}
        /\ UNCHANGED <<hot, mirror, wiring>>
    BY <1>4 DEF Write
  <2>4. db' \in Maybe /\ file' \in [Pods -> File]
    <3> DEFINE w == call[c].val
    <3>1. file[PodOf[c]].disk \in Maybe
      BY <1>t DEF File
    <3>2. [mem |-> w, disk |-> w] \in File /\ [mem |-> w, disk |-> file[PodOf[c]].disk] \in File
      BY <2>v, <3>1 DEF File
    <3>3. /\ db' \in {db, w}
          /\ file' \in {file, [file EXCEPT ![PodOf[c]] = [mem |-> w, disk |-> w]],
                       [file EXCEPT ![PodOf[c]] = [mem |-> w, disk |-> file[PodOf[c]].disk]]}
      BY <2>3 DEF Store, Unsaved
    <3> QED BY <2>v, <3>2, <3>3, <1>t
  <2> QED BY <2>2, <2>3, <2>4, <2>v, <1>t, <1>f DEF TypeOK
<1>5. CASE Cache(c)
  <2>1. Answer(c, "done", call[c].val)
    BY <1>5 DEF Cache, Goto
  <2>2. /\ call' \in [Clients -> Call]
        /\ \A d \in Clients :
             /\ call'[d].step \in {"look", "fill", "cache"} => call'[d].hot
             /\ call'[d].step = "fill" => call'[d].val \in Values \ Large
             /\ call'[d].step \in {"write", "cache"} => call'[d].val \in Values
    BY <2>1, <1>v, AnswerType
  <2>3. /\ Fault \/ NoFault
        /\ hot' \in Maybe
        /\ UNCHANGED <<db, file, mirror, wiring, stored>>
    BY <1>5, <1>t, <1>v DEF Cache
  <2> QED BY <2>2, <2>3, <1>t, <1>f DEF TypeOK
<1> QED BY <1>1, <1>2, <1>3, <1>4, <1>5 DEF Step

\* So do the return of a call and whatever happens around the calls.
LEMMA ReturnType ==
    ASSUME TypeOK, NEW c \in Clients, Return(c)
    PROVE  TypeOK'
<1>1. NoCall \in Call
  BY DEF NoCall, Call
<1>2. /\ call' = [call EXCEPT ![c] = NoCall]
      /\ UNCHANGED <<db, file, hot, mirror, wiring, faults, stored, serial>>
  BY DEF Return
<1>3. /\ call' \in [Clients -> Call]
      /\ call'[c] = NoCall
      /\ \A d \in Clients \ {c} : call'[d] = call[d]
  BY <1>1, <1>2 DEF TypeOK
<1>4. ASSUME NEW d \in Clients
      PROVE  /\ call'[d].step \in {"look", "fill", "cache"} => call'[d].hot
             /\ call'[d].step = "fill" => call'[d].val \in Values \ Large
             /\ call'[d].step \in {"write", "cache"} => call'[d].val \in Values
  BY <1>3 DEF TypeOK, NoCall
<1> QED BY <1>2, <1>3, <1>4 DEF TypeOK

\* Only the pod's own entry changes when its file is opened anew, and it becomes one
\* that was there or in the backup.
LEMMA OpenedFacts ==
    ASSUME TypeOK, NEW p \in Pods, ReloadOnFile(p)
    PROVE  /\ file' \in [Pods -> File]
           /\ \A q \in Pods \ {p} : file'[q] = file[q]
           /\ file'[p].mem \in {file[p].disk, mirror}
           /\ file'[p].disk \in {file[p].disk, mirror, Nothing}
           /\ mirror' \in {mirror, file'[p].mem}
<1>1. file \in [Pods -> File] /\ mirror \in Maybe /\ file[p].disk \in Maybe
  BY DEF TypeOK, File
<1>2. PICK f \in Opened(p) : file' = [file EXCEPT ![p] = f]
  BY DEF ReloadOnFile, Opened
<1>3. f \in File /\ f.mem \in {file[p].disk, mirror} /\ f.disk \in {file[p].disk, mirror, Nothing}
  BY <1>1, <1>2 DEF Opened, File
<1>4. mirror' \in {mirror, file'[p].mem}
  BY DEF ReloadOnFile
<1> QED BY <1>1, <1>2, <1>3, <1>4

\* The backup becomes the contents of the store, or nothing, or stays.
LEMMA BackupFacts ==
    ASSUME TypeOK, NEW p \in Pods, Backup(p)
    PROVE  /\ mirror' \in {mirror, Nothing, db, file[p].mem}
           /\ mirror' \in Maybe
           /\ Fault \/ NoFault
  BY DEF Backup, Contents, TypeOK, File

LEMMA EnvironmentType ==
    ASSUME TypeOK, Environment
    PROVE  TypeOK'
<1>t. /\ db \in Maybe /\ hot \in Maybe /\ mirror \in Maybe
      /\ file \in [Pods -> File]
      /\ faults \in 0..MaxFaults /\ stored \subseteq Values /\ serial \in BOOLEAN
      /\ wiring \in [Pods -> Wiring]
  BY DEF TypeOK
<1>f. ASSUME Fault \/ NoFault
      PROVE  faults' \in 0..MaxFaults /\ serial' \in BOOLEAN
  BY <1>f, FaultType
<1>c. ASSUME NEW p \in Pods, NEW s \in {"mysql", "file"}, NEW r \in BOOLEAN,
             Rewire(p, s, r),
             db' \in Maybe, hot' \in Maybe, mirror' \in Maybe, file' \in [Pods -> File],
             faults' \in 0..MaxFaults, serial' \in BOOLEAN, UNCHANGED stored
      PROVE  TypeOK'
  <2>1. /\ wiring' \in [Pods -> Wiring]
        /\ call' \in [Clients -> Call]
        /\ \A d \in Clients : /\ call'[d].step = call[d].step
                              /\ call'[d].val = call[d].val
                              /\ call'[d].hot = call[d].hot
    BY <1>c, RewireFacts
  <2>2. \A d \in Clients :
             /\ call'[d].step \in {"look", "fill", "cache"} => call'[d].hot
             /\ call'[d].step = "fill" => call'[d].val \in Values \ Large
             /\ call'[d].step \in {"write", "cache"} => call'[d].val \in Values
    BY <2>1 DEF TypeOK
  <2> QED BY <1>c, <2>1, <2>2, <1>t DEF TypeOK
<1>1. CASE Expire
  BY <1>1 DEF Expire, TypeOK
<1>2. ASSUME NEW p \in Pods, Reload(p)
      PROVE  TypeOK'
  <2>1. /\ Rewire(p, "mysql", TRUE) /\ mirror' = db
        /\ serial' = (serial /\ Quiet)
        /\ UNCHANGED <<db, file, hot, faults, stored>>
    BY <1>2 DEF Reload
  <2>2. serial' \in BOOLEAN
    BY <2>1, <1>t DEF Quiet
  <2> QED BY <2>1, <2>2, <1>t, <1>c
<1>3. ASSUME NEW p \in Pods, ReloadWithoutRedis(p)
      PROVE  TypeOK'
  <2>1. /\ Fault /\ Rewire(p, "mysql", FALSE)
        /\ UNCHANGED <<db, file, hot, mirror, stored>>
    BY <1>3 DEF ReloadWithoutRedis
  <2> QED BY <2>1, <1>t, <1>f, <1>c
<1>4. ASSUME NEW p \in Pods, ReloadUnlisted(p)
      PROVE  TypeOK'
  <2>1. /\ Fault /\ Rewire(p, "mysql", TRUE)
        /\ db' \in Maybe /\ mirror' \in Maybe
        /\ UNCHANGED <<file, hot, stored>>
    BY <1>4, <1>t DEF ReloadUnlisted
  <2> QED BY <2>1, <1>t, <1>f, <1>c
<1>5. ASSUME NEW p \in Pods, ReloadOnFile(p)
      PROVE  TypeOK'
  <2>1. /\ Fault /\ (Rewire(p, "file", FALSE) \/ Rewire(p, "file", TRUE))
        /\ UNCHANGED <<db, hot, stored>>
    BY <1>5 DEF ReloadOnFile
  <2>2. file' \in [Pods -> File] /\ mirror' \in {mirror, file'[p].mem}
    BY <1>5, OpenedFacts
  <2>3. mirror' \in Maybe
    BY <2>2, <1>t DEF File
  <2> QED BY <2>1, <2>2, <2>3, <1>t, <1>f, <1>c
<1>6. ASSUME NEW p \in Pods, Reconnect(p)
      PROVE  TypeOK'
  <2>1. wiring[p] \in Wiring
    BY <1>t
  <2>2. wiring' \in [Pods -> Wiring]
    BY <1>6, <2>1, <1>t DEF Reconnect, Wiring
  <2>3. mirror' \in Maybe /\ (Fault \/ NoFault)
    BY <1>6, BackupFacts DEF Reconnect
  <2> QED BY <1>6, <2>2, <2>3, <1>f DEF Reconnect, TypeOK
<1>7. ASSUME NEW p \in Pods, Mirror(p)
      PROVE  TypeOK'
  <2>1. mirror' \in Maybe /\ (Fault \/ NoFault)
    BY <1>7, BackupFacts DEF Mirror
  <2> QED BY <1>7, <2>1, <1>f DEF Mirror, TypeOK
<1>8. ASSUME NEW p \in Pods, SaveOther(p)
      PROVE  TypeOK'
  <2>1. [mem |-> file[p].mem, disk |-> file[p].mem] \in File
    BY <1>t DEF File
  <2>2. file' \in [Pods -> File]
    BY <1>8, <1>t, <2>1 DEF SaveOther
  <2> QED BY <1>8, <2>2 DEF SaveOther, TypeOK
<1> QED BY <1>1, <1>2, <1>3, <1>4, <1>5, <1>6, <1>7, <1>8 DEF Environment

LEMMA InitType == Init => TypeOK
<1> SUFFICES ASSUME Init PROVE TypeOK
  OBVIOUS
<1>1. NoCall \in Call
  BY DEF NoCall, Call
<1>2. call \in [Clients -> Call] /\ \A c \in Clients : call[c].step = "idle"
  BY <1>1 DEF Init, NoCall
<1>3. Connected \in Wiring /\ OnFile \in Wiring
  BY DEF Connected, OnFile, Wiring
<1>4. wiring \in [Pods -> Wiring] /\ serial \in BOOLEAN
  BY <1>3 DEF Init
<1>5. file \in [Pods -> File]
  BY DEF Init, File
<1> QED BY <1>2, <1>4, <1>5, KVBoundsAssumption DEF Init, TypeOK

LEMMA NextType == TypeOK /\ [Next]_vars => TypeOK'
<1> SUFFICES ASSUME TypeOK, [Next]_vars PROVE TypeOK'
  OBVIOUS
<1>1. ASSUME NEW c \in Clients, BeginGet(c) PROVE TypeOK'
  <2>1. CASE wiring[PodOf[c]].hot
    BY <1>1, <2>1, BeginFacts DEF BeginGet
  <2>2. CASE ~wiring[PodOf[c]].hot
    BY <1>1, <2>2, BeginFacts DEF BeginGet
  <2> QED BY <2>1, <2>2
<1>2. ASSUME NEW c \in Clients, NEW v \in Values, BeginSet(c, v) PROVE TypeOK'
  BY <1>2, BeginFacts DEF BeginSet
<1>3. ASSUME NEW c \in Clients, Step(c) PROVE TypeOK'
  BY <1>3, StepType
<1>4. ASSUME NEW c \in Clients, Return(c) PROVE TypeOK'
  BY <1>4, ReturnType
<1>5. CASE Environment
  BY <1>5, EnvironmentType
<1>6. CASE UNCHANGED vars
  BY <1>6 DEF vars, TypeOK
<1> QED BY <1>1, <1>2, <1>3, <1>4, <1>5, <1>6 DEF Next

\* Every variable of PlatformKV keeps its type.
THEOREM TypeCorrect == Spec => []TypeOK
<1>1. Init => TypeOK
  BY InitType
<1>2. TypeOK /\ [Next]_vars => TypeOK'
  BY NextType
<1> QED BY <1>1, <1>2, PTL DEF Spec

-----------------------------------------------------------------------------
(* Answers were stored *)

Known == stored \union {Nothing}

\* Whatever is kept or on its way back was once in a store.
StoredInv ==
    /\ db \in Known /\ hot \in Known /\ mirror \in Known
    /\ \A p \in Pods : file[p].mem \in Known /\ file[p].disk \in Known
    /\ \A c \in Clients :
         /\ call[c].step \in {"fill", "cache"} => call[c].val \in stored
         /\ call[c].op = "get" /\ call[c].step = "done" => call[c].val \in Known

\* The steps of a call.
LEMMA StepStored ==
    ASSUME TypeOK, StoredInv, NEW c \in Clients, Step(c)
    PROVE  StoredInv'
<1>t. /\ db \in Known /\ hot \in Known /\ mirror \in Known
      /\ \A p \in Pods : file[p].mem \in Known /\ file[p].disk \in Known
      /\ PodOf[c] \in Pods /\ file \in [Pods -> File]
  BY KVPodsAssumption DEF TypeOK, StoredInv
<1>o. ASSUME NEW step, NEW v, Answer(c, step, v),
             step \in {"fill", "cache"} => v \in stored',
             call[c].op = "get" /\ step = "done" => v \in Known',
             stored \subseteq stored'
      PROVE  \A d \in Clients :
               /\ call'[d].step \in {"fill", "cache"} => call'[d].val \in stored'
               /\ call'[d].op = "get" /\ call'[d].step = "done" => call'[d].val \in Known'
  <2>0. /\ call'[c].op = call[c].op /\ call'[c].step = step /\ call'[c].val = v
        /\ \A d \in Clients \ {c} : call'[d] = call[d]
    BY <1>o, AnswerFacts
  <2>k. \A x \in Known : x \in Known'
    BY <1>o DEF Known
  <2>1. ASSUME NEW d \in Clients, d # c
        PROVE  /\ call'[d].step \in {"fill", "cache"} => call'[d].val \in stored'
               /\ call'[d].op = "get" /\ call'[d].step = "done" => call'[d].val \in Known'
    BY <1>o, <2>0, <2>k, <2>1 DEF StoredInv
  <2>2. /\ call'[c].step \in {"fill", "cache"} => call'[c].val \in stored'
        /\ call'[c].op = "get" /\ call'[c].step = "done" => call'[c].val \in Known'
    BY <1>o, <2>0
  <2> QED BY <2>1, <2>2
<1>1. CASE Look(c)
  <2>1. /\ Answer(c, "done", hot) \/ Answer(c, "read", call[c].val)
        /\ UNCHANGED <<db, file, hot, mirror, stored>>
    BY <1>1 DEF Look, Goto
  <2>2. Known' = Known
    BY <2>1 DEF Known
  <2>3. \A d \in Clients :
               /\ call'[d].step \in {"fill", "cache"} => call'[d].val \in stored'
               /\ call'[d].op = "get" /\ call'[d].step = "done" => call'[d].val \in Known'
    <3>1. CASE Answer(c, "done", hot)
      BY <3>1, <2>1, <2>2, <1>t, <1>o
    <3>2. CASE Answer(c, "read", call[c].val)
      BY <3>2, <2>1, <2>2, <1>o
    <3> QED BY <2>1, <3>1, <3>2
  <2> QED BY <2>1, <2>2, <2>3, <1>t DEF StoredInv
<1>2. CASE Read(c)
  <2> DEFINE v == Contents(PodOf[c], call[c].store)
  <2>0. v \in Known
    BY <1>t DEF Contents
  <2>1. /\ \/ Answer(c, "done", v)
           \/ v # Nothing /\ Answer(c, "fill", v)
           \/ Answer(c, "done", Nothing)
        /\ UNCHANGED <<db, file, hot, mirror, stored>>
    BY <1>2 DEF Read
  <2> HIDE DEF v
  <2>2. Known' = Known /\ Nothing \in Known
    BY <2>1 DEF Known
  <2>3. \A d \in Clients :
               /\ call'[d].step \in {"fill", "cache"} => call'[d].val \in stored'
               /\ call'[d].op = "get" /\ call'[d].step = "done" => call'[d].val \in Known'
    <3>1. CASE Answer(c, "done", v)
      BY <3>1, <2>0, <2>1, <2>2, <1>o
    <3>2. CASE v # Nothing /\ Answer(c, "fill", v)
      <4>1. v \in stored
        BY <3>2, <2>0 DEF Known
      <4> QED BY <3>2, <4>1, <2>1, <1>o
    <3>3. CASE Answer(c, "done", Nothing)
      BY <3>3, <2>1, <2>2, <1>o
    <3> QED BY <2>1, <3>1, <3>2, <3>3
  <2> QED BY <2>1, <2>2, <2>3, <1>t DEF StoredInv
<1>3. CASE Fill(c) \/ Cache(c)
  <2>1. /\ Answer(c, "done", call[c].val)
        /\ call[c].step \in {"fill", "cache"}
        /\ hot' \in {hot, call[c].val, Nothing}
        /\ UNCHANGED <<db, file, mirror, stored>>
    BY <1>3 DEF Fill, Cache, Goto
  <2>2. Known' = Known /\ Nothing \in Known
    BY <2>1 DEF Known
  <2>3. call[c].val \in stored /\ call[c].val \in Known
    BY <2>1 DEF StoredInv, Known
  <2>4. \A d \in Clients :
               /\ call'[d].step \in {"fill", "cache"} => call'[d].val \in stored'
               /\ call'[d].op = "get" /\ call'[d].step = "done" => call'[d].val \in Known'
    BY <2>1, <2>2, <2>3, <1>o
  <2> QED BY <2>1, <2>2, <2>3, <2>4, <1>t DEF StoredInv
<1>4. CASE Write(c)
  <2> DEFINE w == call[c].val
  <2>1. /\ \/ /\ Answer(c, "cache", w) \/ Answer(c, "done", w) \/ Answer(c, "failed", w)
              /\ Store(c, w) \/ Unsaved(c, w)
              /\ stored' = stored \union {w}
           \/ Answer(c, "failed", w) /\ UNCHANGED <<db, file, stored>>
        /\ UNCHANGED <<hot, mirror>>
    BY <1>4 DEF Write, Goto
  <2> HIDE DEF w
  <2>2. CASE Answer(c, "failed", w) /\ UNCHANGED <<db, file, stored>>
    <3>1. Known' = Known
      BY <2>2 DEF Known
    <3>2. \A d \in Clients :
               /\ call'[d].step \in {"fill", "cache"} => call'[d].val \in stored'
               /\ call'[d].op = "get" /\ call'[d].step = "done" => call'[d].val \in Known'
      BY <2>2, <1>o
    <3> QED BY <2>1, <2>2, <3>1, <3>2, <1>t DEF StoredInv
  <2>3. CASE /\ Answer(c, "cache", w) \/ Answer(c, "done", w) \/ Answer(c, "failed", w)
             /\ Store(c, w) \/ Unsaved(c, w)
             /\ stored' = stored \union {w}
    <3>1. /\ stored \subseteq stored' /\ w \in stored'
          /\ \A x \in Known : x \in Known'
          /\ w \in Known'
      BY <2>3 DEF Known
    <3>2. db' \in Known' /\ \A p \in Pods : file'[p].mem \in Known' /\ file'[p].disk \in Known'
      <4>1. CASE file' = file
        BY <2>3, <3>1, <1>t, <4>1 DEF Store, Unsaved
      <4>2. CASE \/ file' = [file EXCEPT ![PodOf[c]] = [mem |-> w, disk |-> w]]
                 \/ file' = [file EXCEPT ![PodOf[c]] = [mem |-> w, disk |-> file[PodOf[c]].disk]]
        <5>1. db' \in Known'
          BY <2>3, <3>1, <1>t DEF Store, Unsaved
        <5>2. ASSUME NEW p \in Pods PROVE file'[p].mem \in Known' /\ file'[p].disk \in Known'
          BY <4>2, <3>1, <1>t
        <5> QED BY <5>1, <5>2
      <4> QED BY <2>3, <4>1, <4>2 DEF Store, Unsaved
    <3>3. \A d \in Clients :
               /\ call'[d].step \in {"fill", "cache"} => call'[d].val \in stored'
               /\ call'[d].op = "get" /\ call'[d].step = "done" => call'[d].val \in Known'
      <4>1. CASE Answer(c, "cache", w)
        BY <4>1, <3>1, <1>o
      <4>2. CASE Answer(c, "done", w)
        BY <4>2, <3>1, <1>o
      <4>3. CASE Answer(c, "failed", w)
        BY <4>3, <3>1, <1>o
      <4> QED BY <2>3, <4>1, <4>2, <4>3
    <3> QED BY <2>1, <3>1, <3>2, <3>3, <1>t DEF StoredInv
  <2> QED BY <2>1, <2>2, <2>3
<1> QED BY <1>1, <1>2, <1>3, <1>4 DEF Step

\* Reloads, mirrors and the end of a copy move values, and make none.
LEMMA EnvironmentStored ==
    ASSUME TypeOK, StoredInv, Environment
    PROVE  StoredInv'
<1>t. /\ db \in Known /\ hot \in Known /\ mirror \in Known
      /\ \A p \in Pods : file[p].mem \in Known /\ file[p].disk \in Known
      /\ file \in [Pods -> File] /\ Nothing \in Known
      /\ wiring \in [Pods -> Wiring]
  BY DEF TypeOK, StoredInv, Known
<1>k. UNCHANGED stored => Known' = Known
  BY DEF Known
<1>c. ASSUME NEW p \in Pods, NEW s \in {"mysql", "file"}, NEW r \in BOOLEAN,
             Rewire(p, s, r), UNCHANGED stored,
             db' \in Known, hot' \in Known, mirror' \in Known,
             \A q \in Pods : file'[q].mem \in Known /\ file'[q].disk \in Known
      PROVE  StoredInv'
  <2>1. \A d \in Clients : /\ call'[d].op = call[d].op
                           /\ call'[d].step = call[d].step
                           /\ call'[d].val = call[d].val
    BY <1>c, RewireFacts
  <2>2. \A d \in Clients :
               /\ call'[d].step \in {"fill", "cache"} => call'[d].val \in stored'
               /\ call'[d].op = "get" /\ call'[d].step = "done" => call'[d].val \in Known'
    BY <2>1, <1>c, <1>k DEF StoredInv
  <2> QED BY <1>c, <1>k, <2>2 DEF StoredInv
<1>1. CASE Expire
  BY <1>1, <1>t, <1>k DEF Expire, StoredInv
<1>2. ASSUME NEW p \in Pods, Reload(p) PROVE StoredInv'
  <2>1. /\ Rewire(p, "mysql", TRUE) /\ mirror' = db
        /\ UNCHANGED <<db, file, hot, stored>>
    BY <1>2 DEF Reload
  <2> QED BY <2>1, <1>t, <1>c
<1>3. ASSUME NEW p \in Pods, ReloadWithoutRedis(p) PROVE StoredInv'
  <2>1. /\ Rewire(p, "mysql", FALSE)
        /\ UNCHANGED <<db, file, hot, mirror, stored>>
    BY <1>3 DEF ReloadWithoutRedis
  <2> QED BY <2>1, <1>t, <1>c
<1>4. ASSUME NEW p \in Pods, ReloadUnlisted(p) PROVE StoredInv'
  <2>1. /\ Rewire(p, "mysql", TRUE)
        /\ db' \in Known /\ mirror' \in Known
        /\ UNCHANGED <<file, hot, stored>>
    BY <1>4, <1>t DEF ReloadUnlisted
  <2> QED BY <2>1, <1>t, <1>c
<1>5. ASSUME NEW p \in Pods, ReloadOnFile(p) PROVE StoredInv'
  <2>1. /\ Rewire(p, "file", FALSE) \/ Rewire(p, "file", TRUE)
        /\ UNCHANGED <<db, hot, stored>>
    BY <1>5 DEF ReloadOnFile
  <2>2. ASSUME NEW q \in Pods PROVE file'[q].mem \in Known /\ file'[q].disk \in Known
    BY <1>5, <1>t, OpenedFacts
  <2>3. mirror' \in Known
    BY <1>5, <1>t, <2>2, OpenedFacts
  <2> QED BY <2>1, <2>2, <2>3, <1>t, <1>c
<1>6. ASSUME NEW p \in Pods, Reconnect(p) \/ Mirror(p) PROVE StoredInv'
  <2>1. mirror' \in Known /\ UNCHANGED <<db, file, hot, call, stored>>
    BY <1>6, <1>t, BackupFacts DEF Reconnect, Mirror
  <2> QED BY <2>1, <1>t, <1>k DEF StoredInv
<1>7. ASSUME NEW p \in Pods, SaveOther(p) PROVE StoredInv'
  <2>1. /\ file' = [file EXCEPT ![p] = [mem |-> file[p].mem, disk |-> file[p].mem]]
        /\ UNCHANGED <<db, hot, mirror, call, stored>>
    BY <1>7 DEF SaveOther
  <2>2. ASSUME NEW q \in Pods PROVE file'[q].mem \in Known /\ file'[q].disk \in Known
    BY <2>1, <1>t
  <2> QED BY <2>1, <2>2, <1>t, <1>k DEF StoredInv
<1> QED BY <1>1, <1>2, <1>3, <1>4, <1>5, <1>6, <1>7 DEF Environment

LEMMA NextStored == TypeOK /\ StoredInv /\ [Next]_vars => StoredInv'
<1> SUFFICES ASSUME TypeOK, StoredInv, [Next]_vars PROVE StoredInv'
  OBVIOUS
<1>k. UNCHANGED stored => Known' = Known
  BY DEF Known
<1>c. ASSUME NEW c \in Clients, UNCHANGED <<db, file, hot, mirror, stored>>,
             \A d \in Clients \ {c} : call'[d] = call[d],
             call'[c].step \in {"idle", "look", "read", "write"}
      PROVE  StoredInv'
  BY <1>c, <1>k DEF StoredInv
<1>1. ASSUME NEW c \in Clients, BeginGet(c) PROVE StoredInv'
  <2>1. CASE wiring[PodOf[c]].hot
    BY <1>1, <2>1, BeginFacts, <1>c DEF BeginGet
  <2>2. CASE ~wiring[PodOf[c]].hot
    BY <1>1, <2>2, BeginFacts, <1>c DEF BeginGet
  <2> QED BY <2>1, <2>2
<1>2. ASSUME NEW c \in Clients, NEW v \in Values, BeginSet(c, v) PROVE StoredInv'
  BY <1>2, BeginFacts, <1>c DEF BeginSet
<1>3. ASSUME NEW c \in Clients, Step(c) PROVE StoredInv'
  BY <1>3, StepStored
<1>4. ASSUME NEW c \in Clients, Return(c) PROVE StoredInv'
  <2>1. /\ call' = [call EXCEPT ![c] = NoCall]
        /\ UNCHANGED <<db, file, hot, mirror, stored>>
    BY <1>4 DEF Return
  <2>2. /\ call'[c] = NoCall
        /\ \A d \in Clients \ {c} : call'[d] = call[d]
    BY <2>1 DEF TypeOK
  <2> QED BY <2>1, <2>2, <1>c DEF NoCall
<1>5. CASE Environment
  BY <1>5, EnvironmentStored
<1>6. CASE UNCHANGED vars
  BY <1>6, <1>k DEF vars, StoredInv
<1> QED BY <1>1, <1>2, <1>3, <1>4, <1>5, <1>6 DEF Next

\* A Get answers with something that was once in a store, or with nothing.
THEOREM ReadsAreOfStored == Spec => []ReadsWereStored
<1>1. Init => StoredInv
  BY DEF Init, StoredInv, Known, NoCall
<1>2. StoredInv => ReadsWereStored
  BY DEF StoredInv, Known, ReadsWereStored
<1> QED BY <1>1, <1>2, TypeCorrect, NextStored, PTL DEF Spec

-----------------------------------------------------------------------------
(* One call at a time, and no failure *)

\* Every object has its copy, one call at most is under way, what it carries is
\* the row, and the copy is the row except just before a Set replaces it.
SerialInv ==
    serial =>
        /\ \A p \in Pods : wiring[p].store = "mysql" /\ wiring[p].hot
        /\ \A c, d \in Clients : Active(c) /\ Active(d) => c = d
        /\ \A c \in Clients : Active(c) => call[c].store = "mysql" /\ call[c].hot /\ ~call[c].cut
        /\ \A c \in Clients : call[c].step \in {"fill", "cache"} => call[c].val = db
        /\ (\A c \in Clients : call[c].step # "cache") => hot \in {Nothing, db}

LEMMA BeginSerial ==
    ASSUME TypeOK, SerialInv, NEW c \in Clients, NEW op \in {"get", "set"},
           NEW step \in {"look", "read", "write"}, NEW v \in Maybe,
           step = "look" => wiring[PodOf[c]].hot,
           step = "write" => v \in Values,
           Begin(c, op, step, v)
    PROVE  SerialInv'
<1> SUFFICES ASSUME serial'
             PROVE  SerialInv'
  BY DEF SerialInv
<1>1. /\ call'[c].step = step
      /\ call'[c].store = wiring[PodOf[c]].store
      /\ call'[c].hot = wiring[PodOf[c]].hot
      /\ ~call'[c].cut
      /\ \A d \in Clients \ {c} : call'[d] = call[d]
      /\ serial' = (serial /\ Quiet)
      /\ UNCHANGED <<db, hot, wiring>>
      /\ PodOf[c] \in Pods
  BY BeginFacts, KVPodsAssumption
<1>2. serial /\ Quiet
  BY <1>1
<1>3. \A d \in Clients : call[d].step \in {"idle", "done", "failed"}
  BY <1>2 DEF Quiet, Active
<1>4. \A d \in Clients \ {c} : call'[d].step \in {"idle", "done", "failed"}
  BY <1>1, <1>3
<1>5. \A d, e \in Clients : Active(d)' /\ Active(e)' => d = e
  BY <1>4 DEF Active
<1>6. \A d \in Clients : Active(d)' => call'[d].store = "mysql" /\ call'[d].hot /\ ~call'[d].cut
  <2>1. wiring[PodOf[c]].store = "mysql" /\ wiring[PodOf[c]].hot
    BY <1>1, <1>2 DEF SerialInv
  <2> QED BY <1>1, <1>4, <2>1 DEF Active
<1>7. \A d \in Clients : call'[d].step \notin {"fill", "cache"}
  BY <1>1, <1>4
<1>8. hot \in {Nothing, db}
  BY <1>2, <1>3 DEF SerialInv
<1>9. \A p \in Pods : wiring[p].store = "mysql" /\ wiring[p].hot
  BY <1>2 DEF SerialInv
<1> QED BY <1>1, <1>5, <1>6, <1>7, <1>8, <1>9 DEF SerialInv

\* A step of the only call there is; a Get that ends here answers with the row.
LEMMA StepSerial ==
    ASSUME TypeOK, SerialInv, NEW c \in Clients, Step(c), serial'
    PROVE  /\ SerialInv'
           /\ call[c].op = "get" /\ call'[c].step = "done" => call'[c].val = db
<1>1. serial /\ NoFault
  BY DEF Step, Look, Read, Fill, Write, Cache, Fault, NoFault
<1>2. Active(c)
  BY DEF Step, Look, Read, Fill, Write, Cache, Active
<1>3. /\ call[c].store = "mysql" /\ call[c].hot /\ ~call[c].cut
      /\ \A d \in Clients \ {c} : ~Active(d)
      /\ \A p \in Pods : wiring[p].store = "mysql" /\ wiring[p].hot
      /\ call[c].step # "cache" => hot \in {Nothing, db}
      /\ call[c].step \in {"fill", "cache"} => call[c].val = db
  BY <1>1, <1>2 DEF SerialInv, Active
<1>4. UNCHANGED wiring
  BY DEF Step, Look, Read, Fill, Write, Cache
<1>o. ASSUME NEW step \in {"read", "fill", "cache", "done", "failed"}, NEW v,
             Answer(c, step, v),
             step \in {"fill", "cache"} => v = db',
             step # "cache" => hot' \in {Nothing, db'}
      PROVE  SerialInv'
  <2>1. /\ call'[c].step = step /\ call'[c].val = v
        /\ call'[c].store = "mysql" /\ call'[c].hot /\ ~call'[c].cut
        /\ \A d \in Clients \ {c} : call'[d] = call[d]
    BY <1>o, <1>3, AnswerFacts
  <2>2. \A d \in Clients \ {c} : /\ ~Active(d)'
                                 /\ call'[d].step \notin {"fill", "cache"}
    BY <2>1, <1>3 DEF Active
  <2>3. \A d, e \in Clients : Active(d)' /\ Active(e)' => d = e
    BY <2>2
  <2>4. \A d \in Clients : Active(d)' => call'[d].store = "mysql" /\ call'[d].hot /\ ~call'[d].cut
    BY <2>1, <2>2
  <2>5. \A d \in Clients : call'[d].step \in {"fill", "cache"} => call'[d].val = db'
    BY <1>o, <2>1, <2>2
  <2>6. (\A d \in Clients : call'[d].step # "cache") => hot' \in {Nothing, db'}
    BY <1>o, <2>1
  <2> QED BY <1>3, <1>4, <2>3, <2>4, <2>5, <2>6 DEF SerialInv
<1>5. CASE Look(c)
  <2>1. /\ call[c].step = "look" /\ UNCHANGED <<db, hot>>
        /\ \/ hot # Nothing /\ Answer(c, "done", hot)
           \/ Answer(c, "read", call[c].val)
    BY <1>5 DEF Look, Goto
  <2>2. hot \in {Nothing, db}
    BY <2>1, <1>3
  <2>3. CASE hot # Nothing /\ Answer(c, "done", hot)
    <3>1. SerialInv'
      BY <2>1, <2>2, <2>3, <1>o
    <3>2. call'[c].val = db
      BY <2>2, <2>3, AnswerFacts
    <3> QED BY <3>1, <3>2
  <2>4. CASE Answer(c, "read", call[c].val)
    <3>1. SerialInv'
      BY <2>1, <2>2, <2>4, <1>o
    <3>2. call'[c].step = "read"
      BY <2>4, AnswerFacts
    <3> QED BY <3>1, <3>2
  <2> QED BY <2>1, <2>3, <2>4
<1>6. CASE Read(c)
  <2>0. faults' = faults
    BY <1>1 DEF NoFault
  <2>1. ~Fault
    BY <2>0, <1>1 DEF Fault, NoFault
  <2>2. Contents(PodOf[c], call[c].store) = db
    BY <1>3 DEF Contents
  <2>3. /\ call[c].step = "read" /\ UNCHANGED <<db, hot>>
        /\ Answer(c, "fill", db) \/ Answer(c, "done", db)
    BY <1>6, <1>3, <2>1, <2>2 DEF Read, NoRows
  <2>4. hot \in {Nothing, db}
    BY <2>3, <1>3
  <2>5. SerialInv'
    <3>1. CASE Answer(c, "fill", db)
      BY <3>1, <2>3, <2>4, <1>o
    <3>2. CASE Answer(c, "done", db)
      BY <3>2, <2>3, <2>4, <1>o
    <3> QED BY <2>3, <3>1, <3>2
  <2>6. call'[c].val = db
    BY <2>3, AnswerFacts
  <2> QED BY <2>5, <2>6
<1>7. CASE Fill(c)
  <2>1. /\ call[c].step = "fill" /\ Answer(c, "done", call[c].val)
        /\ UNCHANGED db /\ hot' \in {hot, call[c].val}
    BY <1>7 DEF Fill, Goto
  <2>2. hot \in {Nothing, db} /\ call[c].val = db
    BY <2>1, <1>3
  <2>3. SerialInv'
    BY <2>1, <2>2, <1>o
  <2>4. call'[c].val = db
    BY <2>1, <2>2, AnswerFacts
  <2> QED BY <2>3, <2>4
<1>8. CASE Write(c)
  <2>1. ~Fault
    BY <1>1 DEF Fault, NoFault
  <2>2. /\ call[c].step = "write" /\ Answer(c, "cache", call[c].val)
        /\ db' = call[c].val /\ UNCHANGED hot
    BY <1>8, <1>3, <2>1 DEF Write, Goto, Store, NoRows
  <2>3. SerialInv'
    BY <2>2, <1>o
  <2>4. call'[c].step = "cache"
    BY <2>2, AnswerFacts
  <2> QED BY <2>3, <2>4
<1>9. CASE Cache(c)
  <2>1. ~Fault
    BY <1>1 DEF Fault, NoFault
  <2>2. /\ call[c].step = "cache" /\ Answer(c, "done", call[c].val)
        /\ hot' \in {Nothing, call[c].val} /\ UNCHANGED db
    BY <1>9, <1>3, <2>1 DEF Cache, Goto
  <2>3. call[c].val = db
    BY <2>2, <1>3
  <2>4. SerialInv'
    BY <2>2, <2>3, <1>o
  <2>5. call'[c].val = db
    BY <2>2, <2>3, AnswerFacts
  <2> QED BY <2>4, <2>5
<1> QED BY <1>5, <1>6, <1>7, <1>8, <1>9 DEF Step

LEMMA NextSerial == TypeOK /\ SerialInv /\ [Next]_vars => SerialInv'
<1> SUFFICES ASSUME TypeOK, SerialInv, [Next]_vars, serial' PROVE SerialInv'
  BY DEF SerialInv
<1>1. ASSUME NEW c \in Clients, BeginGet(c) PROVE SerialInv'
  <2>1. CASE wiring[PodOf[c]].hot
    BY <1>1, <2>1, BeginSerial DEF BeginGet
  <2>2. CASE ~wiring[PodOf[c]].hot
    BY <1>1, <2>2, BeginSerial DEF BeginGet
  <2> QED BY <2>1, <2>2
<1>2. ASSUME NEW c \in Clients, NEW v \in Values, BeginSet(c, v) PROVE SerialInv'
  BY <1>2, BeginSerial DEF BeginSet
<1>3. ASSUME NEW c \in Clients, Step(c) PROVE SerialInv'
  BY <1>3, StepSerial
<1>4. ASSUME NEW c \in Clients, Return(c) PROVE SerialInv'
  <2>1. /\ call' = [call EXCEPT ![c] = NoCall]
        /\ call[c].step \in {"done", "failed"}
        /\ UNCHANGED <<db, hot, wiring, serial>>
    BY <1>4 DEF Return
  <2>2. /\ call'[c].step = "idle"
        /\ \A d \in Clients \ {c} : call'[d] = call[d]
    BY <2>1 DEF TypeOK, NoCall
  <2>3. \A d \in Clients : Active(d)' => Active(d) /\ call'[d] = call[d]
    BY <2>2 DEF Active
  <2>4. \A d \in Clients : call'[d].step \in {"fill", "cache"} => call'[d] = call[d]
    BY <2>2
  <2>5. (\A d \in Clients : call'[d].step # "cache")
          => (\A d \in Clients : call[d].step # "cache")
    BY <2>1, <2>2
  <2> QED BY <2>1, <2>3, <2>4, <2>5 DEF SerialInv
<1>5. CASE Environment
  <2>1. CASE Expire
    BY <2>1 DEF Expire, SerialInv, Active
  <2>2. ASSUME NEW p \in Pods, Reload(p) PROVE SerialInv'
    <3>1. /\ Rewire(p, "mysql", TRUE) /\ serial' = (serial /\ Quiet)
          /\ UNCHANGED <<db, hot>>
      BY <2>2 DEF Reload
    <3>2. serial /\ \A d \in Clients : ~Active(d)
      BY <3>1 DEF Quiet
    <3>3. \A d \in Clients : call'[d] = call[d]
      BY <3>1, <3>2, RewireFacts
    <3>4. \A q \in Pods : wiring'[q].store = "mysql" /\ wiring'[q].hot
      <4>1. /\ wiring'[p] = [store |-> "mysql", redis |-> TRUE, hot |-> TRUE]
            /\ \A q \in Pods \ {p} : wiring'[q] = wiring[q]
        BY <3>1, RewireFacts
      <4> QED BY <4>1, <3>2 DEF SerialInv
    <3>5. \A d \in Clients : ~Active(d)'
      BY <3>2, <3>3 DEF Active
    <3> QED BY <3>1, <3>2, <3>3, <3>4, <3>5 DEF SerialInv
  <2>3. ASSUME NEW p \in Pods,
               ReloadWithoutRedis(p) \/ ReloadUnlisted(p) \/ ReloadOnFile(p)
        PROVE  FALSE
    BY <2>3 DEF ReloadWithoutRedis, ReloadUnlisted, ReloadOnFile, Fault
  <2>4. ASSUME NEW p \in Pods, Reconnect(p) PROVE SerialInv'
    <3>1. /\ wiring' = [wiring EXCEPT ![p].redis = TRUE]
          /\ UNCHANGED <<db, hot, call, serial>>
      <4>1. Fault \/ NoFault
        BY <2>4, BackupFacts DEF Reconnect
      <4> QED BY <2>4, <4>1 DEF Reconnect, Fault, NoFault
    <3>2. \A q \in Pods : wiring'[q].store = wiring[q].store /\ wiring'[q].hot = wiring[q].hot
      <4>1. \A q \in Pods : wiring[q] \in Wiring
        BY DEF TypeOK
      <4> QED BY <3>1, <4>1 DEF TypeOK, Wiring
    <3> QED BY <3>1, <3>2 DEF SerialInv, Active
  <2>5. ASSUME NEW p \in Pods, Mirror(p) \/ SaveOther(p) PROVE SerialInv'
    <3>1. UNCHANGED <<db, hot, wiring, call>> /\ serial
      <4>1. CASE Mirror(p)
        <5>1. Fault \/ NoFault
          BY <4>1, BackupFacts DEF Mirror
        <5> QED BY <4>1, <5>1 DEF Mirror, Fault, NoFault
      <4>2. CASE SaveOther(p)
        BY <4>2 DEF SaveOther
      <4> QED BY <2>5, <4>1, <4>2
    <3> QED BY <3>1 DEF SerialInv, Active
  <2> QED BY <1>5, <2>1, <2>2, <2>3, <2>4, <2>5 DEF Environment
<1>6. CASE UNCHANGED vars
  BY <1>6 DEF vars, SerialInv, Active
<1> QED BY <1>1, <1>2, <1>3, <1>4, <1>5, <1>6 DEF Next

LEMMA InitSerial == Init => SerialInv
<1> SUFFICES ASSUME Init, serial PROVE SerialInv
  BY DEF SerialInv
<1>1. \A p \in Pods : wiring[p].store = "mysql" /\ wiring[p].hot
  <2>1. serial = (\A p \in Pods : wiring[p] = Connected)
    BY DEF Init
  <2>2. \A p \in Pods : wiring[p] = Connected
    BY <2>1, Zenon
  <2>3. Connected.store = "mysql" /\ Connected.hot
    BY DEF Connected
  <2> QED BY <2>2, <2>3, Zenon
<1>2. /\ \A c \in Clients : call[c].step = "idle"
      /\ hot = Nothing
  BY DEF Init, NoCall
<1> QED BY <1>1, <1>2 DEF SerialInv, Active

\* As long as calls come one at a time and nothing fails, the copy between calls
\* is the row or absent.
THEOREM CopyIsCurrent == Spec => []SerialCopyIsCurrent
<1>1. SerialInv => SerialCopyIsCurrent
  <2> SUFFICES ASSUME SerialInv, serial, Quiet PROVE hot \in {Nothing, db}
    BY DEF SerialCopyIsCurrent
  <2>1. \A c \in Clients : call[c].step # "cache"
    BY DEF Quiet, Active
  <2> QED BY <2>1 DEF SerialInv
<1> QED BY <1>1, InitSerial, TypeCorrect, NextSerial, PTL DEF Spec

\* The step the property speaks of.
GetEndsCurrent ==
    \A c \in Clients :
         serial' /\ call[c].op = "get" /\ Active(c) /\ call'[c].step = "done"
            => call'[c].val = db

\* A Get that ends answers with the row of that moment.
LEMMA NextGet == TypeOK /\ SerialInv /\ [Next]_vars => [GetEndsCurrent]_vars
<1> SUFFICES ASSUME TypeOK, SerialInv, Next,
                    NEW c \in Clients, serial', call[c].op = "get", Active(c),
                    call'[c].step = "done"
             PROVE  call'[c].val = db
  BY DEF GetEndsCurrent
<1>1. call[c].step # "done" /\ call[c].step # "idle" /\ call[c].step # "failed"
  BY DEF Active
<1>2. call'[c].step # call[c].step
  BY <1>1
<1>3. ASSUME NEW d \in Clients, BeginGet(d) \/ (\E v \in Values : BeginSet(d, v))
      PROVE  FALSE
  <2>1. /\ call[d].step = "idle" /\ DOMAIN call = Clients
        /\ \A e \in Clients \ {d} : call'[e] = call[e]
    BY <1>3 DEF BeginGet, BeginSet, Begin, TypeOK
  <2> QED BY <1>1, <1>2, <2>1
<1>4. ASSUME NEW d \in Clients, Step(d)
      PROVE  call'[c].val = db
  <2>1. CASE d = c
    BY <1>4, <2>1, StepSerial
  <2>2. CASE d # c
    <3>1. \E step, v : Answer(d, step, v)
      BY <1>4 DEF Step, Look, Read, Fill, Write, Cache, Goto
    <3>2. call'[c] = call[c]
      BY <2>2, <3>1, AnswerFacts
    <3> QED BY <1>2, <3>2
  <2> QED BY <2>1, <2>2
<1>5. ASSUME NEW d \in Clients, Return(d)
      PROVE  FALSE
  <2>1. /\ call[d].step \in {"done", "failed"}
        /\ \A e \in Clients \ {d} : call'[e] = call[e]
    BY <1>5 DEF Return, TypeOK
  <2> QED BY <1>1, <1>2, <2>1
<1>6. ASSUME Environment
      PROVE  FALSE
  <2>1. ASSUME NEW p \in Pods, NEW s \in {"mysql", "file"}, NEW r \in BOOLEAN,
               Rewire(p, s, r)
        PROVE  FALSE
    BY <2>1, <1>2, RewireFacts
  <2>2. ASSUME UNCHANGED call PROVE FALSE
    BY <2>2, <1>2
  <2>3. CASE Expire
    BY <2>3, <2>2 DEF Expire
  <2>4. ASSUME NEW p \in Pods,
               \/ Reload(p) \/ ReloadWithoutRedis(p) \/ ReloadUnlisted(p)
               \/ ReloadOnFile(p)
        PROVE  FALSE
    BY <2>4, <2>1 DEF Reload, ReloadWithoutRedis, ReloadUnlisted, ReloadOnFile
  <2>5. ASSUME NEW p \in Pods, Reconnect(p) \/ Mirror(p) \/ SaveOther(p) PROVE FALSE
    BY <2>5, <2>2 DEF Reconnect, Mirror, SaveOther
  <2> QED BY <1>6, <2>3, <2>4, <2>5 DEF Environment
<1> QED BY <1>3, <1>4, <1>5, <1>6 DEF Next

\* As long as calls come one at a time and nothing fails, a Get answers with the
\* row.
THEOREM GetIsCurrent == Spec => SerialGetIsCurrent
<1>1. SerialGetIsCurrent <=> [][GetEndsCurrent]_vars
  BY DEF SerialGetIsCurrent, GetEndsCurrent
<1> QED BY <1>1, InitSerial, TypeCorrect, NextSerial, NextGet, PTL DEF Spec

-----------------------------------------------------------------------------
(* After the last write *)

\* Only a Set writes the row and replaces the copy.
OpInv == \A c \in Clients : call[c].step \in {"write", "cache"} => call[c].op = "set"

\* How a step of a call goes on, once it is known which one it was.
LEMMA StepAnswers ==
    ASSUME NEW c \in Clients, Step(c)
    PROVE  \E step, v : /\ Answer(c, step, v)
                        /\ step = "cache" => call[c].step = "write"
                        /\ step # "write"
  BY DEF Step, Look, Read, Fill, Write, Cache, Goto

LEMMA NextOp == TypeOK /\ OpInv /\ [Next]_vars => OpInv'
<1> SUFFICES ASSUME TypeOK, OpInv, [Next]_vars PROVE OpInv'
  OBVIOUS
<1>1. ASSUME NEW c \in Clients, BeginGet(c) PROVE OpInv'
  <2>1. CASE wiring[PodOf[c]].hot
    BY <1>1, <2>1, BeginFacts DEF BeginGet, OpInv
  <2>2. CASE ~wiring[PodOf[c]].hot
    BY <1>1, <2>2, BeginFacts DEF BeginGet, OpInv
  <2> QED BY <2>1, <2>2
<1>2. ASSUME NEW c \in Clients, NEW v \in Values, BeginSet(c, v) PROVE OpInv'
  BY <1>2, BeginFacts DEF BeginSet, OpInv
<1>3. ASSUME NEW c \in Clients, Step(c) PROVE OpInv'
  <2>1. PICK step, v : /\ Answer(c, step, v)
                       /\ step = "cache" => call[c].step = "write"
                       /\ step # "write"
    BY <1>3, StepAnswers
  <2>2. /\ call'[c].op = call[c].op /\ call'[c].step = step
        /\ \A d \in Clients \ {c} : call'[d] = call[d]
    BY <2>1, AnswerFacts
  <2> QED BY <2>1, <2>2 DEF OpInv
<1>4. ASSUME NEW c \in Clients, Return(c) PROVE OpInv'
  <2>1. /\ call'[c] = NoCall
        /\ \A d \in Clients \ {c} : call'[d] = call[d]
    BY <1>4 DEF Return, TypeOK
  <2> QED BY <2>1 DEF OpInv, NoCall
<1>5. CASE Environment
  <2>1. ASSUME NEW p \in Pods, NEW s \in {"mysql", "file"}, NEW r \in BOOLEAN,
               Rewire(p, s, r)
        PROVE  OpInv'
    BY <2>1, RewireFacts DEF OpInv
  <2>2. ASSUME UNCHANGED call PROVE OpInv'
    BY <2>2 DEF OpInv
  <2> QED BY <1>5, <2>1, <2>2 DEF Environment, Expire, Reload, ReloadWithoutRedis,
             ReloadUnlisted, ReloadOnFile, Reconnect, Mirror, SaveOther
<1>6. CASE UNCHANGED vars
  BY <1>6 DEF vars, OpInv
<1> QED BY <1>1, <1>2, <1>3, <1>4, <1>5, <1>6 DEF Next

\* The step of a Get: what it will store is the row, and it stores nothing else.
LEMMA StepConverged ==
    ASSUME TypeOK, OpInv, NEW c \in Clients, Step(c), call[c].op = "get", db' = db, Converged
    PROVE  Converged'
<1>1. call[c].step \in {"look", "read", "fill"} /\ Active(c)
  BY DEF Step, Look, Read, Fill, Write, Cache, OpInv, Active
<1>2. hot \in {Nothing, db} /\ (call[c].hot => call[c].store # "file")
  BY <1>1 DEF Converged
<1>o. ASSUME NEW step, NEW v, Answer(c, step, v), step = "fill" => v = db,
             hot' \in {Nothing, db}
      PROVE  Converged'
  <2>1. /\ call'[c].step = step /\ call'[c].val = v
        /\ call'[c].store = call[c].store /\ call'[c].hot = call[c].hot
        /\ \A d \in Clients \ {c} : call'[d] = call[d]
    BY <1>o, AnswerFacts
  <2>2. ASSUME NEW d \in Clients
        PROVE  /\ call'[d].step = "fill" => call'[d].val = db'
               /\ Active(d)' /\ call'[d].hot => call'[d].store # "file"
    <3>1. CASE d = c
      BY <1>o, <1>2, <2>1, <3>1
    <3>2. CASE d # c
      BY <2>1, <3>2 DEF Converged, Active
    <3> QED BY <3>1, <3>2
  <2> QED BY <1>o, <2>2 DEF Converged
<1>3. CASE Look(c)
  <2>1. /\ Answer(c, "done", hot) \/ Answer(c, "read", call[c].val)
        /\ hot' = hot
    BY <1>3 DEF Look, Goto
  <2> QED BY <1>2, <2>1, <1>o
<1>4. CASE Read(c)
  <2>1. hot' = hot
    BY <1>4 DEF Read
  <2>2. \/ \E v : Answer(c, "done", v)
        \/ /\ call[c].hot /\ ~NoRows(c)
           /\ Answer(c, "fill", Contents(PodOf[c], call[c].store))
    BY <1>4 DEF Read
  <2>3. call[c].hot /\ ~NoRows(c) => Contents(PodOf[c], call[c].store) = db
    BY <1>2 DEF TypeOK, Call, Contents
  <2>4. CASE \E v : Answer(c, "done", v)
    BY <1>2, <2>1, <2>4, <1>o
  <2>5. CASE call[c].hot /\ ~NoRows(c) /\ Answer(c, "fill", db)
    BY <1>2, <2>1, <2>5, <1>o
  <2> QED BY <2>2, <2>3, <2>4, <2>5
<1>5. CASE Fill(c)
  <2>1. /\ Answer(c, "done", call[c].val) /\ call[c].step = "fill"
        /\ hot' \in {hot, call[c].val}
    BY <1>5 DEF Fill, Goto
  <2>2. call[c].val = db
    BY <2>1 DEF Converged
  <2> QED BY <1>2, <2>1, <2>2, <1>o
<1>6. CASE Write(c) \/ Cache(c)
  BY <1>1, <1>6 DEF Write, Cache
<1> QED BY <1>3, <1>4, <1>5, <1>6 DEF Step

\* A pod that is reloaded onto MySQL, or only reconnected, disturbs no copy.
LEMMA EnvironmentConverged ==
    ASSUME TypeOK, Environment, Settled', db' = db, Converged
    PROVE  Converged'
<1>c. ASSUME NEW p \in Pods, NEW r \in BOOLEAN, Rewire(p, "mysql", r), UNCHANGED hot
      PROVE  Converged'
  <2>1. \A d \in Clients :
          /\ call'[d].step = call[d].step /\ call'[d].val = call[d].val
          /\ call'[d].hot = call[d].hot
    BY <1>c, RewireFacts
  <2>2. ASSUME NEW d \in Clients PROVE call'[d].store = call[d].store
    BY <1>c, RewireFacts
  <2> QED BY <1>c, <2>1, <2>2 DEF Converged, Active
<1>1. CASE Expire
  BY <1>1 DEF Expire, Converged, Active
<1>2. ASSUME NEW p \in Pods, Reload(p) \/ ReloadWithoutRedis(p) \/ ReloadUnlisted(p)
      PROVE  Converged'
  <2>1. UNCHANGED hot /\ (Rewire(p, "mysql", TRUE) \/ Rewire(p, "mysql", FALSE))
    BY <1>2 DEF Reload, ReloadWithoutRedis, ReloadUnlisted
  <2> QED BY <2>1, <1>c
<1>3. ASSUME NEW p \in Pods, ReloadOnFile(p) PROVE FALSE
  <2>1. PICK r \in BOOLEAN : Rewire(p, "file", r)
    BY <1>3 DEF ReloadOnFile
  <2>2. wiring'[p].store = "file"
    BY <2>1 DEF Rewire, TypeOK
  <2> QED BY <2>2 DEF Settled
<1>4. ASSUME NEW p \in Pods, Reconnect(p) \/ Mirror(p) \/ SaveOther(p) PROVE Converged'
  BY <1>4 DEF Reconnect, Mirror, SaveOther, Converged, Active
<1> QED BY <1>1, <1>2, <1>3, <1>4 DEF Environment

\* The step the property speaks of.
Convergence == Settled /\ Settled' /\ db' = db /\ Converged => Converged'

LEMMA NextConverged == TypeOK /\ OpInv /\ [Next]_vars => [Convergence]_vars
<1> SUFFICES ASSUME TypeOK, OpInv, Next, Settled, Settled', db' = db, Converged
             PROVE  Converged'
  BY DEF Convergence
<1>1. ASSUME NEW c \in Clients, NEW op, NEW step \in {"look", "read", "write"}, NEW v,
             Begin(c, op, step, v)
      PROVE  Converged'
  <2>1. PodOf[c] \in Pods /\ wiring[PodOf[c]].store = "mysql"
    BY KVPodsAssumption DEF Settled
  <2>2. /\ call'[c].step = step /\ call'[c].store = "mysql"
        /\ \A d \in Clients \ {c} : call'[d] = call[d]
        /\ UNCHANGED hot
    BY <1>1, <2>1 DEF Begin, TypeOK
  <2>3. ASSUME NEW d \in Clients
        PROVE  /\ call'[d].step = "fill" => call'[d].val = db'
               /\ Active(d)' /\ call'[d].hot => call'[d].store # "file"
    BY <2>2 DEF Converged, Active
  <2> QED BY <2>2, <2>3 DEF Converged
<1>2. ASSUME NEW c \in Clients, BeginGet(c) \/ (\E v \in Values : BeginSet(c, v))
      PROVE  Converged'
  BY <1>1, <1>2 DEF BeginGet, BeginSet
<1>3. ASSUME NEW c \in Clients, Step(c) PROVE Converged'
  BY <1>3, StepConverged DEF Settled
<1>4. ASSUME NEW c \in Clients, Return(c) PROVE Converged'
  <2>1. /\ call'[c].step = "idle" /\ UNCHANGED hot
        /\ \A d \in Clients \ {c} : call'[d] = call[d]
    BY <1>4 DEF Return, TypeOK, NoCall
  <2>2. ASSUME NEW d \in Clients
        PROVE  /\ call'[d].step = "fill" => call'[d].val = db'
               /\ Active(d)' /\ call'[d].hot => call'[d].store # "file"
    BY <2>1 DEF Converged, Active
  <2> QED BY <2>1, <2>2 DEF Converged
<1>5. CASE Environment
  BY <1>5, EnvironmentConverged
<1> QED BY <1>2, <1>3, <1>4, <1>5 DEF Next

\* Once row and copy agree, with every pod on MySQL and nobody writing, they agree until
\* someone writes again, or a pod is sent to its file or writes its backup over the rows.
THEOREM AgreementLasts == Spec => ConvergedStays
<1>1. Init => OpInv
  BY DEF Init, OpInv, NoCall
<1>2. ConvergedStays <=> [][Convergence]_vars
  BY DEF ConvergedStays, Convergence
<1> QED BY <1>1, <1>2, TypeCorrect, NextOp, NextConverged, PTL DEF Spec
=============================================================================
