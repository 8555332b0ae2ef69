-------------------------- MODULE SessionTableProofs --------------------------
(* SessionNonce implements SessionTable when requests come one at a time and   *)
(* nothing fails: what a request has read is still the row when it decides,    *)
(* and what it is about to write is a change the table allows.                 *)
EXTENDS SessionNonceProofs

-----------------------------------------------------------------------------
(* Rows as sets of logins *)

\* The logins a row stands for.
LoginsOf(f) == {[nonce |-> f[k], at |-> k] : k \in DOMAIN f}

LEMMA LiveRow == ASSUME NEW v, v # Nothing PROVE Live(v) = LoginsOf(v)
  BY DEF Live, LoginsOf

LEMMA LiveNone == Live(Nothing) = {} /\ Live(NoSession) = {}
  BY DEF Live, NoSession

\* A row has as many logins as places.
LEMMA AsManyLogins ==
    ASSUME NEW D, IsFiniteSet(D), NEW f, D = DOMAIN f
    PROVE  IsFiniteSet(LoginsOf(f)) /\ Cardinality(LoginsOf(f)) = Cardinality(D)
<1> DEFINE g == [k \in D |-> [nonce |-> f[k], at |-> k]]
<1>1. g \in [D -> LoginsOf(f)]
  BY DEF LoginsOf
<1>2. \A a, b \in D : g[a] = g[b] => a = b
  <2> SUFFICES ASSUME NEW a \in D, NEW b \in D, g[a] = g[b] PROVE a = b
    OBVIOUS
  <2>1. g[a].at = a /\ g[b].at = b
    OBVIOUS
  <2> QED BY <2>1
<1>3. \A l \in LoginsOf(f) : \E k \in D : g[k] = l
  BY DEF LoginsOf
<1> HIDE DEF g
<1>4. g \in Bijection(D, LoginsOf(f))
  BY <1>1, <1>2, <1>3 DEF Bijection, Injection, Surjection, IsInjective
<1>5. ExistsBijection(D, LoginsOf(f))
  BY <1>4 DEF ExistsBijection
<1> QED BY <1>5, FS_Bijection

LEMMA PlacesFinite == IsFiniteSet(Places)
  BY SNAddressesAssumption, FS_AddElement DEF Places

\* What is in force after n has logged in at a place, before any entry is dropped.
After(n, at) ==
    {l \in Live(db) : at # Any /\ l.at \notin {Any, at}} \union {[nonce |-> n, at |-> at]}

\* Storing v is a step of the table: the login of n at that place.
Signs(n, at, v) ==
    /\ Live(v) \subseteq After(n, at)
    /\ IF Cardinality(After(n, at)) <= MaxIPs
       THEN Live(v) = After(n, at)
       ELSE Cardinality(Live(v)) = MaxIPs

\* A login that is the only one.
LEMMA AloneSigns ==
    ASSUME NEW n \in Nonces
    PROVE  Signs(n, Any, [k \in {Any} |-> n])
<1> DEFINE row == [k \in {Any} |-> n]
<1>1. row # Nothing
  BY RowsOfOne, SNStoreAssumption
<1>2. Live(row) = {[nonce |-> n, at |-> Any]}
  BY <1>1 DEF Live
<1>3. After(n, Any) = {[nonce |-> n, at |-> Any]}
  BY DEF After
<1>4. Cardinality({[nonce |-> n, at |-> Any]}) <= MaxIPs
  <2>1. Cardinality({[nonce |-> n, at |-> Any]}) = 1
    BY FS_Singleton
  <2> QED BY <2>1, SNBoundsAssumption
<1> HIDE DEF row
<1>5. Signs(n, Any, row)
  BY <1>2, <1>3, <1>4 DEF Signs
<1> QED BY <1>5 DEF row

\* A stored row is for one place, or for some addresses.
LEMMA RowPlaces ==
    ASSUME NEW v \in SessionRows
    PROVE  /\ v # Nothing
           /\ DOMAIN v = {Any} \/ DOMAIN v \subseteq IPs
           /\ v = [k \in DOMAIN v |-> v[k]]
<1>1. PICK D \in RowDomains : v \in [D -> Nonces]
  BY DEF SessionRows
<1> QED BY <1>1, SNStoreAssumption DEF RowDomains

\* A login beside others: the entries of the row that was read, less those that a
\* login from this address ends, and its own; some may be dropped.
LEMMA MergeSigns ==
    ASSUME db \in SessionRows \union {Nothing}, NEW n, NEW at \in IPs,
           NEW K \in Trimmed(DOMAIN Entries(db) \union {at}),
           NEW row, row = [k \in K |-> IF k = at THEN n ELSE Entries(db)[k]],
           row # Nothing
    PROVE  Signs(n, at, row)
<1> DEFINE old == Entries(db)
           D == DOMAIN old \union {at}
           all == [k \in D |-> IF k = at THEN n ELSE old[k]]
<1>a. at # Any
  BY SNAddressesAssumption
<1>1. /\ DOMAIN old \subseteq IPs
      /\ After(n, at) = LoginsOf(all)
  <2>1. CASE db = Nothing \/ Any \in DOMAIN db
    <3>1. old = NoSession
      BY <2>1 DEF Entries
    <3>2. DOMAIN old = {}
      BY <3>1 DEF NoSession
    <3>3. LoginsOf(all) = {[nonce |-> n, at |-> at]}
      BY <3>2 DEF LoginsOf
    <3>4. {l \in Live(db) : at # Any /\ l.at \notin {Any, at}} = {}
      <4>1. CASE db = Nothing
        BY <4>1, LiveNone
      <4>2. CASE db # Nothing
        <5>1. DOMAIN db = {Any}
          BY <4>2, <2>1, RowPlaces, SNAddressesAssumption
        <5>2. Live(db) = {[nonce |-> db[Any], at |-> Any]}
          BY <5>1, <4>2 DEF Live
        <5> QED BY <5>2
      <4> QED BY <4>1, <4>2
    <3> QED BY <3>2, <3>3, <3>4 DEF After
  <2>2. CASE db # Nothing /\ Any \notin DOMAIN db
    <3>1. old = db /\ DOMAIN db \subseteq IPs
      BY <2>2, RowPlaces DEF Entries
    <3>2. {l \in Live(db) : at # Any /\ l.at \notin {Any, at}}
            = {[nonce |-> db[k], at |-> k] : k \in DOMAIN db \ {at}}
      BY <3>1, <2>2, <1>a, SNAddressesAssumption DEF Live
    <3>3. LoginsOf(all) = {[nonce |-> db[k], at |-> k] : k \in DOMAIN db \ {at}}
                            \union {[nonce |-> n, at |-> at]}
      BY <3>1 DEF LoginsOf
    <3> QED BY <3>1, <3>2, <3>3 DEF After
  <2> QED BY <2>1, <2>2
<1>2. K \subseteq D /\ IsFiniteSet(D) /\ IsFiniteSet(K)
  <2>1. K \subseteq D
    BY DEF Trimmed
  <2>2. D \subseteq IPs
    BY <1>1
  <2> QED BY <2>1, <2>2, FS_Subset, SNAddressesAssumption
<1>3. Live(row) = LoginsOf(row)
  BY LiveRow
<1>4. LoginsOf(row) \subseteq LoginsOf(all)
  BY <1>2 DEF LoginsOf
<1>5. /\ Cardinality(LoginsOf(row)) = Cardinality(K)
      /\ Cardinality(LoginsOf(all)) = Cardinality(D)
  <2>1. DOMAIN row = K /\ DOMAIN all = D
    OBVIOUS
  <2> HIDE DEF all, D
  <2> QED BY <1>2, <2>1, AsManyLogins
<1>6. CASE Cardinality(D) <= MaxIPs
  <2>1. K = D
    BY <1>6 DEF Trimmed
  <2>2. row = all
    BY <2>1
  <2> QED BY <1>1, <1>3, <1>5, <1>6, <2>2 DEF Signs
<1>7. CASE ~(Cardinality(D) <= MaxIPs)
  <2>1. Cardinality(K) = MaxIPs
    BY <1>7 DEF Trimmed
  <2> HIDE DEF all, D
  <2> QED BY <1>1, <1>3, <1>4, <1>5, <1>7, <2>1 DEF Signs
<1> QED BY <1>6, <1>7

-----------------------------------------------------------------------------
(* The store, one call at a time *)

USE DEF KV!data, KVP!data, KV!Fault, KVP!Fault, KV!NoFault, KVP!NoFault

\* A step of the only call writes what the call carries, or leaves the row; a Get
\* that ends has the row.
LEMMA SerialStep ==
    ASSUME KV!TypeOK, KVP!SerialInv, NEW w \in Clients, KV!Step(w), serial'
    PROVE  /\ db' = IF call[w].step = "write" THEN call[w].val ELSE db
           /\ call[w].op = "get" /\ call'[w].step = "done" => call'[w].val = db
<1>t. KVP!TypeOK /\ KVP!Step(w)
  BY SameTypes, SameStep
<1>1. call[w].op = "get" /\ call'[w].step = "done" => call'[w].val = db
  BY <1>t, StoreAssumptions, KVP!StepSerial
<1>2. CASE KV!Write(w)
  <2>1. call[w].step = "write" /\ serial
    BY <1>2 DEF KV!Write
  <2>2. call[w].store = "mysql" /\ ~call[w].cut
    BY <2>1 DEF KVP!SerialInv, KVP!Active
  <2>3. db' = call[w].val
    BY <1>2, <2>1, <2>2 DEF KV!Write, KV!Store, KV!NoRows
  <2> QED BY <1>1, <2>1, <2>3
<1>3. CASE KV!Look(w) \/ KV!Read(w) \/ KV!Fill(w) \/ KV!Cache(w)
  <2>1. UNCHANGED db /\ call[w].step # "write"
    BY <1>3 DEF KV!Look, KV!Read, KV!Fill, KV!Cache
  <2> QED BY <1>1, <2>1
<1> QED BY <1>2, <1>3 DEF KV!Step

LEMMA SerialEnvironment ==
    ASSUME KV!Environment, serial'
    PROVE  UNCHANGED db
  BY DEF KV!Environment, KV!Expire, KV!Reload, KV!ReloadWithoutRedis,
         KV!ReloadUnlisted, KV!ReloadOnFile, KV!Reconnect, KV!Mirror, KV!SaveOther

-----------------------------------------------------------------------------
(* The invariant of requests that come one at a time *)

\* What a request has read is the row, and what it will write signs its user in
\* or out.
Pending(w) ==
    /\ job[w].op \in {"read", "check", "leave"} =>
          call[w].step # "write" /\ (call[w].step = "done" => call[w].val = db)
    /\ job[w].op \in {"check", "leave", "in", "out"} =>
          job[w].nonce \in Nonces /\ job[w].at \in IPs
    /\ job[w].op = "save" => Signs(job[w].nonce, job[w].at, job[w].row)
    /\ job[w].op = "login" /\ call[w].step = "write" =>
          Signs(job[w].nonce, job[w].at, call[w].val)
    /\ job[w].op = "logout" /\ call[w].step = "write" => call[w].val = NoSession

SerialRequests ==
    /\ Inv
    /\ KVP!SerialInv
    /\ OneAtATime
    /\ \A w \in Clients : Pending(w)

LEMMA SignsKept ==
    ASSUME UNCHANGED db, NEW n, NEW at, NEW v, Signs(n, at, v)
    PROVE  Signs(n, at, v)'
  BY DEF Signs, After, Live

\* A request that does nothing while the row stays.
LEMMA OtherPending ==
    ASSUME UNCHANGED db, NEW d \in Clients, Pending(d), job'[d] = job[d],
           call'[d].step = call[d].step, call'[d].val = call[d].val
    PROVE  Pending(d)'
<1>1. \A n, at, v : Signs(n, at, v) => Signs(n, at, v)'
  BY SignsKept
<1> QED BY <1>1 DEF Pending

\* The requests that are not under way.
LEMMA IdlePending ==
    ASSUME NEW d \in Clients, job[d].op \in {"idle", "clear"}
    PROVE  Pending(d)
  BY DEF Pending

\* A step of one request that leaves the row alone.
LEMMA OnePending ==
    ASSUME SerialRequests, NEW w \in Clients, UNCHANGED db,
           NEW j, job' = [job EXCEPT ![w] = j],
           \A d \in Clients \ {w} : call'[d] = call[d],
           Pending(w)'
    PROVE  \A d \in Clients : Pending(d)'
<1> SUFFICES ASSUME NEW d \in Clients, d # w PROVE Pending(d)'
  OBVIOUS
<1>1. job'[d] = job[d] /\ call'[d] = call[d]
  BY DEF SerialRequests, Inv, OwnInv
<1> QED BY <1>1, OtherPending DEF SerialRequests

LEMMA LoginAlonePending ==
    ASSUME SerialRequests, NEW w \in Clients, NEW n \in Nonces, LoginAlone(w, n)
    PROVE  (\A d \in Clients : Pending(d)') /\ UNCHANGED db
<1> DEFINE row == [k \in {Any} |-> n]
           j == [op |-> "login", nonce |-> n, at |-> Any, row |-> NoSession]
<1>1. job' = [job EXCEPT ![w] = j] /\ job'[w] = j
  BY DEF LoginAlone, Work, SerialRequests, Inv, OwnInv
<1>2. /\ call'[w].val = row
      /\ \A d \in Clients \ {w} : call'[d] = call[d]
      /\ UNCHANGED db
  BY StoreBegin, RowsOfOne DEF LoginAlone, SerialRequests, Inv
<1>3. Signs(n, Any, row)'
  BY <1>2, AloneSigns, SignsKept
<1>4. Pending(w)'
  BY <1>1, <1>2, <1>3 DEF Pending
<1> QED BY <1>1, <1>2, <1>4, OnePending

\* A request that begins by reading.
LEMMA ReadingPending ==
    ASSUME SerialRequests, NEW w \in Clients, KV!BeginGet(w),
           NEW n \in Nonces, NEW ip \in IPs, NEW op \in {"read", "check", "leave"},
           job' = [job EXCEPT ![w] = [op |-> op, nonce |-> n, at |-> ip, row |-> NoSession]]
    PROVE  (\A d \in Clients : Pending(d)') /\ UNCHANGED db
<1> DEFINE j == [op |-> op, nonce |-> n, at |-> ip, row |-> NoSession]
<1>1. job'[w] = j
  BY DEF SerialRequests, Inv, OwnInv
<1>2. /\ call'[w].step # "write"
      /\ \A d \in Clients \ {w} : call'[d] = call[d]
      /\ UNCHANGED db
  BY StoreBegin, RowsOfOne DEF SerialRequests, Inv
<1>3. call'[w].step # "done"
  BY DEF KV!BeginGet, KV!Begin, SerialRequests, Inv, KV!TypeOK
<1>4. Pending(w)'
  BY <1>1, <1>2, <1>3 DEF Pending
<1> QED BY <1>2, <1>4, OnePending

LEMMA BeginPending ==
    ASSUME SerialRequests, NEW w \in Clients, Begin(w)
    PROVE  (\A d \in Clients : Pending(d)') /\ UNCHANGED db
<1>1. ASSUME NEW n \in Nonces, NEW ip \in IPs, LoginBeside(w, n, ip)
      PROVE  (\A d \in Clients : Pending(d)') /\ UNCHANGED db
  BY <1>1, ReadingPending DEF LoginBeside, Work
<1>2. ASSUME NEW n \in Nonces, NEW ip \in IPs, Check(w, n, ip) \/ Logout(w, n, ip)
      PROVE  (\A d \in Clients : Pending(d)') /\ UNCHANGED db
  BY <1>2, ReadingPending DEF Check, Logout, Receive
<1>3. CASE Dismiss(w)
  <2> DEFINE j == [op |-> "logout", nonce |-> 0, at |-> Any, row |-> NoSession]
  <2>1. job' = [job EXCEPT ![w] = j] /\ job'[w] = j
    BY <1>3 DEF Dismiss, Work, SerialRequests, Inv, OwnInv
  <2>2. /\ call'[w].val = NoSession
        /\ \A d \in Clients \ {w} : call'[d] = call[d]
        /\ UNCHANGED db
    BY <1>3, StoreBegin, RowsOfOne DEF Dismiss, SerialRequests, Inv
  <2>3. Pending(w)'
    BY <2>1, <2>2 DEF Pending
  <2> QED BY <2>1, <2>2, <2>3, OnePending
<1> QED BY <1>1, <1>2, <1>3, LoginAlonePending DEF Begin

LEMMA MergePending ==
    ASSUME SerialRequests, NEW w \in Clients, Merge(w)
    PROVE  (\A d \in Clients : Pending(d)') /\ UNCHANGED db
<1>1. Got(w, "read", "done") /\ KV!Return(w)
  BY DEF Merge
<1>2. PICK K \in Trimmed(DOMAIN Entries(call[w].val) \union {job[w].at}) :
        Work(w, "save", job[w].nonce, job[w].at,
             [k \in K |-> IF k = job[w].at THEN job[w].nonce
                          ELSE Entries(call[w].val)[k]])
  BY DEF Merge
<1> DEFINE row == [k \in K |-> IF k = job[w].at THEN job[w].nonce
                               ELSE Entries(call[w].val)[k]]
           j == [op |-> "save", nonce |-> job[w].nonce, at |-> job[w].at, row |-> row]
<1>3. call[w].val = db
  BY <1>1 DEF Got, SerialRequests, Pending
<1>4. row # Nothing
  BY <1>1, MergedRow, SNStoreAssumption DEF SerialRequests
<1>5. job[w].at \in IPs /\ db \in SessionRows \union {Nothing}
  BY <1>1 DEF Got, SerialRequests, Inv, OwnInv, Knows, KV!TypeOK, KV!Maybe
<1>6. Signs(job[w].nonce, job[w].at, row)
  BY <1>3, <1>4, <1>5, MergeSigns
<1> HIDE DEF row
<1>7. job' = [job EXCEPT ![w] = j] /\ job'[w] = j
  BY <1>2 DEF Work, row, SerialRequests, Inv, OwnInv
<1>8. /\ call'[w].step = "idle" /\ \A d \in Clients \ {w} : call'[d] = call[d]
      /\ UNCHANGED db
  BY <1>1, StoreReturn DEF SerialRequests, Inv
<1>9. Signs(job[w].nonce, job[w].at, job[w].row)'
  BY <1>6, <1>7, <1>8 DEF Signs, After, Live
<1>10. Pending(w)'
  BY <1>7, <1>8, <1>9 DEF Pending
<1> QED BY <1>7, <1>8, <1>10, OnePending

LEMMA SavePending ==
    ASSUME SerialRequests, NEW w \in Clients, Save(w)
    PROVE  (\A d \in Clients : Pending(d)') /\ UNCHANGED db
<1> DEFINE j == [op |-> "login", nonce |-> job[w].nonce, at |-> job[w].at,
                 row |-> job[w].row]
<1>1. job[w].row \in SessionRows /\ Signs(job[w].nonce, job[w].at, job[w].row)
  BY DEF Save, SerialRequests, Pending, Inv, OwnInv, Job
<1>2. job' = [job EXCEPT ![w] = j] /\ job'[w] = j
  BY DEF Save, Goto, Work, SerialRequests, Inv, OwnInv
<1>3. /\ call'[w].val = job[w].row
      /\ \A d \in Clients \ {w} : call'[d] = call[d]
      /\ UNCHANGED db
  BY <1>1, StoreBegin DEF Save, SerialRequests, Inv
<1>4. Signs(job[w].nonce, job[w].at, call[w].val)'
  BY <1>1, <1>2, <1>3 DEF Signs, After, Live
<1>5. Pending(w)'
  BY <1>2, <1>4 DEF Pending
<1> QED BY <1>2, <1>3, <1>5, OnePending

LEMMA ClearPending ==
    ASSUME SerialRequests, NEW w \in Clients, ClearSession(w)
    PROVE  (\A d \in Clients : Pending(d)') /\ UNCHANGED db
<1> DEFINE j == [op |-> "logout", nonce |-> job[w].nonce, at |-> job[w].at,
                 row |-> job[w].row]
<1>1. job' = [job EXCEPT ![w] = j] /\ job'[w] = j
  BY DEF ClearSession, Goto, Work, SerialRequests, Inv, OwnInv
<1>2. /\ call'[w].val = NoSession
      /\ \A d \in Clients \ {w} : call'[d] = call[d]
      /\ UNCHANGED db
  BY StoreBegin, RowsOfOne DEF ClearSession, SerialRequests, Inv
<1>3. Pending(w)'
  BY <1>1, <1>2 DEF Pending
<1> QED BY <1>1, <1>2, <1>3, OnePending

\* A request that ends, or is answered.
LEMMA EndPending ==
    ASSUME SerialRequests, NEW w \in Clients,
           \/ Issue(w) \/ LoginFails(w) \/ LoggedOut(w)
           \/ Answered(w) \/ Verdict(w)
    PROVE  (\A d \in Clients : Pending(d)') /\ UNCHANGED db
<1>1. UNCHANGED db /\ \A d \in Clients \ {w} : call'[d] = call[d]
  <2>1. CASE KV!Return(w)
    BY <2>1, StoreReturn DEF SerialRequests, Inv
  <2> QED BY <2>1 DEF Issue, LoginFails, LoggedOut, Answered, Verdict, Respond
<1>2. CASE Issue(w) \/ LoginFails(w) \/ LoggedOut(w) \/ Answered(w)
  <2>1. job' = [job EXCEPT ![w] = NoJob] /\ job'[w] = NoJob
    BY <1>2 DEF Issue, LoginFails, LoggedOut, Answered, End, SerialRequests, Inv, OwnInv
  <2>2. Pending(w)'
    BY <2>1 DEF Pending, NoJob
  <2> QED BY <1>1, <2>1, <2>2, OnePending
<1>3. CASE Verdict(w)
  <2> DEFINE op == IF Accepts(call[w].val, job[w].nonce, job[w].at)
                   THEN (IF job[w].op = "check" THEN "in" ELSE "clear") ELSE "out"
             j == [op |-> op, nonce |-> job[w].nonce, at |-> job[w].at,
                   row |-> NoSession]
  <2>1. op \in {"in", "out", "clear"}
    OBVIOUS
  <2>2. job[w].nonce \in Nonces /\ job[w].at \in IPs
    BY <1>3 DEF Verdict, Got, SerialRequests, Pending
  <2> HIDE DEF op
  <2>3. job' = [job EXCEPT ![w] = j] /\ job'[w] = j
    BY <1>3 DEF Verdict, Respond, op, SerialRequests, Inv, OwnInv
  <2>4. Pending(w)'
    BY <2>1, <2>2, <2>3 DEF Pending
  <2> QED BY <1>1, <2>3, <2>4, OnePending
<1> QED BY <1>2, <1>3

\* A request whose call is under way is the only one.
LEMMA OnlyRequest ==
    ASSUME SerialRequests, NEW w \in Clients, job[w].op # "idle"
    PROVE  \A d \in Clients \ {w} : job[d].op = "idle"
  BY DEF SerialRequests, OneAtATime

\* A call that is under way was made by a request.
LEMMA CallOfRequest ==
    ASSUME SerialRequests, NEW w \in Clients, call[w].step # "idle"
    PROVE  /\ call[w].op = "get" => job[w].op \in {"read", "check", "leave"}
           /\ call[w].op = "set" => job[w].op \in {"login", "logout"}
           /\ call[w].op \in {"get", "set"}
  BY DEF SerialRequests, Inv, OwnInv, Waits, KV!TypeOK, KV!Call

LEMMA StepPending ==
    ASSUME SerialRequests, NEW w \in Clients, KV!Step(w), serial',
           UNCHANGED <<job, sessions>>
    PROVE  \A d \in Clients : Pending(d)'
<1>1. /\ call[w].step # "idle" /\ call'[w].step \notin {"idle", "write"}
      /\ call'[w].op = call[w].op
  BY StoreStep DEF SerialRequests, Inv
<1>2. /\ db' = IF call[w].step = "write" THEN call[w].val ELSE db
      /\ call[w].op = "get" /\ call'[w].step = "done" => call'[w].val = db
  BY SerialStep DEF SerialRequests, Inv
<1>3. \A d \in Clients \ {w} : job'[d].op = "idle"
  BY <1>1, CallOfRequest, OnlyRequest
<1>4. \A d \in Clients \ {w} : Pending(d)'
  BY <1>3 DEF Pending
<1>5. CASE call[w].op = "get"
  <2>1. job[w].op \in {"read", "check", "leave"} /\ Pending(w)
    BY <1>1, <1>5, CallOfRequest DEF SerialRequests
  <2>2. db' = db
    BY <1>2, <2>1 DEF Pending
  <2>3. Pending(w)'
    BY <1>1, <1>2, <1>5, <2>1, <2>2 DEF Pending
  <2> QED BY <1>4, <2>3
<1>6. CASE call[w].op = "set"
  <2>1. job[w].op \in {"login", "logout"}
    BY <1>1, <1>6, CallOfRequest
  <2>2. Pending(w)'
    BY <1>1, <2>1 DEF Pending
  <2> QED BY <1>4, <2>2
<1> QED BY <1>1, <1>5, <1>6, CallOfRequest

LEMMA EnvironmentPending ==
    ASSUME SerialRequests, KV!Environment, serial', UNCHANGED <<job, sessions>>
    PROVE  (\A d \in Clients : Pending(d)') /\ UNCHANGED db
<1>1. UNCHANGED db
  BY SerialEnvironment
<1>2. \A d \in Clients : /\ call'[d].step = call[d].step
                         /\ call'[d].val = call[d].val
  BY StoreEnvironment DEF SerialRequests, Inv
<1> QED BY <1>1, <1>2, OtherPending DEF SerialRequests

LEMMA PasswordPending ==
    ASSUME SerialRequests, PasswordStep
    PROVE  (\A d \in Clients : Pending(d)') /\ UNCHANGED db
<1>1. UNCHANGED <<db, job, call>>
  BY DEF PasswordStep
<1> QED BY <1>1, OtherPending DEF SerialRequests

\* The steps of SerialSpec.
SerialNext == Next /\ serial' /\ OneAtATime'

LEMMA SerialInit == Init => SerialRequests
<1> SUFFICES ASSUME Init PROVE SerialRequests
  OBVIOUS
<1>1. Inv
  BY InitInv
<1>2. KVP!SerialInv
  BY SameInit, StoreAssumptions, KVP!InitSerial DEF Init
<1>3. \A w \in Clients : job[w].op = "idle"
  BY DEF Init, NoJob
<1> QED BY <1>1, <1>2, <1>3, IdlePending DEF SerialRequests, OneAtATime

LEMMA SerialKept == SerialRequests /\ [SerialNext]_vars => SerialRequests'
<1> SUFFICES ASSUME SerialRequests, [SerialNext]_vars PROVE SerialRequests'
  OBVIOUS
<1>1. Inv'
  BY NextInv DEF SerialRequests, SerialNext
<1>2. KVP!SerialInv'
  <2>1. \A w \in Clients : job[w].row \in SessionRows
    BY DEF SerialRequests, Inv, OwnInv, Job
  <2>2. [KVP!Next]_(KVP!vars)
    <3>1. CASE UNCHANGED vars
      BY <3>1 DEF vars, KVP!vars
    <3> QED BY <2>1, <3>1, StoreNext DEF SerialNext
  <2>3. KVP!TypeOK
    BY SameTypes DEF SerialRequests, Inv
  <2> QED BY <2>2, <2>3, StoreAssumptions, KVP!NextSerial DEF SerialRequests
<1>3. OneAtATime'
  <2>1. CASE UNCHANGED vars
    BY <2>1 DEF vars, SerialRequests, OneAtATime
  <2> QED BY <2>1 DEF SerialNext
<1>4. \A d \in Clients : Pending(d)'
  <2>1. ASSUME NEW w \in Clients, Continue(w), serial'
        PROVE  \A d \in Clients : Pending(d)'
    BY <2>1, StepPending, MergePending, SavePending, ClearPending, EndPending
       DEF Continue
  <2>2. CASE UNCHANGED vars
    <3>1. UNCHANGED <<db, job, call>>
      BY <2>2 DEF vars
    <3> QED BY <3>1, OtherPending DEF SerialRequests
  <2> QED BY <2>1, <2>2, BeginPending, PasswordPending, EnvironmentPending
          DEF SerialNext, Next
<1> QED BY <1>1, <1>2, <1>3, <1>4 DEF SerialRequests

-----------------------------------------------------------------------------
(* The steps of the table *)

\* What the table sees of a request.
Reply(w) ==
    IF job[w].op \in {"in", "out"}
    THEN {[nonce |-> job[w].nonce, at |-> job[w].at, accepted |-> job[w].op = "in"]}
    ELSE {}

Replies == [w \in Clients |-> Reply(w)]

\* The row stays, and so does every answer.
LEMMA Stutters ==
    ASSUME UNCHANGED db, \A w \in Clients : Reply(w)' = Reply(w)
    PROVE  UNCHANGED Table!tableVars
  BY DEF Table!tableVars, Live, Reply

\* The table counts as its user does.
LEMMA SameCardinality == ASSUME NEW S PROVE Table!Cardinality(S) = Cardinality(S)
  BY DEF Table!Cardinality, Cardinality

\* A login's write is its sign-in, a logout's write the end of every session.
LEMMA WriteMaps ==
    ASSUME SerialRequests, NEW w \in Clients, call[w].step = "write",
           db' = call[w].val, UNCHANGED job
    PROVE  Table!TableNext
<1>1. call[w].op = "set" /\ job[w].op \in {"login", "logout"}
  BY CallOfRequest DEF SerialRequests, Pending
<1>2. CASE job[w].op = "login"
  <2> DEFINE n == job[w].nonce
             at == job[w].at
  <2>1. Signs(n, at, call[w].val)
    BY <1>2 DEF SerialRequests, Pending
  <2>2. n \in Nonces /\ at \in IPs \union {Any}
    <3>1. job[w].nonce \in 1..drawn /\ drawn \in 0..MaxNonces /\ job[w] \in Job
      BY <1>2 DEF SerialRequests, Inv, OwnInv, Knows, HistoryType
    <3> QED BY <3>1, SNBoundsAssumption DEF Nonces, Job, Places
  <2>3. Live(db)' = Live(call[w].val)
    BY DEF Live
  <2>4. /\ Live(db)' \in SUBSET After(n, at)
        /\ IF Cardinality(After(n, at)) <= MaxIPs
           THEN Live(db)' = After(n, at)
           ELSE Cardinality(Live(db)') = MaxIPs
    BY <2>1, <2>3 DEF Signs
  <2>5. Table!SignIn(n, at)
    BY <2>4, SameCardinality DEF Table!SignIn, After
  <2> QED BY <2>2, <2>5 DEF Table!TableNext
<1>3. CASE job[w].op = "logout"
  <2>1. Live(db)' = {}
    BY <1>3, LiveNone DEF SerialRequests, Pending, Live
  <2>2. Table!SignOut
    BY <2>1 DEF Table!SignOut
  <2> QED BY <2>2 DEF Table!TableNext
<1> QED BY <1>1, <1>2, <1>3

\* A cookie is accepted exactly when its login is in force.
LEMMA AcceptsInForce ==
    ASSUME NEW n, NEW ip
    PROVE  Accepts(db, n, ip) <=> Table!InForce(n, ip)
<1>1. CASE db = Nothing
  BY <1>1 DEF Accepts, Table!InForce, Live
<1>2. CASE db # Nothing
  <2>1. Accepts(db, n, ip) <=> \E k \in DOMAIN db : k \in {Any, ip} /\ db[k] = n
    BY <1>2 DEF Accepts
  <2>2. Live(db) = {[nonce |-> db[k], at |-> k] : k \in DOMAIN db}
    BY <1>2 DEF Live
  <2>3. Table!InForce(n, ip) <=> \E l \in Live(db) : l.nonce = n /\ l.at \in {Any, ip}
    BY DEF Table!InForce
  <2>4. ASSUME NEW l \in Live(db), l.nonce = n, l.at \in {Any, ip}
        PROVE  Accepts(db, n, ip)
    <3>1. PICK k \in DOMAIN db : l = [nonce |-> db[k], at |-> k]
      BY <2>2
    <3> QED BY <2>1, <2>4, <3>1
  <2>5. ASSUME NEW k \in DOMAIN db, k \in {Any, ip}, db[k] = n
        PROVE  Table!InForce(n, ip)
    <3>1. [nonce |-> db[k], at |-> k] \in Live(db)
      BY <2>2
    <3>2. [nonce |-> db[k], at |-> k].nonce = n /\ [nonce |-> db[k], at |-> k].at = k
      BY <2>5
    <3> QED BY <2>3, <2>5, <3>1, <3>2
  <2> QED BY <2>1, <2>3, <2>4, <2>5
<1> QED BY <1>1, <1>2

\* One request gets an answer, or none.
LEMMA RepliesChange ==
    ASSUME SerialRequests, NEW w \in Clients, NEW j, job' = [job EXCEPT ![w] = j]
    PROVE  /\ job'[w] = j
           /\ \A d \in Clients \ {w} : Reply(d)' = Reply(d)
           /\ Replies' = [Replies EXCEPT ![w] = Reply(w)']
<1>1. job'[w] = j /\ \A d \in Clients \ {w} : job'[d] = job[d]
  BY DEF SerialRequests, Inv, OwnInv
<1>2. \A d \in Clients \ {w} : Reply(d)' = Reply(d)
  BY <1>1 DEF Reply
<1> QED BY <1>1, <1>2 DEF Replies

\* The verdict on a cookie is an answer of the table, unless it lets a logout go on.
LEMMA VerdictMaps ==
    ASSUME SerialRequests, NEW w \in Clients, Verdict(w)
    PROVE  [Table!TableNext]_(Table!tableVars)
<1> DEFINE n == job[w].nonce
           ip == job[w].at
           op == IF Accepts(call[w].val, n, ip)
                 THEN (IF job[w].op = "check" THEN "in" ELSE "clear") ELSE "out"
           j == [op |-> op, nonce |-> n, at |-> ip, row |-> NoSession]
<1>1. /\ job[w].op \in {"check", "leave"} /\ call[w].val = db
      /\ n \in Nonces /\ ip \in IPs
  BY DEF Verdict, Got, SerialRequests, Pending
<1>2. UNCHANGED db
  BY EndPending
<1>3. job' = [job EXCEPT ![w] = j]
  BY DEF Verdict, Respond
<1>4. /\ job'[w] = j
      /\ \A d \in Clients \ {w} : Reply(d)' = Reply(d)
      /\ Replies' = [Replies EXCEPT ![w] = Reply(w)']
  BY <1>3, RepliesChange
<1>5. Reply(w) = {}
  BY <1>1 DEF Reply
<1>6. /\ op \in {"in", "out", "clear"}
      /\ op = "in" => Table!InForce(n, ip)
      /\ op = "out" => ~Table!InForce(n, ip)
  BY <1>1, AcceptsInForce
<1> HIDE DEF op
<1>7. CASE op = "clear"
  <2>1. Reply(w)' = {}
    BY <1>4, <1>7 DEF Reply
  <2>2. \A d \in Clients : Reply(d)' = Reply(d)
    BY <1>4, <1>5, <2>1
  <2> QED BY <1>2, <2>2, Stutters
<1>8. CASE op \in {"in", "out"}
  <2>1. Reply(w)' = {[nonce |-> n, at |-> ip, accepted |-> op = "in"]}
    BY <1>4, <1>8 DEF Reply
  <2>2. Reply(w)' = {[nonce |-> n, at |-> ip, accepted |-> Table!InForce(n, ip)]}
    <3>1. (op = "in") = Table!InForce(n, ip)
      BY <1>6, <1>8 DEF Table!InForce
    <3> QED BY <2>1, <3>1
  <2>3. Live(db)' = Live(db)
    BY <1>2 DEF Live
  <2>4. PICK m \in Nonces, a \in IPs : m = n /\ a = ip
    BY <1>1
  <2>5. Table!Respond(w, m, a)
    <3>1. Table!InForce(n, ip) = Table!InForce(m, a)
      BY <2>4 DEF Table!InForce
    <3>2. Reply(w)' = {[nonce |-> m, at |-> a, accepted |-> Table!InForce(m, a)]}
      BY <2>2, <2>4, <3>1
    <3> QED BY <1>4, <1>5, <3>2, <2>3 DEF Table!Respond, Replies, Reply
  <2>6. Table!TableNext
    BY <2>5 DEF Table!TableNext
  <2> QED BY <2>6
<1> QED BY <1>6, <1>7, <1>8

\* An answer that has been sent is taken back.
LEMMA AnsweredMaps ==
    ASSUME SerialRequests, NEW w \in Clients, Answered(w)
    PROVE  Table!TableNext
<1>1. job' = [job EXCEPT ![w] = NoJob] /\ job[w].op \in {"in", "out"} /\ UNCHANGED db
  BY DEF Answered, End
<1>2. /\ job'[w] = NoJob
      /\ Replies' = [Replies EXCEPT ![w] = Reply(w)']
  BY <1>1, RepliesChange
<1>3. Reply(w) # {} /\ Reply(w)' = {}
  <2>1. Reply(w) # {}
    BY <1>1 DEF Reply
  <2>2. job'[w].op = "idle"
    BY <1>2 DEF NoJob
  <2>3. Reply(w)' = {}
    BY <2>2 DEF Reply
  <2> QED BY <2>1, <2>3
<1>4. Live(db)' = Live(db)
  BY <1>1 DEF Live
<1>5. Table!Dismiss(w)
  BY <1>2, <1>3, <1>4 DEF Table!Dismiss, Replies, Reply
<1> QED BY <1>5 DEF Table!TableNext

\* Steps of a request before and after that show the table nothing.
LEMMA QuietMaps ==
    ASSUME SerialRequests, NEW w \in Clients, UNCHANGED db, NEW j,
           job' = [job EXCEPT ![w] = j],
           job[w].op \notin {"in", "out"}, j.op \notin {"in", "out"}
    PROVE  UNCHANGED Table!tableVars
<1>1. job'[w] = j /\ \A d \in Clients \ {w} : Reply(d)' = Reply(d)
  BY RepliesChange
<1>2. Reply(w)' = Reply(w)
  BY <1>1 DEF Reply
<1> QED BY <1>1, <1>2, Stutters

LEMMA BeginMaps ==
    ASSUME SerialRequests, NEW w \in Clients, Begin(w)
    PROVE  UNCHANGED Table!tableVars
<1>1. UNCHANGED db
  BY BeginPending
<1>2. job[w].op = "idle"
  BY DEF Begin, LoginAlone, LoginBeside, Check, Logout, Receive, Dismiss
<1>3. ASSUME NEW n \in Nonces, LoginAlone(w, n)
      PROVE  UNCHANGED Table!tableVars
  BY <1>1, <1>2, <1>3, QuietMaps DEF LoginAlone, Work
<1>4. ASSUME NEW n \in Nonces, NEW ip \in IPs, LoginBeside(w, n, ip)
      PROVE  UNCHANGED Table!tableVars
  BY <1>1, <1>2, <1>4, QuietMaps DEF LoginBeside, Work
<1>5. ASSUME NEW n \in Nonces, NEW ip \in IPs, Check(w, n, ip) \/ Logout(w, n, ip)
      PROVE  UNCHANGED Table!tableVars
  BY <1>1, <1>2, <1>5, QuietMaps DEF Check, Logout, Receive
<1>6. CASE Dismiss(w)
  BY <1>1, <1>2, <1>6, QuietMaps DEF Dismiss, Work
<1> QED BY <1>3, <1>4, <1>5, <1>6 DEF Begin

LEMMA ContinueMaps ==
    ASSUME SerialRequests, NEW w \in Clients, Continue(w), serial'
    PROVE  [Table!TableNext]_(Table!tableVars)
<1>1. CASE KV!Step(w) /\ UNCHANGED <<job, sessions>>
  <2>1. db' = IF call[w].step = "write" THEN call[w].val ELSE db
    BY <1>1, SerialStep DEF SerialRequests, Inv
  <2>2. CASE call[w].step = "write"
    BY <1>1, <2>1, <2>2, WriteMaps
  <2>3. CASE call[w].step # "write"
    BY <1>1, <2>1, <2>3, Stutters DEF Reply
  <2> QED BY <2>2, <2>3
<1>2. CASE Merge(w)
  <2>1. UNCHANGED db /\ job[w].op = "read"
    BY <1>2, MergePending DEF Merge, Got
  <2>2. \E row : job' = [job EXCEPT ![w] =
                    [op |-> "save", nonce |-> job[w].nonce, at |-> job[w].at, row |-> row]]
    BY <1>2 DEF Merge, Work
  <2> QED BY <2>1, <2>2, QuietMaps
<1>3. CASE Save(w)
  BY <1>3, SavePending, QuietMaps DEF Save, Goto, Work
<1>4. CASE ClearSession(w)
  BY <1>4, ClearPending, QuietMaps DEF ClearSession, Goto, Work
<1>5. CASE Issue(w) \/ LoginFails(w) \/ LoggedOut(w)
  <2>1. UNCHANGED db /\ job' = [job EXCEPT ![w] = NoJob]
    BY <1>5, EndPending DEF Issue, LoginFails, LoggedOut, End
  <2>2. job[w].op \in {"login", "logout"} /\ NoJob.op = "idle"
    BY <1>5 DEF Issue, LoginFails, LoggedOut, Got, NoJob
  <2> QED BY <2>1, <2>2, QuietMaps
<1> QED BY <1>1, <1>2, <1>3, <1>4, <1>5, VerdictMaps, AnsweredMaps DEF Continue

LEMMA NextMaps ==
    SerialRequests /\ [SerialNext]_vars => [Table!TableNext]_(Table!tableVars)
<1> SUFFICES ASSUME SerialRequests, [SerialNext]_vars
             PROVE  [Table!TableNext]_(Table!tableVars)
  OBVIOUS
<1>1. CASE UNCHANGED vars
  <2>1. UNCHANGED <<db, job>>
    BY <1>1 DEF vars
  <2> QED BY <2>1, Stutters DEF Reply
<1>2. CASE PasswordStep
  BY <1>2, Stutters DEF PasswordStep, Reply
<1>3. ASSUME KV!Environment, serial', UNCHANGED <<job, sessions>>
      PROVE  UNCHANGED Table!tableVars
  BY <1>3, SerialEnvironment, Stutters DEF Reply
<1> QED BY <1>1, <1>2, <1>3, BeginMaps, ContinueMaps DEF SerialNext, Next

LEMMA InitMaps == Init => Table!TableInit
<1> SUFFICES ASSUME Init PROVE Table!TableInit
  OBVIOUS
<1>1. Live(db) = {}
  BY LiveNone DEF Init, KV!Init
<1>2. \A w \in Clients : job[w].op = "idle"
  BY DEF Init, NoJob
<1> QED BY <1>1, <1>2 DEF Table!TableInit

\* Requests that come one at a time, with nothing failing, see the table of
\* SessionTable: a login ends the sessions it should and no other, a logout ends all,
\* and a cookie is accepted exactly while its login is in force.
THEOREM TableServed == SerialSpec => ServesTable
<1>1. SerialSpec <=> Init /\ [][SerialNext]_vars
  BY DEF SerialSpec, SerialNext
<1> QED BY <1>1, SerialInit, SerialKept, InitMaps, NextMaps, PTL
        DEF ServesTable, Table!TableSpec
=============================================================================
