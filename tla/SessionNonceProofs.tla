-------------------------- MODULE SessionNonceProofs --------------------------
(* Proofs about SessionNonce: its steps on the store are steps of PlatformKV,  *)
(* so that what PlatformKVProofs proves of the store can be used here.         *)
EXTENDS SessionNonce, TLAPS, FiniteSetTheorems

KVP == INSTANCE PlatformKVProofs
         WITH Values <- SessionRows, Empty <- NoSession, Large <- {}

-----------------------------------------------------------------------------
(* Rows *)

\* No session is a row, and so is a single nonce.
LEMMA RowsOfOne ==
    /\ NoSession \in SessionRows
    /\ \A n \in Nonces : [k \in {Any} |-> n] \in SessionRows
<1>1. {} \in RowDomains
  <2>1. Cardinality({}) = 0
    BY FS_EmptySet
  <2>2. 0 \in 0..MaxIPs
    BY SNBoundsAssumption
  <2> QED BY <2>1, <2>2 DEF RowDomains
<1>2. NoSession \in [{} -> Nonces]
  BY DEF NoSession
<1>3. {Any} \in RowDomains
  BY DEF RowDomains
<1>4. \A n \in Nonces : [k \in {Any} |-> n] \in [{Any} -> Nonces]
  OBVIOUS
<1> QED BY <1>1, <1>2, <1>3, <1>4 DEF SessionRows

\* What may be kept of a set of addresses is the domain of a row.
LEMMA TrimmedRows ==
    ASSUME NEW K \in SUBSET IPs, NEW L \in Trimmed(K)
    PROVE  L \in RowDomains /\ L \subseteq K
<1>1. L \subseteq K
  BY DEF Trimmed
<1>2. IsFiniteSet(L)
  BY <1>1, FS_Subset, SNAddressesAssumption
<1>3. Cardinality(L) \in Nat
  BY <1>2, FS_CardinalityType
<1>4. Cardinality(L) <= MaxIPs
  <2>1. MaxIPs <= MaxIPs
    BY SNBoundsAssumption
  <2> QED BY <2>1 DEF Trimmed
<1>5. Cardinality(L) \in 0..MaxIPs
  BY <1>3, <1>4, SNBoundsAssumption
<1> QED BY <1>1, <1>5 DEF RowDomains

-----------------------------------------------------------------------------
(* The store *)

\* The assumptions of PlatformKV hold of its instance.
LEMMA StoreAssumptions ==
    /\ PodOf \in [Clients -> Pods]
    /\ NoSession \in SessionRows /\ {} \subseteq SessionRows \ {NoSession}
    /\ Nothing \notin SessionRows
    /\ MaxFaults \in Nat
  BY RowsOfOne, SNStoreAssumption

USE DEF KV!data, KVP!data, KV!Fault, KVP!Fault, KV!NoFault, KVP!NoFault

\* The instance of PlatformKVProofs speaks of the same store as that of
\* SessionNonce, action by action.
LEMMA SameInit == KV!Init => KVP!Init
  BY DEF KV!Init, KVP!Init, KV!NoCall, KVP!NoCall, KV!Connected, KVP!Connected,
         KV!OnFile, KVP!OnFile

LEMMA SameTypes == KV!TypeOK <=> KVP!TypeOK
  BY DEF KV!TypeOK, KVP!TypeOK, KV!Maybe, KVP!Maybe, KV!File, KVP!File, KV!Wiring, KVP!Wiring,
         KV!Call, KVP!Call

LEMMA SameBegin ==
    ASSUME NEW w \in Clients
    PROVE  /\ KV!BeginGet(w) => KVP!BeginGet(w)
           /\ \A v : KV!BeginSet(w, v) => KVP!BeginSet(w, v)
           /\ KV!Return(w) => KVP!Return(w)
  BY DEF KV!BeginGet, KVP!BeginGet, KV!BeginSet, KVP!BeginSet, KV!Begin, KVP!Begin,
         KV!Quiet, KVP!Quiet, KV!Active, KVP!Active, KV!Return, KVP!Return,
         KV!NoCall, KVP!NoCall

LEMMA SameStep ==
    ASSUME NEW w \in Clients, KV!Step(w)
    PROVE  KVP!Step(w)
<1> USE DEF KV!Answer, KVP!Answer, KV!Goto, KVP!Goto, KV!NoRows, KVP!NoRows
<1>1. KV!Look(w) => KVP!Look(w)
  BY DEF KV!Look, KVP!Look
<1>2. KV!Read(w) => KVP!Read(w)
  BY DEF KV!Read, KVP!Read, KV!Contents, KVP!Contents
<1>3. KV!Fill(w) => KVP!Fill(w)
  BY DEF KV!Fill, KVP!Fill
<1>4. KV!Write(w) => KVP!Write(w)
  BY DEF KV!Write, KVP!Write, KV!Store, KVP!Store, KV!Unsaved, KVP!Unsaved
<1>5. KV!Cache(w) => KVP!Cache(w)
  BY DEF KV!Cache, KVP!Cache
<1> QED BY <1>1, <1>2, <1>3, <1>4, <1>5 DEF KV!Step, KVP!Step

LEMMA SameEnvironment == KV!Environment => KVP!Environment
<1> USE DEF KV!Rewire, KVP!Rewire, KV!Quiet, KVP!Quiet, KV!Active, KVP!Active,
            KV!Contents, KVP!Contents, KV!Backup, KVP!Backup
<1>1. KV!Expire => KVP!Expire
  BY DEF KV!Expire, KVP!Expire
<1>2. ASSUME NEW p \in Pods
      PROVE  /\ KV!Reload(p) => KVP!Reload(p)
             /\ KV!ReloadWithoutRedis(p) => KVP!ReloadWithoutRedis(p)
             /\ KV!ReloadUnlisted(p) => KVP!ReloadUnlisted(p)
             /\ KV!ReloadOnFile(p) => KVP!ReloadOnFile(p)
             /\ KV!Reconnect(p) => KVP!Reconnect(p)
             /\ KV!Mirror(p) => KVP!Mirror(p)
             /\ KV!SaveOther(p) => KVP!SaveOther(p)
  BY DEF KV!Reload, KVP!Reload, KV!ReloadWithoutRedis, KVP!ReloadWithoutRedis,
         KV!ReloadUnlisted, KVP!ReloadUnlisted, KV!ReloadOnFile, KVP!ReloadOnFile,
         KV!Opened, KVP!Opened, KV!Reconnect, KVP!Reconnect, KV!Mirror, KVP!Mirror,
         KV!SaveOther, KVP!SaveOther
<1> QED BY <1>1, <1>2 DEF KV!Environment, KVP!Environment

\* Every step of SessionNonce is one of the store, or leaves it alone.
LEMMA StoreNext ==
    ASSUME Next, \A w \in Clients : job[w].row \in SessionRows
    PROVE  [KVP!Next]_(KVP!vars)
<1>b. ASSUME NEW w \in Clients, KV!BeginGet(w) PROVE KVP!Next
  BY <1>b, SameBegin DEF KVP!Next
<1>s. ASSUME NEW w \in Clients, NEW v \in SessionRows, KV!BeginSet(w, v) PROVE KVP!Next
  BY <1>s, SameBegin DEF KVP!Next
<1>r. ASSUME NEW w \in Clients, KV!Return(w) PROVE KVP!Next
  BY <1>r, SameBegin DEF KVP!Next
<1>u. ASSUME UNCHANGED <<db, file, hot, mirror, wiring, call, faults, stored, serial>>
      PROVE  UNCHANGED KVP!vars
  BY <1>u DEF KVP!vars
<1>1. ASSUME NEW w \in Clients, Begin(w) PROVE KVP!Next
  <2>1. ASSUME NEW n \in Nonces, LoginAlone(w, n) PROVE KVP!Next
    BY <2>1, <1>s, RowsOfOne DEF LoginAlone
  <2>2. ASSUME NEW n \in Nonces, NEW ip \in IPs,
               LoginBeside(w, n, ip) \/ Check(w, n, ip) \/ Logout(w, n, ip)
        PROVE  KVP!Next
    BY <2>2, <1>b DEF LoginBeside, Check, Logout, Receive
  <2>3. ASSUME Dismiss(w) PROVE KVP!Next
    BY <2>3, <1>s, RowsOfOne DEF Dismiss
  <2> QED BY <1>1, <2>1, <2>2, <2>3 DEF Begin
<1>2. ASSUME NEW w \in Clients, Continue(w) PROVE [KVP!Next]_(KVP!vars)
  <2>1. CASE KV!Step(w)
    BY <2>1, SameStep DEF KVP!Next
  <2>2. CASE Merge(w) \/ Issue(w) \/ LoginFails(w) \/ Verdict(w) \/ LoggedOut(w)
    BY <2>2, <1>r DEF Merge, Issue, LoginFails, Verdict, Respond, LoggedOut
  <2>3. CASE Save(w)
    BY <2>3, <1>s DEF Save
  <2>4. CASE ClearSession(w)
    BY <2>4, <1>s, RowsOfOne DEF ClearSession
  <2>5. CASE Answered(w)
    BY <2>5, <1>u DEF Answered
  <2> QED BY <1>2, <2>1, <2>2, <2>3, <2>4, <2>5 DEF Continue
<1>3. CASE PasswordStep
  BY <1>3, <1>u DEF PasswordStep
<1>4. CASE KV!Environment
  BY <1>4, SameEnvironment DEF KVP!Next
<1> QED BY <1>1, <1>2, <1>3, <1>4 DEF Next

-----------------------------------------------------------------------------
(* What the steps of the store mean for a request *)

\* A call begins, ends, or goes on; only a Set brings in a value.
LEMMA StoreBegin ==
    ASSUME KV!TypeOK, NEW w \in Clients,
           NEW op \in {"get", "set"}, NEW v \in SessionRows,
           op = "get" => KV!BeginGet(w),
           op = "set" => KV!BeginSet(w, v)
    PROVE  /\ call[w].step = "idle"
           /\ call'[w].op = op /\ call'[w].step # "idle"
           /\ op = "get" => call'[w].step # "write"
           /\ op = "set" => call'[w].val = v
           /\ \A d \in Clients \ {w} : call'[d] = call[d]
           /\ UNCHANGED <<stored, db>>
  BY DEF KV!BeginGet, KV!BeginSet, KV!Begin, KV!TypeOK, KV!Call

LEMMA StoreReturn ==
    ASSUME KV!TypeOK, NEW w \in Clients, KV!Return(w)
    PROVE  /\ call[w].step # "idle" /\ call'[w].step = "idle"
           /\ \A d \in Clients \ {w} : call'[d] = call[d]
           /\ UNCHANGED <<stored, db>>
  BY DEF KV!Return, KV!TypeOK, KV!Call, KV!NoCall

LEMMA StoreStep ==
    ASSUME KV!TypeOK, NEW w \in Clients, KV!Step(w)
    PROVE  /\ call[w].step # "idle" /\ call'[w].step \notin {"idle", "write"}
           /\ call'[w].op = call[w].op
           /\ \A d \in Clients \ {w} : call'[d] = call[d]
           /\ \A v \in stored' : v \in stored \/ (call[w].step = "write" /\ v = call[w].val)
<1>t. KVP!TypeOK /\ KVP!Step(w)
  BY SameTypes, SameStep
<1>a. ASSUME NEW step, NEW v, KVP!Answer(w, step, v)
      PROVE  /\ call'[w].op = call[w].op
             /\ call'[w].step = step
             /\ \A d \in Clients \ {w} : call'[d] = call[d]
  BY <1>t, <1>a, StoreAssumptions, KVP!AnswerFacts
<1>1. CASE KVP!Look(w)
  BY <1>1, <1>a DEF KVP!Look, KVP!Goto
<1>2. CASE KVP!Read(w)
  <2>1. \E step \in {"fill", "done"} : \E v : KVP!Answer(w, step, v)
    BY <1>2 DEF KVP!Read
  <2> QED BY <1>2, <2>1, <1>a DEF KVP!Read
<1>3. CASE KVP!Fill(w)
  BY <1>3, <1>a DEF KVP!Fill, KVP!Goto
<1>4. CASE KVP!Write(w)
  <2>1. \E step \in {"cache", "done", "failed"} : KVP!Answer(w, step, call[w].val)
    BY <1>4 DEF KVP!Write, KVP!Goto
  <2>2. stored' = stored \union {call[w].val} \/ stored' = stored
    BY <1>4 DEF KVP!Write
  <2>3. call[w].step = "write"
    BY <1>4 DEF KVP!Write
  <2> QED BY <2>1, <2>2, <2>3, <1>a
<1>5. CASE KVP!Cache(w)
  BY <1>5, <1>a DEF KVP!Cache, KVP!Goto
<1> QED BY <1>t, <1>1, <1>2, <1>3, <1>4, <1>5 DEF KVP!Step

LEMMA StoreEnvironment ==
    ASSUME KV!TypeOK, KV!Environment
    PROVE  /\ \A d \in Clients : /\ call'[d].op = call[d].op
                                 /\ call'[d].step = call[d].step
                                 /\ call'[d].val = call[d].val
           /\ UNCHANGED stored
<1>1. CASE UNCHANGED call /\ UNCHANGED stored
  BY <1>1
<1>2. ASSUME NEW p \in Pods, NEW s, NEW r, KV!Rewire(p, s, r)
      PROVE  \A d \in Clients : /\ call'[d].op = call[d].op
                                /\ call'[d].step = call[d].step
                                /\ call'[d].val = call[d].val
  BY <1>2 DEF KV!Rewire
<1> QED BY <1>1, <1>2 DEF KV!Environment, KV!Expire, KV!Reload, KV!ReloadWithoutRedis,
           KV!ReloadUnlisted, KV!ReloadOnFile, KV!Reconnect, KV!Mirror, KV!SaveOther

-----------------------------------------------------------------------------
(* Types, and where nonces come from *)

\* A login whose place and nonce are on record stands behind every entry.
Good(v) == \A k \in DOMAIN v : [nonce |-> v[k], at |-> k] \in logins

\* A request waits for the call it has made.
Waits(w) ==
    /\ job[w].op \in {"read", "check", "leave"} <=> call[w].step # "idle" /\ call[w].op = "get"
    /\ job[w].op \in {"login", "logout"} <=> call[w].step # "idle" /\ call[w].op = "set"

\* What a request knows of its login, and what it has accepted.
Knows(w) ==
    /\ job[w].op \in {"read", "save", "login"} =>
          /\ job[w].nonce \in 1..drawn
          /\ [nonce |-> job[w].nonce, at |-> job[w].at] \in logins
    /\ job[w].op \in {"read", "save"} => job[w].at \in IPs
    /\ job[w].op = "save" => Good(job[w].row)
    /\ job[w].op = "in" =>
          \E l \in logins : l.nonce = job[w].nonce /\ l.at \in {Any, job[w].at}

\* What a request is about to store.
Writes(w) == call[w].step = "write" => Good(call[w].val)

HistoryType ==
    /\ drawn \in 0..MaxNonces
    /\ tokens \subseteq 1..drawn
    /\ cookies \subseteq 1..drawn
    /\ logins \subseteq Login

OwnInv ==
    /\ HistoryType
    /\ job \in [Clients -> Job]
    /\ \A w \in Clients : Waits(w) /\ Knows(w) /\ Writes(w)
    /\ \A v \in stored : Good(v)

Inv == KV!TypeOK /\ KVP!StoredInv /\ OwnInv

LEMMA InvImplies == Inv => TypeOK /\ AcceptedWhereIssued
  BY DEF Inv, OwnInv, HistoryType, Waits, Knows, TypeOK, AcceptedWhereIssued

\* The store's part of the invariant is kept by every step.
LEMMA StoreKept ==
    ASSUME KV!TypeOK, KVP!StoredInv, [Next]_vars,
           \A w \in Clients : job[w].row \in SessionRows
    PROVE  KV!TypeOK' /\ KVP!StoredInv'
<1>1. [KVP!Next]_(KVP!vars)
  <2>1. CASE UNCHANGED vars
    BY <2>1 DEF vars, KVP!vars
  <2> QED BY <2>1, StoreNext
<1>2. KVP!TypeOK /\ KVP!StoredInv
  BY SameTypes
<1>3. KVP!TypeOK'
  BY <1>1, <1>2, StoreAssumptions, KVP!NextType
<1>4. KVP!StoredInv'
  BY <1>1, <1>2, StoreAssumptions, KVP!NextStored
<1>5. KV!TypeOK'
  BY <1>3 DEF KV!TypeOK, KVP!TypeOK, KV!Maybe, KVP!Maybe, KV!File, KVP!File, KV!Wiring, KVP!Wiring,
         KV!Call, KVP!Call
<1> QED BY <1>4, <1>5

\* The history only grows.
Grows == HistoryType' /\ drawn <= drawn' /\ logins \subseteq logins'

LEMMA GrowsKnown ==
    ASSUME OwnInv, Grows, NEW v, Good(v)
    PROVE  Good(v)'
  BY DEF Good, Grows

\* A request that does nothing keeps what it has.
LEMMA OtherWorker ==
    ASSUME OwnInv, Grows, NEW d \in Clients, job'[d] = job[d],
           call'[d].op = call[d].op, call'[d].step = call[d].step, call'[d].val = call[d].val
    PROVE  Waits(d)' /\ Knows(d)' /\ Writes(d)'
<1>1. Waits(d)'
  BY DEF OwnInv, Waits
<1>2. Knows(d)'
  <2>1. Knows(d)
    BY DEF OwnInv
  <2>2. job[d].nonce \in 1..drawn => job'[d].nonce \in 1..drawn'
    BY DEF Grows, OwnInv, HistoryType
  <2>3. Good(job[d].row) => Good(job[d].row)'
    BY DEF Good, Grows
  <2>4. logins \subseteq logins'
    BY DEF Grows
  <2> QED BY <2>1, <2>2, <2>3, <2>4 DEF Knows
<1>3. Writes(d)'
  BY GrowsKnown DEF OwnInv, Writes
<1> QED BY <1>1, <1>2, <1>3

\* A step of one request.
LEMMA OneWorker ==
    ASSUME OwnInv, Grows, NEW w \in Clients, NEW j \in Job,
           job' = [job EXCEPT ![w] = j],
           \A d \in Clients \ {w} : call'[d] = call[d],
           \A v \in stored' : Good(v)',
           Waits(w)', Knows(w)', Writes(w)'
    PROVE  OwnInv'
<1>1. job' \in [Clients -> Job] /\ \A d \in Clients \ {w} : job'[d] = job[d]
  BY DEF OwnInv
<1>2. \A d \in Clients : Waits(d)' /\ Knows(d)' /\ Writes(d)'
  BY <1>1, OtherWorker
<1> QED BY <1>1, <1>2 DEF OwnInv, Grows

-----------------------------------------------------------------------------
(* One action at a time *)

\* A nonce is drawn, or taken from a token.
LEMMA HasNonceFacts ==
    ASSUME OwnInv, NEW n \in Nonces, HasNonce(n), NEW at \in Places,
           logins' = logins \union {[nonce |-> n, at |-> at]}, UNCHANGED cookies
    PROVE  Grows /\ n \in 1..drawn'
<1>1. drawn \in 0..MaxNonces /\ n \in 1..MaxNonces /\ MaxNonces \in Nat
  BY SNBoundsAssumption DEF OwnInv, HistoryType, Nonces
<1>2. drawn' \in 0..MaxNonces /\ drawn <= drawn' /\ n \in 1..drawn' /\ tokens' = tokens
  <2>1. CASE n = drawn + 1 /\ drawn' = n /\ UNCHANGED tokens
    BY <1>1, <2>1
  <2>2. CASE n \in tokens /\ UNCHANGED <<drawn, tokens>>
    BY <1>1, <2>2 DEF OwnInv, HistoryType
  <2> QED BY <2>1, <2>2 DEF HasNonce
<1>3. tokens' \subseteq 1..drawn' /\ cookies' \subseteq 1..drawn'
  BY <1>1, <1>2 DEF OwnInv, HistoryType
<1>4. logins' \subseteq Login
  BY DEF OwnInv, HistoryType, Login
<1> QED BY <1>2, <1>3, <1>4 DEF Grows, HistoryType

LEMMA NoHistory == ASSUME OwnInv, UNCHANGED sessions PROVE Grows
<1>1. drawn <= drawn
  BY SNBoundsAssumption DEF OwnInv, HistoryType
<1> QED BY <1>1 DEF Grows, OwnInv, HistoryType, sessions

LEMMA LoginAloneKeeps ==
    ASSUME Inv, NEW w \in Clients, NEW n \in Nonces, LoginAlone(w, n)
    PROVE  OwnInv'
<1> DEFINE row == [k \in {Any} |-> n]
           j == [op |-> "login", nonce |-> n, at |-> Any, row |-> NoSession]
<1>1. Grows /\ n \in 1..drawn'
  BY HasNonceFacts DEF LoginAlone, Inv, Places
<1>2. j \in Job
  BY RowsOfOne DEF Job, Ops, Places
<1>3. job' = [job EXCEPT ![w] = j]
  BY DEF LoginAlone, Work
<1>4. job'[w] = j
  BY <1>3 DEF Inv, OwnInv
<1>5. /\ call'[w].op = "set" /\ call'[w].step # "idle" /\ call'[w].val = row
      /\ \A d \in Clients \ {w} : call'[d] = call[d]
      /\ UNCHANGED stored
  BY StoreBegin, RowsOfOne DEF LoginAlone, Inv
<1>6. [nonce |-> n, at |-> Any] \in logins'
  BY DEF LoginAlone
<1>7. Good(row)'
  BY <1>6 DEF Good
<1>8. Waits(w)' /\ Knows(w)' /\ Writes(w)'
  BY <1>1, <1>4, <1>5, <1>6, <1>7 DEF Waits, Knows, Writes
<1>9. \A v \in stored' : Good(v)'
  BY <1>1, <1>5, GrowsKnown DEF Inv, OwnInv
<1> QED BY <1>1, <1>2, <1>3, <1>5, <1>8, <1>9, OneWorker DEF Inv

LEMMA LoginBesideKeeps ==
    ASSUME Inv, NEW w \in Clients, NEW n \in Nonces, NEW ip \in IPs, LoginBeside(w, n, ip)
    PROVE  OwnInv'
<1> DEFINE j == [op |-> "read", nonce |-> n, at |-> ip, row |-> NoSession]
<1>1. Grows /\ n \in 1..drawn'
  BY HasNonceFacts DEF LoginBeside, Inv, Places
<1>2. j \in Job
  BY RowsOfOne DEF Job, Ops, Places
<1>3. job' = [job EXCEPT ![w] = j]
  BY DEF LoginBeside, Work
<1>4. job'[w] = j
  BY <1>3 DEF Inv, OwnInv
<1>5. /\ call'[w].op = "get" /\ call'[w].step \notin {"idle", "write"}
      /\ \A d \in Clients \ {w} : call'[d] = call[d]
      /\ UNCHANGED stored
  BY StoreBegin, RowsOfOne DEF LoginBeside, Inv
<1>6. [nonce |-> n, at |-> ip] \in logins'
  BY DEF LoginBeside
<1>7. Waits(w)' /\ Knows(w)' /\ Writes(w)'
  BY <1>1, <1>4, <1>5, <1>6 DEF Waits, Knows, Writes
<1>8. \A v \in stored' : Good(v)'
  BY <1>1, <1>5, GrowsKnown DEF Inv, OwnInv
<1> QED BY <1>1, <1>2, <1>3, <1>5, <1>7, <1>8, OneWorker DEF Inv

\* A row for several addresses: old entries that were stored, and the new one.
LEMMA MergedRow ==
    ASSUME Inv, NEW w \in Clients, Got(w, "read", "done"),
           NEW K \in Trimmed(DOMAIN Entries(call[w].val) \union {job[w].at})
    PROVE  LET row == [k \in K |-> IF k = job[w].at THEN job[w].nonce
                                                   ELSE Entries(call[w].val)[k]]
           IN  row \in SessionRows /\ Good(row)
<1> DEFINE old == Entries(call[w].val)
           row == [k \in K |-> IF k = job[w].at THEN job[w].nonce ELSE old[k]]
<1>1. /\ job[w].at \in IPs /\ job[w].nonce \in Nonces
      /\ [nonce |-> job[w].nonce, at |-> job[w].at] \in logins
  <2>1. job[w].nonce \in 1..drawn /\ drawn \in 0..MaxNonces
    BY DEF Inv, OwnInv, Knows, HistoryType, Got
  <2>2. job[w].nonce \in Nonces
    BY <2>1, SNBoundsAssumption DEF Nonces
  <2> QED BY <2>2 DEF Inv, OwnInv, Knows, Got
<1>2. call[w].val \in stored \union {Nothing}
  <2>1. call[w].op = "get" /\ call[w].step = "done"
    BY DEF Inv, OwnInv, Waits, Got
  <2> QED BY <2>1 DEF Inv, KVP!StoredInv, KVP!Known
<1>3. /\ old \in SessionRows /\ DOMAIN old \subseteq IPs /\ Good(old)
      /\ \A k \in DOMAIN old : old[k] \in Nonces
  <2>1. stored \subseteq SessionRows
    BY DEF Inv, KV!TypeOK
  <2>2. CASE old = NoSession
    BY <2>2, RowsOfOne DEF NoSession, Good
  <2>3. CASE old # NoSession
    <3>1. old \in stored /\ Any \notin DOMAIN old
      BY <1>2, <2>3 DEF Entries
    <3>2. PICK D \in RowDomains : old \in [D -> Nonces]
      BY <2>1, <3>1 DEF SessionRows
    <3>3. D \subseteq IPs
      BY <3>1, <3>2 DEF RowDomains
    <3>4. Good(old)
      BY <3>1 DEF Inv, OwnInv
    <3> QED BY <2>1, <3>1, <3>2, <3>3, <3>4
  <2> QED BY <2>2, <2>3
<1>4. K \in RowDomains /\ K \subseteq DOMAIN old \union {job[w].at}
  BY <1>1, <1>3, TrimmedRows
<1>5. row \in [K -> Nonces]
  BY <1>1, <1>3, <1>4
<1>6. row \in SessionRows
  BY <1>4, <1>5 DEF SessionRows
<1>7. Good(row)
  BY <1>1, <1>3, <1>4 DEF Good
<1> QED BY <1>6, <1>7

LEMMA MergeKeeps ==
    ASSUME Inv, NEW w \in Clients, Merge(w)
    PROVE  OwnInv'
<1>1. Got(w, "read", "done") /\ KV!Return(w) /\ UNCHANGED sessions
  BY DEF Merge
<1>2. PICK K \in Trimmed(DOMAIN Entries(call[w].val) \union {job[w].at}) :
        Work(w, "save", job[w].nonce, job[w].at,
             [k \in K |-> IF k = job[w].at THEN job[w].nonce
                          ELSE Entries(call[w].val)[k]])
  BY DEF Merge
<1> DEFINE row == [k \in K |-> IF k = job[w].at THEN job[w].nonce
                               ELSE Entries(call[w].val)[k]]
           j == [op |-> "save", nonce |-> job[w].nonce, at |-> job[w].at,
                 row |-> row]
<1>3. row \in SessionRows /\ Good(row)
  BY <1>1, MergedRow
<1>4. job[w] \in Job /\ job[w].op = "read"
  BY <1>1 DEF Inv, OwnInv, Got
<1>5. Grows /\ UNCHANGED <<drawn, logins>>
  BY <1>1, NoHistory DEF Inv, sessions
<1> HIDE DEF row
<1>6. j \in Job
  BY <1>3, <1>4 DEF Job, Ops
<1>7. job' = [job EXCEPT ![w] = j]
  BY <1>2 DEF Work, row
<1>8. job'[w] = j
  BY <1>7 DEF Inv, OwnInv
<1>9. /\ call'[w].step = "idle" /\ \A d \in Clients \ {w} : call'[d] = call[d]
      /\ UNCHANGED stored
  BY <1>1, StoreReturn DEF Inv
<1>10. Good(job[w].row)'
  BY <1>3, <1>5, <1>8 DEF Good
<1>11. Waits(w)' /\ Knows(w)' /\ Writes(w)'
  BY <1>4, <1>5, <1>8, <1>9, <1>10 DEF Waits, Knows, Writes, Inv, OwnInv
<1>12. \A v \in stored' : Good(v)'
  BY <1>5, <1>9, GrowsKnown DEF Inv, OwnInv
<1> QED BY <1>5, <1>6, <1>7, <1>9, <1>11, <1>12, OneWorker DEF Inv

\* A step that leaves the history alone and calls the store's Set.
LEMMA SetKeeps ==
    ASSUME Inv, NEW w \in Clients, NEW v \in SessionRows, KV!BeginSet(w, v), Good(v),
           UNCHANGED sessions,
           NEW j \in Job, job' = [job EXCEPT ![w] = j], j.op \in {"login", "logout"},
           j.op = "login" => /\ j.nonce \in 1..drawn
                             /\ [nonce |-> j.nonce, at |-> j.at] \in logins
    PROVE  OwnInv'
<1>1. Grows /\ UNCHANGED <<drawn, logins>>
  BY NoHistory DEF Inv, sessions
<1>2. job'[w] = j
  BY DEF Inv, OwnInv
<1>3. /\ call'[w].op = "set" /\ call'[w].step # "idle" /\ call'[w].val = v
      /\ \A d \in Clients \ {w} : call'[d] = call[d]
      /\ UNCHANGED stored
  BY StoreBegin DEF Inv
<1>4. Good(v)'
  BY <1>1 DEF Good
<1>5. Waits(w)' /\ Knows(w)' /\ Writes(w)'
  BY <1>1, <1>2, <1>3, <1>4 DEF Waits, Knows, Writes
<1>6. \A u \in stored' : Good(u)'
  BY <1>1, <1>3, GrowsKnown DEF Inv, OwnInv
<1> QED BY <1>1, <1>3, <1>5, <1>6, OneWorker DEF Inv

LEMMA SaveKeeps ==
    ASSUME Inv, NEW w \in Clients, Save(w)
    PROVE  OwnInv'
<1> DEFINE j == [op |-> "login", nonce |-> job[w].nonce, at |-> job[w].at,
                 row |-> job[w].row]
<1>1. job[w] \in Job /\ job[w].op = "save" /\ Knows(w)
  BY DEF Save, Inv, OwnInv
<1>2. job[w].row \in SessionRows /\ j \in Job
  BY <1>1 DEF Job, Ops
<1>3. job' = [job EXCEPT ![w] = j]
  BY DEF Save, Goto, Work
<1>4. j.op = "login" /\ j.nonce \in 1..drawn
      /\ [nonce |-> j.nonce, at |-> j.at] \in logins /\ Good(job[w].row)
  BY <1>1 DEF Knows
<1> QED BY <1>2, <1>3, <1>4, SetKeeps DEF Save

LEMMA ClearKeeps ==
    ASSUME Inv, NEW w \in Clients, ClearSession(w) \/ Dismiss(w)
    PROVE  OwnInv'
<1>1. Good(NoSession)
  BY DEF Good, NoSession
<1>2. CASE ClearSession(w)
  <2> DEFINE j == [op |-> "logout", nonce |-> job[w].nonce, at |-> job[w].at,
                   row |-> job[w].row]
  <2>1. job[w] \in Job
    BY DEF Inv, OwnInv
  <2>2. j \in Job
    BY <2>1 DEF Job, Ops
  <2>3. job' = [job EXCEPT ![w] = j]
    BY <1>2 DEF ClearSession, Goto, Work
  <2> QED BY <1>1, <1>2, <2>2, <2>3, SetKeeps, RowsOfOne DEF ClearSession
<1>3. CASE Dismiss(w)
  <2> DEFINE j == [op |-> "logout", nonce |-> 0, at |-> Any, row |-> NoSession]
  <2>1. j \in Job
    BY RowsOfOne DEF Job, Ops, Places
  <2>2. job' = [job EXCEPT ![w] = j]
    BY <1>3 DEF Dismiss, Work
  <2> QED BY <1>1, <1>3, <2>1, <2>2, SetKeeps, RowsOfOne DEF Dismiss
<1> QED BY <1>2, <1>3

\* A step that ends a request, or answers it.
LEMMA ReturnKeeps ==
    ASSUME Inv, NEW w \in Clients, Grows, UNCHANGED stored,
           call'[w].step = "idle", \A d \in Clients \ {w} : call'[d] = call[d],
           NEW j \in Job, job' = [job EXCEPT ![w] = j],
           j.op \in {"idle", "in", "out", "clear"},
           j.op = "in" => \E l \in logins : l.nonce = j.nonce /\ l.at \in {Any, j.at}
    PROVE  OwnInv'
<1>1. job'[w] = j
  BY DEF Inv, OwnInv
<1>2. Waits(w)' /\ Knows(w)' /\ Writes(w)'
  BY <1>1 DEF Waits, Knows, Writes, Grows
<1>3. \A u \in stored' : Good(u)'
  BY GrowsKnown DEF Inv, OwnInv
<1> QED BY <1>2, <1>3, OneWorker DEF Inv

LEMMA NoJobType == NoJob \in Job
  BY RowsOfOne DEF NoJob, Job, Ops, Places

LEMMA EndKeeps ==
    ASSUME Inv, NEW w \in Clients,
           Issue(w) \/ LoginFails(w) \/ LoggedOut(w) \/ Answered(w)
    PROVE  OwnInv'
<1>1. job' = [job EXCEPT ![w] = NoJob] /\ NoJob.op = "idle"
  BY DEF Issue, LoginFails, LoggedOut, Answered, End, NoJob
<1>2. Grows
  <2>1. CASE UNCHANGED sessions
    BY <2>1, NoHistory DEF Inv
  <2>2. CASE Issue(w)
    <3>1. job[w].nonce \in 1..drawn
      BY <2>2 DEF Issue, Got, Inv, OwnInv, Knows
    <3>2. drawn <= drawn
      BY SNBoundsAssumption DEF Inv, OwnInv, HistoryType
    <3> QED BY <2>2, <3>1, <3>2 DEF Issue, Grows, Inv, OwnInv, HistoryType
  <2> QED BY <2>1, <2>2 DEF LoginFails, LoggedOut, Answered
<1>3. CASE KV!Return(w)
  <2>1. /\ call'[w].step = "idle" /\ \A d \in Clients \ {w} : call'[d] = call[d]
        /\ UNCHANGED stored
    BY <1>3, StoreReturn DEF Inv
  <2> QED BY <1>1, <1>2, <2>1, NoJobType, ReturnKeeps
<1>4. CASE Answered(w)
  <2>1. call' = call /\ stored' = stored
    BY <1>4 DEF Answered
  <2>2. call[w].step = "idle"
    <3>1. job[w].op \in {"in", "out"} /\ Waits(w)
      BY <1>4 DEF Answered, Inv, OwnInv
    <3>2. call[w].op \in {"get", "set"}
      BY DEF Inv, KV!TypeOK, KV!Call
    <3> QED BY <3>1, <3>2 DEF Waits
  <2> QED BY <1>1, <1>2, <2>1, <2>2, NoJobType, ReturnKeeps
<1> QED BY <1>3, <1>4 DEF Issue, LoginFails, LoggedOut

LEMMA ReceiveKeeps ==
    ASSUME Inv, NEW w \in Clients, NEW n \in Nonces, NEW ip \in IPs,
           NEW op \in {"check", "leave"}, Receive(w, op, n, ip)
    PROVE  OwnInv'
<1> DEFINE j == [op |-> op, nonce |-> n, at |-> ip, row |-> NoSession]
<1>1. Grows
  BY NoHistory DEF Receive, Inv
<1>2. j \in Job
  BY RowsOfOne DEF Job, Ops, Places
<1>3. job' = [job EXCEPT ![w] = j]
  BY DEF Receive
<1>4. job'[w] = j
  BY <1>3 DEF Inv, OwnInv
<1>5. /\ call'[w].op = "get" /\ call'[w].step \notin {"idle", "write"}
      /\ \A d \in Clients \ {w} : call'[d] = call[d]
      /\ UNCHANGED stored
  BY StoreBegin, RowsOfOne DEF Receive, Inv
<1>6. Waits(w)' /\ Knows(w)' /\ Writes(w)'
  BY <1>4, <1>5 DEF Waits, Knows, Writes
<1>7. \A v \in stored' : Good(v)'
  BY <1>1, <1>5, GrowsKnown DEF Inv, OwnInv
<1> QED BY <1>1, <1>2, <1>3, <1>5, <1>6, <1>7, OneWorker DEF Inv

\* What is accepted was read, so it was stored, so a login stands behind it.
LEMMA VerdictKeeps ==
    ASSUME Inv, NEW w \in Clients, Verdict(w)
    PROVE  OwnInv'
<1> DEFINE op == IF Accepts(call[w].val, job[w].nonce, job[w].at)
                 THEN (IF job[w].op = "check" THEN "in" ELSE "clear") ELSE "out"
           j == [op |-> op, nonce |-> job[w].nonce, at |-> job[w].at,
                 row |-> NoSession]
<1>1. Grows
  BY NoHistory DEF Verdict, Respond, Inv
<1>2. op \in {"in", "out", "clear"}
  OBVIOUS
<1>3. op = "in" => \E l \in logins : l.nonce = job[w].nonce /\ l.at \in {Any, job[w].at}
  <2> SUFFICES ASSUME op = "in"
               PROVE  \E l \in logins : l.nonce = job[w].nonce /\ l.at \in {Any, job[w].at}
    OBVIOUS
  <2>1. Accepts(call[w].val, job[w].nonce, job[w].at)
    OBVIOUS
  <2>2. call[w].val \in stored
    <3>1. call[w].op = "get" /\ call[w].step = "done"
      BY DEF Verdict, Got, Inv, OwnInv, Waits
    <3> QED BY <2>1, <3>1 DEF Accepts, Inv, KVP!StoredInv, KVP!Known
  <2>3. PICK k \in DOMAIN call[w].val : k \in {Any, job[w].at} /\ call[w].val[k] = job[w].nonce
    BY <2>1 DEF Accepts
  <2>4. [nonce |-> job[w].nonce, at |-> k] \in logins
    BY <2>2, <2>3 DEF Inv, OwnInv, Good
  <2> QED BY <2>3, <2>4
<1> HIDE DEF op
<1>4. j \in Job
  <2>1. job[w] \in Job
    BY DEF Inv, OwnInv
  <2> QED BY <2>1, <1>2, RowsOfOne DEF Job, Ops
<1>5. job' = [job EXCEPT ![w] = j]
  BY DEF Verdict, Respond, op
<1>6. /\ call'[w].step = "idle" /\ \A d \in Clients \ {w} : call'[d] = call[d]
      /\ UNCHANGED stored
  BY StoreReturn DEF Verdict, Respond, Inv
<1> QED BY <1>1, <1>2, <1>3, <1>4, <1>5, <1>6, ReturnKeeps

\* Steps of the store alone, and of nobody's request.
LEMMA StoreKeeps ==
    ASSUME Inv, UNCHANGED <<job, sessions>>,
           KV!Environment \/ \E w \in Clients : KV!Step(w)
    PROVE  OwnInv'
<1>1. Grows /\ UNCHANGED <<drawn, logins>>
  BY NoHistory DEF Inv, sessions
<1>2. CASE KV!Environment
  <2>1. /\ \A d \in Clients : /\ call'[d].op = call[d].op
                              /\ call'[d].step = call[d].step
                              /\ call'[d].val = call[d].val
        /\ UNCHANGED stored
    BY <1>2, StoreEnvironment DEF Inv
  <2>2. \A d \in Clients : Waits(d)' /\ Knows(d)' /\ Writes(d)'
    BY <1>1, <2>1, OtherWorker DEF Inv
  <2> QED BY <1>1, <2>1, <2>2, GrowsKnown DEF Inv, OwnInv, Grows
<1>3. ASSUME NEW w \in Clients, KV!Step(w) PROVE OwnInv'
  <2>1. /\ call[w].step # "idle" /\ call'[w].step \notin {"idle", "write"}
        /\ call'[w].op = call[w].op
        /\ \A d \in Clients \ {w} : call'[d] = call[d]
        /\ \A v \in stored' : v \in stored \/ (call[w].step = "write" /\ v = call[w].val)
    BY <1>3, StoreStep DEF Inv
  <2>2. \A v \in stored' : Good(v)
    BY <2>1 DEF Inv, OwnInv, Writes
  <2>3. \A v \in stored' : Good(v)'
    BY <1>1, <2>2, GrowsKnown DEF Inv
  <2>4. Waits(w)' /\ Knows(w)' /\ Writes(w)'
    <3>1. Waits(w)'
      BY <2>1 DEF Waits, Inv, OwnInv
    <3>2. Knows(w)'
      BY <1>1 DEF Knows, Good, Inv, OwnInv
    <3> QED BY <2>1, <3>1, <3>2 DEF Writes
  <2>5. job' = [job EXCEPT ![w] = job[w]] /\ job[w] \in Job
    BY DEF Inv, OwnInv
  <2> QED BY <1>1, <2>1, <2>3, <2>4, <2>5, OneWorker DEF Inv
<1> QED BY <1>2, <1>3

LEMMA PasswordKeeps == ASSUME Inv, PasswordStep PROVE OwnInv'
<1>1. drawn \in 0..MaxNonces /\ MaxNonces \in Nat /\ drawn < MaxNonces
  BY SNBoundsAssumption DEF PasswordStep, Inv, OwnInv, HistoryType
<1>2. drawn' \in 0..MaxNonces /\ drawn <= drawn' /\ drawn' = drawn + 1
  BY <1>1 DEF PasswordStep
<1>3. tokens' \subseteq 1..drawn' /\ cookies' \subseteq 1..drawn'
  BY <1>1, <1>2 DEF PasswordStep, Inv, OwnInv, HistoryType
<1>4. Grows
  BY <1>2, <1>3 DEF Grows, HistoryType, PasswordStep, Inv, OwnInv
<1>5. UNCHANGED <<job, call, stored>>
  BY DEF PasswordStep
<1>6. \A d \in Clients : Waits(d)' /\ Knows(d)' /\ Writes(d)'
  BY <1>4, <1>5, OtherWorker DEF Inv
<1> QED BY <1>4, <1>5, <1>6, GrowsKnown DEF Inv, OwnInv, Grows

-----------------------------------------------------------------------------
(* The theorems *)

LEMMA InitInv == Init => Inv
<1> SUFFICES ASSUME Init PROVE Inv
  OBVIOUS
<1>1. KVP!Init
  BY SameInit DEF Init
<1>2. KV!TypeOK
  BY <1>1, StoreAssumptions, KVP!InitType, SameTypes
<1>3. KVP!StoredInv
  BY <1>1 DEF KVP!Init, KVP!StoredInv, KVP!Known, KVP!NoCall
<1>4. OwnInv
  <2>1. 0 \in 0..MaxNonces
    BY SNBoundsAssumption
  <2>2. \A w \in Clients : call[w].step = "idle"
    BY DEF Init, KV!Init, KV!NoCall
  <2>3. stored = {}
    BY DEF Init, KV!Init
  <2>4. job \in [Clients -> Job]
    BY NoJobType DEF Init
  <2>5. \A w \in Clients : Waits(w) /\ Knows(w) /\ Writes(w)
    BY <2>2 DEF Init, NoJob, Waits, Knows, Writes
  <2> QED BY <2>1, <2>3, <2>4, <2>5 DEF Init, OwnInv, HistoryType
<1> QED BY <1>2, <1>3, <1>4 DEF Inv

LEMMA NextInv == Inv /\ [Next]_vars => Inv'
<1> SUFFICES ASSUME Inv, [Next]_vars PROVE Inv'
  OBVIOUS
<1>r. \A w \in Clients : job[w].row \in SessionRows
  BY DEF Inv, OwnInv, Job
<1>1. KV!TypeOK' /\ KVP!StoredInv'
  BY <1>r, StoreKept DEF Inv
<1>2. ASSUME NEW w \in Clients, Begin(w) PROVE OwnInv'
  BY <1>2, LoginAloneKeeps, LoginBesideKeeps, ReceiveKeeps, ClearKeeps
     DEF Begin, Check, Logout
<1>3. ASSUME NEW w \in Clients, Continue(w) PROVE OwnInv'
  BY <1>3, StoreKeeps, MergeKeeps, SaveKeeps, EndKeeps, VerdictKeeps, ClearKeeps
     DEF Continue
<1>4. ASSUME PasswordStep PROVE OwnInv'
  BY <1>4, PasswordKeeps
<1>5. ASSUME KV!Environment, UNCHANGED <<job, sessions>> PROVE OwnInv'
  BY <1>5, StoreKeeps
<1>6. ASSUME UNCHANGED vars PROVE OwnInv'
  <2>1. UNCHANGED <<job, call, stored, sessions>>
    BY <1>6 DEF vars
  <2>2. Grows
    BY <2>1, NoHistory DEF Inv
  <2>3. \A d \in Clients : Waits(d)' /\ Knows(d)' /\ Writes(d)'
    BY <2>1, <2>2, OtherWorker DEF Inv
  <2> QED BY <2>1, <2>2, <2>3, GrowsKnown DEF Inv, OwnInv, Grows
<1>7. OwnInv'
  BY <1>2, <1>3, <1>4, <1>5, <1>6 DEF Next
<1> QED BY <1>1, <1>7 DEF Inv

\* Every variable stays in its type, what is stored for the user is a session
\* value, and a request waits for the one call it has made.
THEOREM TypeCorrect == Spec => []TypeOK
<1>1. Inv => TypeOK
  BY InvImplies
<1> QED BY <1>1, InitInv, NextInv, PTL DEF Spec

\* A request is accepted only with the nonce of a login from its address or of one
\* for any address, whatever races, fails or is restored from a backup.
THEOREM AcceptedsWereIssued == Spec => []AcceptedWhereIssued
<1>1. Inv => AcceptedWhereIssued
  BY InvImplies
<1> QED BY <1>1, InitInv, NextInv, PTL DEF Spec

\* Handling requests uses the store as PlatformKV describes it, nothing more: each
\* step is one of the store's, or does not touch it.
THEOREM UsesStore == Spec => KVP!Spec
<1>1. Init => KVP!Init
  BY SameInit DEF Init
<1>2. Inv /\ [Next]_vars => [KVP!Next]_(KVP!vars)
  <2> SUFFICES ASSUME Inv, [Next]_vars PROVE [KVP!Next]_(KVP!vars)
    OBVIOUS
  <2>1. \A w \in Clients : job[w].row \in SessionRows
    BY DEF Inv, OwnInv, Job
  <2>2. CASE UNCHANGED vars
    BY <2>2 DEF vars, KVP!vars
  <2> QED BY <2>1, <2>2, StoreNext
<1> QED BY <1>1, <1>2, InitInv, NextInv, PTL DEF Spec, KVP!Spec
=============================================================================
