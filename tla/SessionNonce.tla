----------------------------- MODULE SessionNonce -----------------------------
(***************************************************************************)
(* The sessions of one user (internal/session_nonce.go and its callers in  *)
(* auth.go, totp_handlers.go, oidc_auth.go and admin_users_handlers.go),   *)
(* on top of PlatformKV.                                                   *)
(*                                                                         *)
(* The value under sess_nonce:v1:<user> is a function from addresses to    *)
(* nonces.  An account for one client has one entry, at Any; so has a      *)
(* value of the older form, a bare nonce.  The empty function is the empty *)
(* string.  A cookie holds a nonce; its signature and its expiry are taken *)
(* as right.  Addresses are those of NormalizeClientIPForSessionKey.       *)
(***************************************************************************)
EXTENDS Naturals, FiniteSets

CONSTANTS
    Pods, Clients, PodOf,   \* replicas; handlers of requests; where they run
    Nothing,                \* no value in a store
    MaxFaults,              \* bound: failed calls
    IPs,                    \* addresses of browsers
    Any,                    \* the place of a nonce that holds at any address
    MaxIPs,                 \* entries kept by trimIPNonceMap
    OneTimeCodes,           \* whether the user has to enter one-time codes
    MaxNonces               \* bound: nonces drawn

ASSUME SNAddressesAssumption == IsFiniteSet(IPs) /\ Any \notin IPs
ASSUME SNCodesAssumption == OneTimeCodes \in BOOLEAN
ASSUME SNBoundsAssumption == MaxIPs \in Nat \ {0} /\ MaxNonces \in Nat

Nonces == 1..MaxNonces

Places == IPs \union {Any}

NoSession == [k \in {} |-> 0]

RowDomains == {K \in SUBSET IPs : Cardinality(K) \in 0..MaxIPs} \union {{Any}}

SessionRows == UNION {[K -> Nonces] : K \in RowDomains}

ASSUME SNStoreAssumption ==
    /\ PodOf \in [Clients -> Pods]
    /\ Nothing \notin SessionRows
    /\ MaxFaults \in Nat

VARIABLES
    db, file, hot, mirror, wiring, call, faults, stored, serial,  \* of PlatformKV
    job,      \* the request each handler works on
    drawn,    \* nonces drawn so far
    tokens,   \* nonces in the tokens between password and one-time code
    logins,   \* history: the logins that came to save their nonce
    cookies   \* the nonces in cookies that were sent

KV == INSTANCE PlatformKV WITH Values <- SessionRows, Empty <- NoSession, Large <- {}

sessions == <<drawn, tokens, logins, cookies>>
vars == <<db, file, hot, mirror, wiring, call, faults, stored, serial, job, sessions>>

Login == [nonce: Nonces, at: Places]

Ops == {"idle", "read", "save", "login",    \* a login, up to its answer
        "check", "in", "out",               \* a request and its answer
        "leave", "clear", "logout"}         \* a logout

Job == [op: Ops, nonce: Nonces \union {0}, at: Places, row: SessionRows]

NoJob == [op |-> "idle", nonce |-> 0, at |-> Any, row |-> NoSession]

Init ==
    /\ KV!Init
    /\ job = [w \in Clients |-> NoJob]
    /\ drawn = 0
    /\ tokens = {}
    /\ logins = {}
    /\ cookies = {}

Work(w, op, n, at, row) ==
    job' = [job EXCEPT ![w] = [op |-> op, nonce |-> n, at |-> at, row |-> row]]

Goto(w, op) == Work(w, op, job[w].nonce, job[w].at, job[w].row)

End(w) == job' = [job EXCEPT ![w] = NoJob]

Got(w, op, step) == job[w].op = op /\ call[w].step = step

\* The entries of a value of the form for several addresses.
Entries(v) == IF v = Nothing \/ Any \in DOMAIN v THEN NoSession ELSE v

Accepts(v, n, ip) ==
    v # Nothing /\ \E k \in DOMAIN v \intersect {Any, ip} : v[k] = n

-----------------------------------------------------------------------------
(* Login: finalizePasswordLoginSession, handleAuthLoginTotp, the OIDC callback *)

\* The password is right, and a one-time code is asked for.
PasswordStep ==
    /\ OneTimeCodes
    /\ drawn < MaxNonces
    /\ drawn' = drawn + 1
    /\ tokens' = tokens \union {drawn + 1}
    /\ UNCHANGED <<db, file, hot, mirror, wiring, call, faults, stored, serial,
                   job, logins, cookies>>

\* A fresh nonce, or that of a token, which can be presented again.
HasNonce(n) ==
    \/ ~OneTimeCodes /\ n = drawn + 1 /\ drawn' = n /\ UNCHANGED tokens
    \/ n \in tokens /\ UNCHANGED <<drawn, tokens>>

\* The account is for one client, or its policy cannot be read.
LoginAlone(w, n) ==
    /\ job[w].op = "idle"
    /\ HasNonce(n)
    /\ KV!BeginSet(w, [k \in {Any} |-> n])
    /\ Work(w, "login", n, Any, NoSession)
    /\ logins' = logins \union {[nonce |-> n, at |-> Any]}
    /\ UNCHANGED cookies

LoginBeside(w, n, ip) ==
    /\ job[w].op = "idle"
    /\ HasNonce(n)
    /\ KV!BeginGet(w)
    /\ Work(w, "read", n, ip, NoSession)
    /\ logins' = logins \union {[nonce |-> n, at |-> ip]}
    /\ UNCHANGED cookies

\* Faulty variant: one entry too many is kept.
TrimmedLate(K) ==
    IF Cardinality(K) <= MaxIPs + 1 THEN {K}
    ELSE {L \in SUBSET K : Cardinality(L) = MaxIPs + 1}

\* trimIPNonceMap: any entries may go.
Trimmed(K) ==
    IF Cardinality(K) <= MaxIPs THEN {K}
    ELSE {L \in SUBSET K : Cardinality(L) = MaxIPs}

\* Faulty variant: the entries of other addresses are forgotten.
MergeNone(w) ==
    /\ Got(w, "read", "done")
    /\ KV!Return(w)
    /\ Work(w, "save", job[w].nonce, job[w].at, [k \in {job[w].at} |-> job[w].nonce])
    /\ UNCHANGED sessions

\* The entries that were read, and the new one.
Merge(w) ==
    /\ Got(w, "read", "done")
    /\ KV!Return(w)
    /\ LET old == Entries(call[w].val)
       IN  \E K \in Trimmed(DOMAIN old \union {job[w].at}) :
             Work(w, "save", job[w].nonce, job[w].at,
                  [k \in K |-> IF k = job[w].at THEN job[w].nonce ELSE old[k]])
    /\ UNCHANGED sessions

Save(w) ==
    /\ job[w].op = "save"
    /\ KV!BeginSet(w, job[w].row)
    /\ Goto(w, "login")
    /\ UNCHANGED sessions

\* The cookie is sent once its nonce has been stored.
Issue(w) ==
    /\ Got(w, "login", "done")
    /\ KV!Return(w)
    /\ End(w)
    /\ cookies' = cookies \union {job[w].nonce}
    /\ UNCHANGED <<drawn, tokens, logins>>

LoginFails(w) ==
    /\ Got(w, "login", "failed")
    /\ KV!Return(w)
    /\ End(w)
    /\ UNCHANGED sessions

-----------------------------------------------------------------------------
(* Requests: sessionAuthFromCookie and SessionNonceMatchesWithIP *)

\* A cookie may come from any address.
Receive(w, op, n, ip) ==
    /\ job[w].op = "idle"
    /\ n \in cookies
    /\ KV!BeginGet(w)
    /\ job' = [job EXCEPT ![w] = [op |-> op, nonce |-> n, at |-> ip, row |-> NoSession]]
    /\ UNCHANGED sessions

Check(w, n, ip) == Receive(w, "check", n, ip)

Respond(w, op) ==
    /\ KV!Return(w)
    /\ job' = [job EXCEPT ![w] = [op |-> op, nonce |-> job[w].nonce, at |-> job[w].at,
                                  row |-> NoSession]]
    /\ UNCHANGED sessions

\* Faulty variant: the address is not looked at.
AcceptAnywhere(w) ==
    /\ Got(w, "check", "done") \/ Got(w, "leave", "done")
    /\ Respond(w, IF \E k \in Places : Accepts(call[w].val, job[w].nonce, k)
                  THEN (IF job[w].op = "check" THEN "in" ELSE "clear") ELSE "out")

Verdict(w) ==
    /\ Got(w, "check", "done") \/ Got(w, "leave", "done")
    /\ Respond(w, IF Accepts(call[w].val, job[w].nonce, job[w].at)
                  THEN (IF job[w].op = "check" THEN "in" ELSE "clear") ELSE "out")

Answered(w) ==
    /\ job[w].op \in {"in", "out"}
    /\ End(w)
    /\ UNCHANGED <<db, file, hot, mirror, wiring, call, faults, stored, serial, sessions>>

-----------------------------------------------------------------------------
(* Logout: handleAuthLogout, and ClearSessionNonceForUser by an administrator *)

\* Only a cookie that is accepted may log its user out.
Logout(w, n, ip) == Receive(w, "leave", n, ip)

ClearSession(w) ==
    /\ job[w].op = "clear"
    /\ KV!BeginSet(w, NoSession)
    /\ Goto(w, "logout")
    /\ UNCHANGED sessions

\* The account has been disabled or deleted.
Dismiss(w) ==
    /\ job[w].op = "idle"
    /\ KV!BeginSet(w, NoSession)
    /\ Work(w, "logout", 0, Any, NoSession)
    /\ UNCHANGED sessions

\* The answer is the same when the store refused.
LoggedOut(w) ==
    /\ Got(w, "logout", "done") \/ Got(w, "logout", "failed")
    /\ KV!Return(w)
    /\ End(w)
    /\ UNCHANGED sessions

-----------------------------------------------------------------------------
Begin(w) ==
    \/ \E n \in Nonces : LoginAlone(w, n)
    \/ \E n \in Nonces, ip \in IPs :
         LoginBeside(w, n, ip) \/ Check(w, n, ip) \/ Logout(w, n, ip)
    \/ Dismiss(w)

Continue(w) ==
    \/ KV!Step(w) /\ UNCHANGED <<job, sessions>>
    \/ Merge(w) \/ Save(w) \/ Issue(w) \/ LoginFails(w)
    \/ Verdict(w) \/ Answered(w)
    \/ ClearSession(w) \/ LoggedOut(w)

Next ==
    \/ \E w \in Clients : Begin(w) \/ Continue(w)
    \/ PasswordStep
    \/ KV!Environment /\ UNCHANGED <<job, sessions>>

Spec == Init /\ [][Next]_vars

\* One request at a time, and nothing fails.
OneAtATime ==
    \A v, w \in Clients : job[v].op # "idle" /\ job[w].op # "idle" => v = w

SerialSpec == Init /\ [][Next /\ serial' /\ OneAtATime']_vars

-----------------------------------------------------------------------------
(* Properties *)

\* Every variable stays in its type; what is stored for a user is a session
\* value, and a request waits for the call it has made.
TypeOK ==
    /\ KV!TypeOK
    /\ job \in [Clients -> Job]
    /\ drawn \in 0..MaxNonces
    /\ tokens \subseteq 1..drawn
    /\ cookies \subseteq 1..drawn
    /\ logins \subseteq Login
    /\ \A w \in Clients :
         /\ job[w].op \in {"read", "check", "leave"} <=> call[w].step # "idle" /\ call[w].op = "get"
         /\ job[w].op \in {"login", "logout"} <=> call[w].step # "idle" /\ call[w].op = "set"

\* Whatever races, fails or is restored from a backup: a request is accepted only
\* with the nonce of a login from the same address, or of one for any address.
AcceptedWhereIssued ==
    \A w \in Clients :
        job[w].op = "in" =>
            \E l \in logins : l.nonce = job[w].nonce /\ l.at \in {Any, job[w].at}

\* One request at a time, the rows with their copy are the table of sessions that
\* SessionTable describes: logins end what they should and nothing else.
Live(v) == IF v = Nothing THEN {} ELSE {[nonce |-> v[k], at |-> k] : k \in DOMAIN v}

Table == INSTANCE SessionTable WITH
    Handlers <- Clients, Addresses <- IPs, MaxSessions <- MaxIPs,
    live <- Live(db),
    reply <- [w \in Clients |->
                IF job[w].op \in {"in", "out"}
                THEN {[nonce |-> job[w].nonce, at |-> job[w].at,
                       accepted |-> job[w].op = "in"]}
                ELSE {}]

ServesTable == Table!TableSpec
=============================================================================
