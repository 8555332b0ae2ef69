----------------------------- MODULE SessionTable -----------------------------
(***************************************************************************)
(* What a user may expect of sessions (internal/session_nonce.go): a table *)
(* of the logins that are in force.  A login ends the others, or, for an   *)
(* account that may be used from several addresses, only that of its own   *)
(* address and one that was for any address.  At most MaxSessions stay.  A *)
(* request is accepted if its login is in force at its address.            *)
(***************************************************************************)
EXTENDS Naturals, FiniteSets

CONSTANTS
    Handlers,     \* requests under way
    Nonces,       \* what a cookie holds
    Addresses,    \* where requests come from
    Any,          \* the address of a login that is the only one
    MaxSessions   \* entries that are kept

VARIABLES
    live,   \* the logins in force
    reply   \* for every request, the answer if there is one

tableVars == <<live, reply>>

TableInit == live = {} /\ reply = [h \in Handlers |-> {}]

SignIn(n, at) ==
    LET others == {l \in live : at # Any /\ l.at \notin {Any, at}}
        all == others \union {[nonce |-> n, at |-> at]}
    IN  /\ live' \in SUBSET all
        /\ IF Cardinality(all) <= MaxSessions
           THEN live' = all
           ELSE Cardinality(live') = MaxSessions
        /\ UNCHANGED reply

SignOut == live' = {} /\ UNCHANGED reply

InForce(n, ip) == \E l \in live : l.nonce = n /\ l.at \in {Any, ip}

Respond(h, n, ip) ==
    /\ reply[h] = {}
    /\ reply' = [reply EXCEPT ![h] =
                   {[nonce |-> n, at |-> ip, accepted |-> InForce(n, ip)]}]
    /\ UNCHANGED live

Dismiss(h) ==
    /\ reply[h] # {}
    /\ reply' = [reply EXCEPT ![h] = {}]
    /\ UNCHANGED live

TableNext ==
    \/ \E n \in Nonces, at \in Addresses \union {Any} : SignIn(n, at)
    \/ SignOut
    \/ \E h \in Handlers :
         \/ \E n \in Nonces, ip \in Addresses : Respond(h, n, ip)
         \/ Dismiss(h)

TableSpec == TableInit /\ [][TableNext]_tableVars
=============================================================================
