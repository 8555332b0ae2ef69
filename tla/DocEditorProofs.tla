--------------------------- MODULE DocEditorProofs ---------------------------
(* That the editor of a document is filled before it is trusted, and never   *)
(* undoes what it has saved itself, for every bound on writes and faults.    *)
EXTENDS DocEditor, TLAPS

Excused == early \/ strayed \/ behind

\* Nobody is told of, or waits to be told of, a revision the server does not have.
ToldExists ==
    rev # Gone => told <= rev /\ \A q \in Requests : request[q].made <= rev

\* A request that is under way was sent by a page that had loaded, or the page has
\* loaded since.
SentLoaded == ~early => \A q \in Requests : request[q].at # "idle" => data # None

BackHolds == fetch = "back" => got # None /\ (~Excused => got >= told)

\* What is in the cache and was not invalidated is good enough to be shown as it is.
FreshIsEnough == ~Excused /\ data # None /\ ~invalid => data >= told

BasisKept == open = "doc" /\ data # None => body.basis >= data

RestIsEnough == AtRest /\ ~Excused => body.basis >= told

Inv ==
    /\ Types /\ LoadedIsOwn /\ ToldExists /\ SentLoaded /\ BackHolds
    /\ FreshIsEnough /\ BasisKept /\ RestIsEnough

-----------------------------------------------------------------------------
(* Types *)

LEMMA BodiesAreBodies ==
    /\ NoBody \in Body
    /\ \A r \in Nat : Filled(r) \in Body
    /\ NoRequest \in Request
  BY DEF NoBody, Body, Filled, NoRequest, Request, Savers, None

\* The provers do arithmetic or Booleans, not both.
LEMMA Numbers ==
    /\ None \in Nat /\ 0 \in 0..MaxFaults
    /\ {None, 1} \subseteq Gone..MaxRevs
  BY BoundsAssumption DEF None, Gone

LEMMA InitType == Init => Types
<1> SUFFICES ASSUME Init PROVE Types
  OBVIOUS
<1>1. rev \in Gone..MaxRevs /\ faults \in 0..MaxFaults
  BY Numbers DEF Init
<1>2. request \in [Requests -> Request] /\ body \in Body
  BY BodiesAreBodies DEF Init
<1>3. data \in Nat /\ got \in Nat /\ told \in Nat
  BY Numbers, Zenon DEF Init
<1> QED BY <1>1, <1>2, <1>3, Zenon DEF Init, Types

\* What is done to a request leaves the requests of their type.
LEMMA RequestType ==
    ASSUME Types, NEW q \in Requests, NEW r \in Request
    PROVE  Send(q, r) => request' \in [Requests -> Request]
  BY DEF Types, Send

\* What the page does to the text leaves it a text.
LEMMA BodyType ==
    ASSUME Types
    PROVE  /\ [NoBody EXCEPT !.of = "other"] \in Body
           /\ [body EXCEPT !.typed = TRUE] \in Body
           /\ [body EXCEPT !.sent = {}] \in Body
           /\ \A q \in Savers : [body EXCEPT !.sent = @ \cup {q}] \in Body
           /\ \A q : [body EXCEPT !.sent = @ \ {q}] \in Body
           /\ \A q : \A r \in Nat : Known(q, r) \in Body
  BY BodiesAreBodies DEF Types, Body, NoBody, Known, Savers

LEMMA ShowType ==
    ASSUME Types, Show \/ ShowOther \/ ShowList
    PROVE  /\ open' \in {"doc", "other", "list"} /\ body' \in Body
           /\ fetch' \in {"idle", "sent", "back"} /\ got' \in Nat /\ failed' \in BOOLEAN
<1>1. got' \in Nat /\ fetch' \in {"idle", "sent", "back"} /\ failed' \in BOOLEAN
  BY Numbers, Zenon DEF Show, ShowOther, ShowList, NewFetch, NoFetch
<1>2. body' \in Body /\ open' \in {"doc", "other", "list"}
  BY BodiesAreBodies, BodyType DEF Show, ShowOther, ShowList, Types
<1> QED BY <1>1, <1>2

LEMMA RefreshType ==
    ASSUME Types, Refresh
    PROVE  /\ invalid' \in BOOLEAN
           /\ fetch' \in {"idle", "sent", "back"} /\ got' \in Nat /\ failed' \in BOOLEAN
  BY Numbers, Zenon DEF Types, Refresh, NewFetch, fetching

LEMMA TypeStep == Types /\ [Next]_vars => Types'
<1> SUFFICES ASSUME Types, [Next]_vars PROVE Types'
  OBVIOUS
<1> USE BoundsAssumption
<1>1. CASE Select \/ Back \/ OtherCreated \/ OtherDeleted
  <2>1. Show \/ ShowOther \/ ShowList
    BY <1>1 DEF Select, Back, OtherCreated, OtherDeleted
  <2>2. UNCHANGED <<rev, cache, request, faults, history>>
    BY <1>1 DEF Select, Back, OtherCreated, OtherDeleted
  <2> QED BY <2>1, <2>2, ShowType DEF Types, cache, history
<1>2. CASE OtherLoads \/ Type
  BY <1>2, BodyType DEF OtherLoads, Type, Types, cache, fetching, history
<1>3. CASE Respond
  <2>1. got' \in Nat /\ faults' \in 0..MaxFaults
    BY <1>3 DEF Respond, Types, Live, Gone
  <2>2. behind' \in BOOLEAN
    BY <1>3, Zenon DEF Respond, Types
  <2> QED BY <1>3, <2>1, <2>2, Zenon DEF Respond, Types, cache
<1>4. CASE Receive
  BY <1>4, BodiesAreBodies DEF Receive, NoFetch, Types, None
<1>5. CASE FetchFails
  BY <1>5 DEF FetchFails, Types, history, None
<1>6. CASE Collect
  BY <1>6 DEF Collect, Types, fetching, history, None
<1>7. CASE Restore
  <2>1. [NoRequest EXCEPT !.at = "sent"] \in Request
    BY BodiesAreBodies DEF Request
  <2>2. request' \in [Requests -> Request]
    BY <1>7, <2>1, RequestType DEF Restore, Requests
  <2> QED BY <1>7, <2>2 DEF Restore, Early, Types, cache, fetching
<1>8. CASE Others
  BY <1>8 DEF Others, Types, cache, fetching, history, Live, Gone
<1>9. CASE OtherSaved
  BY <1>9, RefreshType DEF OtherSaved, Types, history
<1>10. ASSUME NEW q \in Savers, Save(q) PROVE Types'
  <2>1. [NoRequest EXCEPT !.at = "sent", !.body = [body EXCEPT !.sent = {}]] \in Request
    BY BodiesAreBodies, BodyType DEF Request
  <2>2. request' \in [Requests -> Request]
    BY <1>10, <2>1, RequestType DEF Save, Requests
  <2>3. body' \in Body
    BY <1>10, BodyType DEF Save
  <2> QED BY <1>10, <2>2, <2>3 DEF Save, Early, Types, cache, fetching
<1>11. ASSUME NEW q \in Requests, Apply(q) PROVE Types'
  <2>1. rev \in Gone..MaxRevs /\ rev' \in Gone..MaxRevs /\ rev + 1 \in Nat
    BY <1>11 DEF Apply, Room, Live, Types, Gone
  <2>2. [NoRequest EXCEPT !.at = "same"] \in Request
    BY BodiesAreBodies DEF Request
  <2>3. [NoRequest EXCEPT !.at = "done", !.made = rev + 1] \in Request
    BY <2>1, BodiesAreBodies DEF Request
  <2>4. request' \in [Requests -> Request]
    BY <1>11, <2>2, <2>3, RequestType DEF Apply
  <2> QED BY <1>11, <2>1, <2>4 DEF Apply, Types, cache, fetching, history
<1>12. ASSUME NEW q \in Requests, Done(q) PROVE Types'
  <2>1. request' \in [Requests -> Request]
    BY <1>12, BodiesAreBodies, RequestType DEF Done, Over
  <2>2. request[q].made \in Nat
    BY DEF Types, Request
  <2>3. body' \in Body /\ told' \in Nat
    BY <1>12, <2>2, BodyType DEF Done, Types
  <2> QED BY <1>12, <2>1, <2>3, RefreshType DEF Done, Types
<1>13. ASSUME NEW q \in Requests, Same(q) PROVE Types'
  <2>1. request' \in [Requests -> Request]
    BY <1>13, BodiesAreBodies, RequestType DEF Same, Over
  <2>2. body' \in Body
    BY <1>13, BodyType DEF Same
  <2>3. invalid' \in BOOLEAN /\ fetch' \in {"idle", "sent", "back"} /\ got' \in Nat
        /\ failed' \in BOOLEAN
    BY <1>13, RefreshType DEF Same, Types, fetching
  <2> QED BY <1>13, <2>1, <2>2, <2>3 DEF Same, Types, history
<1>14. ASSUME NEW q \in Requests, Fails(q) PROVE Types'
  <2>1. request' \in [Requests -> Request]
    BY <1>14, BodiesAreBodies, RequestType DEF Fails, Over
  <2>2. body' \in Body
    BY <1>14, BodyType DEF Fails
  <2> QED BY <1>14, <2>1, <2>2 DEF Fails, Types, cache, fetching, history
<1>15. CASE UNCHANGED vars
  BY <1>15 DEF vars, Types
<1> QED BY <1>1, <1>2, <1>3, <1>4, <1>5, <1>6, <1>7, <1>8, <1>9, <1>10, <1>11, <1>12,
           <1>13, <1>14, <1>15 DEF Next

-----------------------------------------------------------------------------
(* Steps *)

\* What the editor shows by the open document, the cache and the text.
Shown == /\ LoadedIsOwn /\ BasisKept /\ RestIsEnough

LEMMA ShowKeeps ==
    ASSUME Inv, Show \/ ShowOther \/ ShowList,
           UNCHANGED <<rev, cache, request, faults, history>>
    PROVE  ToldExists' /\ SentLoaded' /\ BackHolds' /\ FreshIsEnough' /\ Shown'
<1>1. ToldExists' /\ SentLoaded' /\ FreshIsEnough'
  BY Zenon DEF Inv, ToldExists, SentLoaded, FreshIsEnough, Excused, cache, history
<1>2. BackHolds'
  BY DEF Show, ShowOther, ShowList, NoFetch, NewFetch, BackHolds
<1>3. open' = "doc" => Show
  BY DEF ShowOther, ShowList
<1>4. ASSUME open' = "doc", data' # None PROVE body'.of = "doc" /\ body'.basis = data
  BY <1>3, <1>4 DEF Show, Filled, cache
<1>5. LoadedIsOwn' /\ BasisKept'
  BY <1>4 DEF LoadedIsOwn, BasisKept, cache, Inv, Types
<1>6. ASSUME AtRest', ~Excused' PROVE body'.basis >= told'
  <2>1. data # None /\ ~invalid
    BY <1>3, <1>6 DEF AtRest, Show, NewFetch, NoFetch, cache
  <2>2. ~Excused
    BY <1>6, Zenon DEF Excused, history
  <2>3. data >= told
    BY <2>1, <2>2, Zenon DEF Inv, FreshIsEnough
  <2>4. data' # None /\ open' = "doc"
    BY <1>6, Zenon DEF AtRest
  <2> QED BY <2>3, <2>4, <1>4 DEF history
<1> QED BY <1>1, <1>2, <1>5, <1>6, Zenon DEF RestIsEnough, Shown

\* Requests that end, or begin, have made nothing yet.
LEMMA MadeKeeps ==
    ASSUME Inv, UNCHANGED <<rev, told>>,
           \A q \in Requests : request'[q].made \in {request[q].made, None}
    PROVE  ToldExists'
<1> SUFFICES ASSUME rev # Gone
    PROVE told <= rev /\ \A q \in Requests : request'[q].made <= rev
  BY DEF ToldExists
<1>1. told <= rev /\ \A q \in Requests : request[q].made <= rev
  BY DEF Inv, ToldExists
<1>2. 0 <= told /\ told \in Int /\ rev \in Int
  BY DEF Inv, Types, Gone
<1>3. None <= rev
  BY <1>1, <1>2 DEF None
<1> QED BY <1>1, <1>3

\* A step that leaves the cache as it was, and of the text whose it is and what it builds on.
LEMMA TextKeeps ==
    ASSUME Inv, UNCHANGED <<open, cache, fetching, told, strayed, behind>>, early => early',
           body'.of = body.of /\ body'.basis = body.basis
    PROVE  BackHolds' /\ FreshIsEnough' /\ Shown'
<1>1. Excused => Excused'
  BY Zenon DEF Excused
<1>2. LoadedIsOwn' /\ BasisKept'
  BY DEF Inv, LoadedIsOwn, BasisKept, cache
<1>3. BackHolds' /\ FreshIsEnough'
  BY <1>1, Zenon DEF Inv, BackHolds, FreshIsEnough, cache, fetching
<1>4. RestIsEnough'
  BY <1>1, Zenon DEF Inv, RestIsEnough, AtRest, cache, fetching
<1> QED BY <1>2, <1>3, <1>4 DEF Shown

\* So does one that refreshes the document.
LEMMA RefreshKeeps ==
    ASSUME Inv, Refresh, UNCHANGED <<open, data, told, early, strayed, behind>>,
           body'.of = body.of /\ body'.basis = body.basis
    PROVE  BackHolds' /\ FreshIsEnough' /\ Shown'
<1>1. CASE open # "doc"
  <2> UNCHANGED <<open, cache, fetching, told, strayed, behind>> /\ (early => early')
    BY <1>1, Zenon DEF Refresh, cache
  <2> QED BY TextKeeps
<1>2. CASE open = "doc"
  <2>1. invalid' = TRUE /\ (fetch' = "sent" \/ (fetch # "idle" /\ UNCHANGED fetching))
    BY <1>2, Zenon DEF Refresh, NewFetch
  <2>2. Excused' <=> Excused
    BY Zenon DEF Excused
  <2>3. fetch' = "sent" \/ (fetch' = fetch /\ got' = got)
    BY <2>1, Zenon DEF fetching
  <2>4. BackHolds'
    BY <2>2, <2>3 DEF Inv, BackHolds
  <2>5. FreshIsEnough'
    BY <2>1, Zenon DEF FreshIsEnough
  <2>6. fetch' # "idle"
    BY <2>1 DEF fetching
  <2>7. RestIsEnough'
    BY <2>6, Zenon DEF RestIsEnough, AtRest
  <2>8. LoadedIsOwn' /\ BasisKept'
    BY DEF Inv, LoadedIsOwn, BasisKept
  <2> QED BY <2>4, <2>5, <2>7, <2>8 DEF Shown
<1> QED BY <1>1, <1>2

LEMMA RespondKeeps ==
    ASSUME Inv, Respond
    PROVE  ToldExists' /\ SentLoaded' /\ BackHolds' /\ FreshIsEnough' /\ Shown'
<1>1. ToldExists' /\ SentLoaded'
  BY Zenon DEF Inv, Respond, ToldExists, SentLoaded, cache
<1>2. Excused => Excused'
  BY Zenon DEF Respond, Excused
<1>3. fetch' = "back" /\ UNCHANGED <<open, body, data, invalid, told>>
  BY DEF Respond, cache
<1>4. FreshIsEnough'
  BY <1>2, <1>3, Zenon DEF Inv, FreshIsEnough
<1>5. LoadedIsOwn' /\ BasisKept' /\ RestIsEnough'
  BY <1>3 DEF Inv, LoadedIsOwn, BasisKept, RestIsEnough, AtRest
<1>6. rev \in Int /\ rev > 0 /\ told <= rev /\ told \in Nat
  BY DEF Inv, Respond, Live, ToldExists, Types, Gone
<1>7. got' # None /\ got' \in Nat
  BY <1>6 DEF Respond, None
<1>8. got' = rev \/ behind' = (behind \/ got' < told)
  BY Zenon DEF Respond
<1>9. ~Excused' => ~(got' < told)
  <2>1. CASE got' = rev
    BY <1>6, <2>1
  <2>2. CASE behind' = (behind \/ got' < told)
    BY <2>2, Zenon DEF Excused
  <2> QED BY <1>8, <2>1, <2>2
<1>10. BackHolds'
  BY <1>3, <1>6, <1>7, <1>9 DEF BackHolds
<1> QED BY <1>1, <1>4, <1>5, <1>10 DEF Shown

LEMMA ReceiveKeeps ==
    ASSUME Inv, Receive
    PROVE  ToldExists' /\ SentLoaded' /\ BackHolds' /\ FreshIsEnough' /\ Shown'
<1>1. got # None /\ (~Excused => got >= told)
  BY DEF Inv, BackHolds, Receive
<1>2. got \in Nat /\ told \in Nat /\ data \in Nat
  BY DEF Inv, Types
<1>3. ~Excused' => got >= told
  <2>1. got < told => (Excused' <=> Excused)
    BY Zenon DEF Receive, Excused
  <2> QED BY <1>1, <1>2, <2>1
<1>4. /\ data' = got /\ fetch' = "idle" /\ UNCHANGED <<open, told, rev, request>>
      /\ body' = IF got # data THEN Filled(got) ELSE body
  BY DEF Receive, NoFetch
<1>5. ToldExists'
  BY <1>4, Zenon DEF Inv, ToldExists
<1>6. SentLoaded' /\ BackHolds'
  BY <1>1, <1>4 DEF SentLoaded, BackHolds
<1>7. FreshIsEnough'
  BY <1>3, <1>4, Zenon DEF FreshIsEnough
<1>8. ASSUME open' = "doc" PROVE body'.of = "doc" /\ body'.basis >= got
  <2>1. CASE got # data
    BY <1>2, <1>4, <2>1 DEF Filled
  <2>2. CASE got = data
    BY <1>1, <1>4, <1>8, <2>2 DEF Inv, LoadedIsOwn, BasisKept
  <2> QED BY <2>1, <2>2
<1>9. LoadedIsOwn' /\ BasisKept'
  BY <1>4, <1>8 DEF LoadedIsOwn, BasisKept
<1>10. ASSUME AtRest', ~Excused' PROVE body'.basis >= told'
  <2>1. open' = "doc" /\ got >= told
    BY <1>3, <1>10, Zenon DEF AtRest
  <2>2. body' \in Body
    BY <1>2, <1>4, BodiesAreBodies DEF Inv, Types
  <2>3. body'.basis \in Nat
    BY <2>2 DEF Body
  <2> QED BY <1>2, <1>4, <1>8, <2>1, <2>3
<1> QED BY <1>5, <1>6, <1>7, <1>9, <1>10, Zenon DEF Shown, RestIsEnough

LEMMA FetchFailsKeeps ==
    ASSUME Inv, FetchFails
    PROVE  ToldExists' /\ SentLoaded' /\ BackHolds' /\ FreshIsEnough' /\ Shown'
<1>1. ToldExists' /\ SentLoaded'
  BY Zenon DEF Inv, FetchFails, ToldExists, SentLoaded, history
<1>2. BackHolds' /\ FreshIsEnough' /\ RestIsEnough'
  BY DEF FetchFails, BackHolds, FreshIsEnough, RestIsEnough, AtRest
<1>3. LoadedIsOwn' /\ BasisKept'
  BY DEF Inv, FetchFails, LoadedIsOwn, BasisKept
<1> QED BY <1>1, <1>2, <1>3 DEF Shown

LEMMA CollectKeeps ==
    ASSUME Inv, Collect
    PROVE  ToldExists' /\ SentLoaded' /\ BackHolds' /\ FreshIsEnough' /\ Shown'
<1>1. ToldExists'
  BY Zenon DEF Inv, Collect, ToldExists, history
<1>2. SentLoaded'
  BY DEF Collect, SentLoaded
<1>3. BackHolds'
  BY Zenon DEF Inv, Collect, BackHolds, Excused, fetching, history
<1>4. FreshIsEnough' /\ Shown'
  BY DEF Collect, FreshIsEnough, Shown, LoadedIsOwn, BasisKept, RestIsEnough, AtRest
<1> QED BY <1>1, <1>2, <1>3, <1>4

\* A request that is sent while nothing of the document is there makes the page early.
LEMMA SentKeeps ==
    ASSUME Inv, NEW q \in Requests, NEW r, Send(q, r), Early, UNCHANGED data
    PROVE  SentLoaded'
  BY Zenon DEF Inv, Types, SentLoaded, Send, Early

\* A request that has ended does not matter.
LEMMA OverKeeps ==
    ASSUME Inv, NEW q \in Requests, Over(q), UNCHANGED <<early, data>>
    PROVE  SentLoaded' /\ \A p \in Requests : request'[p].made \in {request[p].made, None}
<1>1. \A p \in Requests : request'[p] = request[p] \/ request'[p] = NoRequest
  BY DEF Inv, Types, Over, Send
<1>2. NoRequest.at = "idle" /\ NoRequest.made = None
  BY DEF NoRequest
<1> QED BY <1>1, <1>2, Zenon DEF Inv, SentLoaded

LEMMA SaveKeeps ==
    ASSUME Inv, NEW q \in Savers, Save(q)
    PROVE  ToldExists' /\ SentLoaded' /\ BackHolds' /\ FreshIsEnough' /\ Shown'
<1>1. /\ q \in Requests
      /\ UNCHANGED <<rev, open, cache, fetching, told, strayed, behind>> /\ Early
  BY DEF Save, Requests
<1>2. SentLoaded'
  BY <1>1, SentKeeps DEF Save, cache
<1>3. \A p \in Requests : request'[p].made \in {request[p].made, None}
  <2>1. \A p \in Requests : p # q => request'[p] = request[p]
    BY DEF Inv, Types, Save, Send
  <2>2. request'[q].made = None
    BY <1>1 DEF Inv, Types, Save, Send, NoRequest
  <2> QED BY <2>1, <2>2
<1>4. body'.of = body.of /\ body'.basis = body.basis
  BY DEF Inv, Types, Body, Save
<1> QED BY <1>1, <1>2, <1>3, <1>4, MadeKeeps, TextKeeps DEF Early

LEMMA RestoreKeeps ==
    ASSUME Inv, Restore
    PROVE  ToldExists' /\ SentLoaded' /\ BackHolds' /\ FreshIsEnough' /\ Shown'
<1>1. /\ "restore" \in Requests
      /\ UNCHANGED <<rev, open, body, cache, fetching, told, strayed, behind>> /\ Early
  BY DEF Restore, Requests
<1>2. SentLoaded'
  BY <1>1, SentKeeps DEF Restore, cache
<1>3. \A p \in Requests : request'[p].made \in {request[p].made, None}
  <2>1. \A p \in Requests : p # "restore" => request'[p] = request[p]
    BY DEF Inv, Types, Restore, Send
  <2>2. request'["restore"].made = None
    BY <1>1 DEF Inv, Types, Restore, Send, NoRequest
  <2> QED BY <2>1, <2>2
<1> QED BY <1>1, <1>2, <1>3, MadeKeeps, TextKeeps DEF Early

LEMMA ApplyKeeps ==
    ASSUME Inv, NEW q \in Requests, Apply(q)
    PROVE  ToldExists' /\ SentLoaded' /\ BackHolds' /\ FreshIsEnough' /\ Shown'
<1>1. UNCHANGED <<open, body, cache, fetching, told, early, strayed, behind>>
  BY DEF Apply, history
<1>2. BackHolds' /\ FreshIsEnough' /\ Shown'
  BY <1>1, TextKeeps
<1>3. \A p \in Requests : p # q => request'[p] = request[p]
  BY DEF Inv, Types, Apply, Send
<1>4. SentLoaded'
  <2>1. \A p \in Requests : request'[p].at # "idle" => request[p].at # "idle"
    BY <1>3, Zenon DEF Apply
  <2> QED BY <1>1, <2>1, Zenon DEF Inv, SentLoaded, cache
<1>5. ToldExists'
  <2>1. rev \in Nat /\ rev # Gone
    BY DEF Inv, Apply, Room, Live, Types, Gone
  <2>2. told <= rev /\ \A p \in Requests : request[p].made <= rev /\ request[p].made \in Nat
    BY <2>1 DEF Inv, ToldExists, Types, Request
  <2>3. \/ rev' = rev /\ request'[q].made = None
        \/ rev' = rev + 1 /\ request'[q].made = rev + 1
    BY DEF Inv, Types, Apply, Send, NoRequest
  <2>4. rev' \in Nat /\ rev <= rev' /\ request'[q].made <= rev'
    BY <2>1, <2>3 DEF None
  <2>5. told \in Nat
    BY DEF Inv, Types
  <2>6. \A p \in Requests : request'[p].made <= rev'
    <3> TAKE p \in Requests
    <3>1. CASE p = q
      BY <2>4, <3>1
    <3>2. CASE p # q
      BY <1>3, <2>1, <2>2, <2>4, <3>2
    <3> QED BY <3>1, <3>2
  <2> QED BY <1>1, <2>1, <2>2, <2>4, <2>5, <2>6 DEF ToldExists
<1> QED BY <1>2, <1>4, <1>5

LEMMA OthersKeep ==
    ASSUME Inv, Others
    PROVE  ToldExists' /\ SentLoaded' /\ BackHolds' /\ FreshIsEnough' /\ Shown'
<1>1. UNCHANGED <<open, body, cache, fetching, told, early, strayed, behind, request>>
  BY DEF Others, history
<1>2. BackHolds' /\ FreshIsEnough' /\ Shown'
  BY <1>1, TextKeeps
<1>3. SentLoaded'
  BY <1>1, Zenon DEF Inv, SentLoaded, cache
<1>4. ToldExists'
  <2>1. CASE rev' = Gone
    BY <2>1 DEF ToldExists
  <2>2. CASE rev # Gone /\ rev' = rev + 1
    BY <1>1, <2>2 DEF Inv, ToldExists, Types, Request, Gone
  <2> QED BY <2>1, <2>2 DEF Others
<1> QED BY <1>2, <1>3, <1>4

LEMMA KnownKeeps ==
    ASSUME Inv, NEW q \in Requests, NEW r \in Nat
    PROVE  /\ Known(q, r).of = body.of
           /\ Known(q, r).basis >= body.basis
           /\ Known(q, r).basis \in Nat
  BY DEF Inv, Types, Body, Known

LEMMA DoneKeeps ==
    ASSUME Inv, NEW q \in Requests, Done(q)
    PROVE  ToldExists' /\ SentLoaded' /\ BackHolds' /\ FreshIsEnough' /\ Shown'
<1>1. request[q].made \in Nat /\ told \in Nat /\ body.basis \in Nat /\ data \in Nat
  BY DEF Inv, Types, Request, Body
<1>2. SentLoaded' /\ \A p \in Requests : request'[p].made \in {request[p].made, None}
  BY OverKeeps DEF Done
<1>3. body'.of = body.of /\ body'.basis >= body.basis /\ body'.basis \in Nat
  BY <1>1, KnownKeeps DEF Done
<1>4. ToldExists'
  <2> SUFFICES ASSUME rev # Gone
      PROVE told' <= rev /\ \A p \in Requests : request'[p].made <= rev
    BY DEF Done, ToldExists
  <2>1. told <= rev /\ \A p \in Requests : request[p].made <= rev
    BY DEF Inv, ToldExists
  <2>2. told' \in {told, request[q].made}
    BY DEF Done
  <2>3. rev \in Int
    BY DEF Inv, Types, Gone
  <2>4. None <= rev
    BY <1>1, <2>1, <2>3 DEF None
  <2> QED BY <1>2, <2>1, <2>2, <2>4
<1>5. LoadedIsOwn' /\ BasisKept'
  BY <1>1, <1>3 DEF Inv, Done, LoadedIsOwn, BasisKept
<1>6. CASE open # "doc"
  <2>1. Excused' /\ open' # "doc" /\ UNCHANGED fetching
    BY <1>6, Zenon DEF Done, Refresh, Excused
  <2>2. BackHolds' /\ FreshIsEnough' /\ RestIsEnough'
    BY <2>1 DEF Inv, BackHolds, FreshIsEnough, RestIsEnough, fetching
  <2> QED BY <1>2, <1>4, <1>5, <2>2 DEF Shown
<1>7. CASE open = "doc"
  <2>1. invalid' = TRUE
        /\ (fetch' = "sent" \/ (fetch # "idle" /\ data = None /\ UNCHANGED fetching))
    BY <1>7, Zenon DEF Done, Refresh, NewFetch
  <2>2. FreshIsEnough' /\ RestIsEnough'
    BY <2>1 DEF FreshIsEnough, RestIsEnough, AtRest, fetching
  <2>3. CASE fetch' = "sent"
    BY <2>2, <2>3, <1>2, <1>4, <1>5 DEF BackHolds, Shown
  <2>4. CASE data = None /\ UNCHANGED fetching
    <3>1. early
      BY <2>4, Zenon DEF Inv, SentLoaded, Done
    <3>2. Excused'
      BY <3>1, Zenon DEF Done, Excused
    <3>3. BackHolds'
      BY <2>4, <3>2 DEF Inv, BackHolds, fetching
    <3> QED BY <2>2, <3>3, <1>2, <1>4, <1>5 DEF Shown
  <2> QED BY <2>1, <2>3, <2>4
<1> QED BY <1>6, <1>7

LEMMA SameKeeps ==
    ASSUME Inv, NEW q \in Requests, Same(q)
    PROVE  ToldExists' /\ SentLoaded' /\ BackHolds' /\ FreshIsEnough' /\ Shown'
<1>1. SentLoaded' /\ \A p \in Requests : request'[p].made \in {request[p].made, None}
  BY OverKeeps DEF Same, history
<1>2. body'.of = body.of /\ body'.basis = body.basis
  BY DEF Inv, Types, Body, Same
<1>3. ToldExists'
  BY <1>1, MadeKeeps DEF Same, history
<1>4. CASE q = "share"
  BY <1>1, <1>2, <1>3, <1>4, RefreshKeeps DEF Same, history
<1>5. CASE q # "share"
  <2>1. UNCHANGED <<open, cache, fetching, told, strayed, behind>> /\ (early => early')
    BY <1>5, Zenon DEF Same, cache, history
  <2> QED BY <1>1, <1>2, <1>3, <2>1, TextKeeps
<1> QED BY <1>4, <1>5

LEMMA FailsKeeps ==
    ASSUME Inv, NEW q \in Requests, Fails(q)
    PROVE  ToldExists' /\ SentLoaded' /\ BackHolds' /\ FreshIsEnough' /\ Shown'
<1>1. UNCHANGED <<rev, open, cache, fetching, told, early, strayed, behind>>
  BY DEF Fails, history
<1>2. SentLoaded' /\ \A p \in Requests : request'[p].made \in {request[p].made, None}
  BY <1>1, OverKeeps DEF Fails, cache
<1>3. body'.of = body.of /\ body'.basis = body.basis
  BY DEF Inv, Types, Body, Fails
<1> QED BY <1>1, <1>2, <1>3, MadeKeeps, TextKeeps

LEMMA TextStepKeeps ==
    ASSUME Inv, OtherLoads \/ Type
    PROVE  ToldExists' /\ SentLoaded' /\ BackHolds' /\ FreshIsEnough' /\ Shown'
<1>1. UNCHANGED <<rev, open, cache, fetching, request, told, early, strayed, behind>>
  BY DEF OtherLoads, Type, history
<1>2. ToldExists' /\ SentLoaded' /\ BackHolds' /\ FreshIsEnough'
  BY <1>1, Zenon DEF Inv, ToldExists, SentLoaded, BackHolds, FreshIsEnough, Excused, cache,
                     fetching
<1>3. CASE Type
  <2>1. body'.of = body.of /\ body'.basis = body.basis
    BY <1>3 DEF Inv, Types, Body, Type
  <2> QED BY <1>1, <1>2, <2>1, TextKeeps
<1>4. CASE OtherLoads
  BY <1>1, <1>2, <1>4 DEF OtherLoads, Shown, LoadedIsOwn, BasisKept, RestIsEnough, AtRest
<1> QED BY <1>3, <1>4

-----------------------------------------------------------------------------
(* The invariant *)

LEMMA InitInv == Init => Inv
<1> SUFFICES ASSUME Init PROVE Inv
  OBVIOUS
<1>1. Types
  BY InitType
<1>2. request = [q \in Requests |-> NoRequest] /\ NoRequest.made = 0 /\ NoRequest.at = "idle"
  BY DEF Init, NoRequest, None
<1>3. ToldExists /\ SentLoaded
  BY <1>2 DEF Init, ToldExists, SentLoaded, None
<1>4. LoadedIsOwn /\ BackHolds /\ FreshIsEnough /\ BasisKept /\ RestIsEnough
  BY DEF Init, LoadedIsOwn, BackHolds, FreshIsEnough, BasisKept, RestIsEnough, AtRest, None
<1> QED BY <1>1, <1>3, <1>4 DEF Inv

LEMMA InvStep == Inv /\ [Next]_vars => Inv'
<1> SUFFICES ASSUME Inv, [Next]_vars PROVE Inv'
  OBVIOUS
<1> DEFINE Rest == ToldExists' /\ SentLoaded' /\ BackHolds' /\ FreshIsEnough' /\ Shown'
<1> SUFFICES Rest
  BY TypeStep DEF Inv, Shown
<1>1. CASE Select \/ Back \/ OtherCreated \/ OtherDeleted
  <2>1. Show \/ ShowOther \/ ShowList
    BY <1>1 DEF Select, Back, OtherCreated, OtherDeleted
  <2>2. UNCHANGED <<rev, cache, request, faults, history>>
    BY <1>1 DEF Select, Back, OtherCreated, OtherDeleted
  <2>3. Rest
    BY <2>1, <2>2, ShowKeeps
  <2> QED BY <2>3
<1>2. CASE OtherLoads \/ Type
  BY <1>2, TextStepKeeps
<1>3. CASE Respond
  BY <1>3, RespondKeeps
<1>4. CASE Receive
  BY <1>4, ReceiveKeeps
<1>5. CASE FetchFails
  BY <1>5, FetchFailsKeeps
<1>6. CASE Collect
  BY <1>6, CollectKeeps
<1>7. CASE Restore
  BY <1>7, RestoreKeeps
<1>8. CASE Others
  BY <1>8, OthersKeep
<1>9. CASE OtherSaved
  <2>1. UNCHANGED <<rev, open, body, data, request, told, early, strayed, behind>> /\ Refresh
    BY <1>9 DEF OtherSaved, history
  <2>2. BackHolds' /\ FreshIsEnough' /\ Shown'
    BY <2>1, RefreshKeeps
  <2>3. ToldExists' /\ SentLoaded'
    BY <2>1, Zenon DEF Inv, ToldExists, SentLoaded
  <2> QED BY <2>2, <2>3
<1>10. ASSUME NEW q \in Savers, Save(q) PROVE Rest
  BY <1>10, SaveKeeps
<1>11. ASSUME NEW q \in Requests, Apply(q) PROVE Rest
  BY <1>11, ApplyKeeps
<1>12. ASSUME NEW q \in Requests, Done(q) PROVE Rest
  BY <1>12, DoneKeeps
<1>13. ASSUME NEW q \in Requests, Same(q) PROVE Rest
  BY <1>13, SameKeeps
<1>14. ASSUME NEW q \in Requests, Fails(q) PROVE Rest
  BY <1>14, FailsKeeps
<1>15. CASE UNCHANGED vars
  BY <1>15, Zenon DEF vars, Inv, Shown, ToldExists, SentLoaded, BackHolds, FreshIsEnough,
                      LoadedIsOwn, BasisKept, RestIsEnough, AtRest, Excused
<1> QED
  BY <1>1, <1>2, <1>3, <1>4, <1>5, <1>6, <1>7, <1>8, <1>9, <1>10, <1>11, <1>12, <1>13,
     <1>14, <1>15 DEF Next

LEMMA InvAlways == Spec => []Inv
  BY InitInv, InvStep, PTL DEF Spec

\* A fetch begins where the document is open, and ends when another page is.
LEMMA FetchedStep == FetchedIsOpen /\ [Next]_vars => FetchedIsOpen'
<1> SUFFICES ASSUME FetchedIsOpen, [Next]_vars PROVE FetchedIsOpen'
  OBVIOUS
<1>1. CASE Show \/ ShowOther \/ ShowList
  BY <1>1 DEF Show, ShowOther, ShowList, NoFetch, FetchedIsOpen
<1>2. CASE UNCHANGED open /\ (UNCHANGED fetching \/ fetch' = "idle" \/ fetch # "idle")
  BY <1>2 DEF FetchedIsOpen, fetching
<1>3. CASE UNCHANGED open /\ Refresh
  BY <1>3 DEF FetchedIsOpen, Refresh, fetching
<1>4. CASE Select \/ Back \/ OtherCreated \/ OtherDeleted
  BY <1>1, <1>4 DEF Select, Back, OtherCreated, OtherDeleted
<1>5. CASE OtherLoads \/ Type \/ Respond \/ Receive \/ FetchFails \/ Collect \/ Restore \/ Others
  BY <1>2, <1>5 DEF OtherLoads, Type, Respond, Receive, NoFetch, FetchFails, Collect, Restore,
                    Others
<1>6. CASE OtherSaved
  BY <1>3, <1>6 DEF OtherSaved
<1>7. ASSUME NEW q \in Savers, Save(q) PROVE FetchedIsOpen'
  BY <1>2, <1>7 DEF Save
<1>8. ASSUME NEW q \in Requests, Apply(q) \/ Done(q) \/ Same(q) \/ Fails(q) PROVE FetchedIsOpen'
  <2>1. CASE Apply(q) \/ Fails(q)
    BY <1>2, <2>1 DEF Apply, Fails
  <2>2. CASE Done(q)
    BY <1>3, <2>2 DEF Done
  <2>3. CASE Same(q)
    BY <1>2, <1>3, <2>3 DEF Same
  <2> QED BY <1>8, <2>1, <2>2, <2>3
<1>9. CASE UNCHANGED vars
  BY <1>2, <1>9 DEF vars, fetching
<1> QED
  BY <1>4, <1>5, <1>6, <1>7, <1>8, <1>9 DEF Next

-----------------------------------------------------------------------------
(* Theorems *)

\* Every variable of DocEditor stays in its type, for any bound, and the document is only
\* fetched for a page that has it open.
THEOREM TypeCorrect == Spec => []TypeOK
<1>1. Inv => Types
  BY DEF Inv
<1>2. Init => FetchedIsOpen
  BY DEF Init, FetchedIsOpen
<1>3. FetchedIsOpen /\ [Next]_vars => FetchedIsOpen'
  BY FetchedStep
<1> QED BY <1>1, <1>2, <1>3, InvAlways, PTL DEF Spec, TypeOK

\* Once the page has data for the open document, the text that Save would send is that
\* document's, however navigations, answers, creations and deletions interleave.
THEOREM LoadedAreOwn == Spec => []LoadedIsOwn
<1>1. Inv => LoadedIsOwn
  BY DEF Inv
<1> QED BY <1>1, InvAlways, PTL

\* In an editor at rest the text builds on everything its user was told was saved, in any
\* run without the three exceptions.
THEOREM NeverUndoOwn == Spec => []NeverUndoesOwn
<1>1. Inv => NeverUndoesOwn
  BY DEF Inv, RestIsEnough, NeverUndoesOwn, Excused
<1> QED BY <1>1, InvAlways, PTL

=============================================================================
