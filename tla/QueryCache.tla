----------------------------- MODULE QueryCache -----------------------------
(***************************************************************************)
(* One entry of the query cache of the console, in one browser tab: the    *)
(* page that shows it, a control that changes on the server what the entry *)
(* holds, the fetches that fill it, and other users.                       *)
(*                                                                         *)
(* How entries are fetched, shared, invalidated, aborted and dropped is    *)
(* @tanstack/react-query 5 with the defaults of App.tsx; which query is    *)
(* shown, polled or aborted, and which control refreshes it, is the screen *)
(* chosen from Screens, that is from the catalogue of the pages.  For some *)
(* paths api_response_cache.go keeps answers in Redis and repeats them     *)
(* until they expire; nothing that is written deletes them.  Entries       *)
(* do not influence each other, so one is followed at a time; if the query *)
(* has an entry per object, the page may also show the one of another      *)
(* object.                                                                 *)
(***************************************************************************)
EXTENDS Integers, Ui

CONSTANTS Screens,      \* what ScreenOf makes of the catalogue
          MaxVersion,   \* bound: how often the server's state changes
          MaxFaults     \* bound: how many requests fail

Screen == [poll: {"never", "always", "busy", "until", "stale"}, aborts: BOOLEAN,
           each: BOOLEAN, copied: BOOLEAN, needs: BOOLEAN, reload: BOOLEAN,
           from: {"here", "elsewhere"}, reach: {"every", "target", "shown", "missed"},
           changes: BOOLEAN, forgets: BOOLEAN, works: BOOLEAN]

ASSUME ScreensAssumption ==
    Screens \subseteq Screen /\ \A s \in Screens : s.needs => s.from = "here"
ASSUME BoundsAssumption == MaxVersion \in Nat /\ MaxFaults \in Nat

\* View v of a page beside control c of that page, or of another page.  What makes no
\* difference is left out: a job where nobody waits for its end, the rows of a control
\* on another page.
ScreenOf(v, c, from) ==
    LET q == v.shows  m == c.sends
    IN  [poll |-> q.poll, aborts |-> q.aborts, each |-> q.each, copied |-> q.copied,
         needs |-> c.needs /\ from = "here", reload |-> v.reload, from |-> from,
         reach |-> Reach(m, q), changes |-> Concerns(m, q), forgets |-> Forgotten(m, q),
         works |-> m.works /\ q.poll \in {"busy", "until"}]

\* Every view by itself, beside every control of its page, and beside the controls of
\* the other pages that refresh what it shows.
Idle == Control(Mutation({}, {}))

OwnScreens(pages) ==
    UNION {{ScreenOf(v, c, "here") : v \in p.views, c \in p.controls \cup {Idle}} :
              p \in pages}

OtherScreens(pages) ==
    UNION {{ScreenOf(v, c, "elsewhere") : v \in p.views,
               c \in UNION {o.controls : o \in pages \ {p}}} : p \in pages}

ScreensOf(pages) ==
    OwnScreens(pages) \cup {s \in OtherScreens(pages) : s.reach \in {"every", "target"}}

Nothing == -1
Versions == 0..MaxVersion
Answers == Versions \X BOOLEAN

VARIABLES
    screen,      \* the view and the control that are looked at
    place,       \* "here": the page shows the entry; "other": another object's; "away": no page
    version,     \* the server's state, counted by its changes
    busy,        \* the server runs a job that a mutation started
    copy,        \* the answer in Redis, if there is one
    late,        \* the answer another user's request has computed but not yet stored
    data,        \* the version the entry holds
    dataBusy,    \* the entry says that the job runs
    invalid,     \* the entry was invalidated
    aged,        \* the entry is older than staleTime
    failed,      \* the last fetch that ended has failed
    fetch,       \* "idle", "sent" or "back"
    got,         \* what the answer on its way back holds
    gotBusy,
    request,     \* the mutation: "idle", "sent" or "done" on the server
    hits,        \* it is about the object of the entry
    eye,         \* the object its callback sees: "live" follows place, else fixed by leaving
    wrote,       \* the version the mutation made
    faults,
    told,        \* history: the newest version a success message told the user of
    strayed,     \* history: a success refreshed another object's entry instead
    overlapped,  \* history: a fetch sent before a success was kept after it
    repeated,    \* history: an answer from Redis was older than a success
    forgotten    \* history: a success refreshed nothing of what it changed

server == <<version, busy>>
copies == <<copy, late>>
entry == <<data, dataBusy, invalid, aged, failed>>
fetching == <<fetch, got, gotBusy>>
sending == <<request, hits, eye, wrote>>
history == <<told, strayed, overlapped, repeated, forgotten>>
vars == <<screen, place, version, busy, copy, late, data, dataBusy, invalid, aged, failed,
          fetch, got, gotBusy, request, hits, eye, wrote, faults, told, strayed, overlapped,
          repeated, forgotten>>

Types ==
    /\ screen \in Screen
    /\ place \in {"here", "other", "away"}
    /\ version \in Versions /\ busy \in BOOLEAN
    /\ copy \subseteq Answers /\ late \subseteq Answers
    /\ data \in Versions \cup {Nothing} /\ dataBusy \in BOOLEAN
    /\ invalid \in BOOLEAN /\ aged \in BOOLEAN /\ failed \in BOOLEAN
    /\ fetch \in {"idle", "sent", "back"}
    /\ got \in Versions /\ gotBusy \in BOOLEAN
    /\ request \in {"idle", "sent", "done"} /\ hits \in BOOLEAN
    /\ eye \in {"live", "here", "other"} /\ wrote \in Versions
    /\ faults \in 0..MaxFaults
    /\ told \in Versions /\ strayed \in BOOLEAN /\ overlapped \in BOOLEAN
    /\ repeated \in BOOLEAN /\ forgotten \in BOOLEAN

Init ==
    /\ screen \in Screens
    /\ place = "away"
    /\ version = 0 /\ busy = FALSE /\ copy = {} /\ late = {}
    /\ data = Nothing /\ dataBusy = FALSE
    /\ invalid = FALSE /\ aged = FALSE /\ failed = FALSE
    /\ fetch = "idle" /\ got = 0 /\ gotBusy = FALSE
    /\ request = "idle" /\ hits = FALSE /\ eye = "live" /\ wrote = 0
    /\ faults = 0
    /\ told = 0 /\ strayed = FALSE /\ overlapped = FALSE /\ repeated = FALSE
    /\ forgotten = FALSE

-----------------------------------------------------------------------------
(* The cache. *)

Looking == place = "here"

\* Old enough, or invalidated, or empty: showing the entry fetches it.
Stale == data = Nothing \/ invalid \/ aged

Send == fetch' = "sent" /\ got' = 0 /\ gotBusy' = FALSE
Drop == fetch' = "idle" /\ got' = 0 /\ gotBusy' = FALSE

\* refetch: cancels a fetch in flight if there is data already, and joins it if not.
Refetch ==
    IF fetch # "idle" /\ data = Nothing
    THEN UNCHANGED fetching
    ELSE Send

\* Faulty: marks only (refetchType: "none").
InvalidateLater ==
    /\ invalid' = TRUE
    /\ UNCHANGED <<data, dataBusy, aged, failed, fetching, overlapped>>

\* invalidateQueries: marks the entry, and fetches it again if a page shows it.
Invalidate ==
    /\ invalid' = TRUE
    /\ UNCHANGED <<data, dataBusy, aged, failed>>
    /\ IF Looking /\ (fetch = "idle" \/ data # Nothing)
       THEN Send /\ UNCHANGED overlapped
       ELSE /\ overlapped' = (overlapped \/ (fetch # "idle" /\ hits /\ screen.changes))
            /\ UNCHANGED fetching

\* The page shows the entry: what is stale is fetched, a fetch in flight is joined.  A query
\* with refetchOnWindowFocus does so too when its window gets the focus; each of them polls,
\* so that this is one of its ticks.
Mount == IF fetch = "idle" /\ Stale THEN Send ELSE UNCHANGED fetching

\* Faulty: the signal of every query is ignored.
UnmountDeaf == UNCHANGED fetching

\* The page no longer shows the entry: a query that listens to the signal is aborted.
Unmount ==
    IF screen.aborts /\ fetch # "idle"
    THEN Drop
    ELSE UNCHANGED fetching

-----------------------------------------------------------------------------
(* The user. *)

Visit ==
    /\ place = "away"
    /\ \/ place' = "here" /\ Mount
       \/ screen.each /\ place' = "other" /\ UNCHANGED fetching
    /\ UNCHANGED <<screen, server, copies, entry, sending, faults, history>>

Switch ==
    /\ screen.each
    /\ \/ place = "other" /\ place' = "here" /\ Mount
       \/ place = "here" /\ place' = "other" /\ Unmount
    /\ UNCHANGED <<screen, server, copies, entry, sending, faults, history>>

\* The callback of a request in flight keeps the last object that its page showed.
Leave ==
    /\ place # "away"
    /\ place' = "away"
    /\ IF Looking THEN Unmount ELSE UNCHANGED fetching
    /\ eye' = IF request # "idle" /\ eye = "live" THEN place ELSE eye
    /\ UNCHANGED <<screen, server, copies, entry, request, hits, wrote, faults, history>>

Reload ==
    /\ screen.reload /\ Looking
    /\ Refetch
    /\ UNCHANGED <<screen, place, server, copies, entry, sending, faults, history>>

\* Faulty: the button is enabled before the data has loaded.
SubmitUnloaded ==
    /\ request = "idle" /\ version < MaxVersion
    /\ screen.changes \/ screen.reach # "missed"
    /\ IF screen.from = "elsewhere" THEN place = "away" ELSE place # "away"
    /\ request' = "sent"
    /\ hits' \in IF screen.from = "elsewhere" /\ screen.each THEN BOOLEAN
                 ELSE {screen.each => Looking}
    /\ eye' = "live"
    /\ UNCHANGED <<screen, place, server, copies, entry, fetching, wrote, faults, history>>

\* A control with rows to act on is there once the page shows data.  A control of
\* another page may be used while this page is not shown.
Submit ==
    /\ request = "idle" /\ version < MaxVersion
    /\ screen.changes \/ screen.reach # "missed"
    /\ IF screen.from = "elsewhere" THEN place = "away" ELSE place # "away"
    /\ screen.needs /\ Looking => data # Nothing
    /\ request' = "sent"
    /\ hits' \in IF screen.from = "elsewhere" /\ screen.each THEN BOOLEAN
                 ELSE {screen.each => Looking}
    /\ eye' = "live"
    /\ UNCHANGED <<screen, place, server, copies, entry, fetching, wrote, faults, history>>

-----------------------------------------------------------------------------
(* Answers. *)

\* Faulty: every path has a time to live.
RespondKept ==
    /\ fetch = "sent"
    /\ fetch' = "back" /\ got' = version /\ gotBusy' = busy
    /\ copy' \in {copy, {<<version, busy>>}}
    /\ UNCHANGED <<screen, place, server, late, entry, sending, faults, history>>

\* The handler is run; its answer is kept if the path has a time to live, and Redis works.
RespondAnew ==
    /\ fetch = "sent"
    /\ fetch' = "back" /\ got' = version /\ gotBusy' = busy
    /\ copy' \in IF screen.copied THEN {copy, {<<version, busy>>}} ELSE {copy}
    /\ UNCHANGED <<screen, place, server, late, entry, sending, faults, history>>

\* The handler is not run: the answer in Redis is sent once more.
RespondAgain ==
    /\ fetch = "sent"
    /\ \E a \in copy : /\ got' = a[1] /\ gotBusy' = a[2]
                        /\ repeated' = (repeated \/ a[1] < told)
    /\ fetch' = "back"
    /\ UNCHANGED <<screen, place, server, copies, entry, sending, faults, told, strayed,
                   overlapped, forgotten>>

Respond == RespondAnew \/ RespondAgain

Receive ==
    /\ fetch = "back"
    /\ Drop
    /\ data' = got /\ dataBusy' = gotBusy
    /\ invalid' = FALSE /\ aged' = FALSE /\ failed' = FALSE
    /\ strayed' = (strayed /\ got < told)
    /\ overlapped' = (overlapped /\ got < told)
    /\ repeated' = (repeated /\ got < told)
    /\ forgotten' = (forgotten /\ got < told)
    /\ UNCHANGED <<screen, place, server, copies, sending, faults, told>>

\* The fetch and its one retry fail: the entry keeps its data and counts as stale.
FetchFails ==
    /\ fetch # "idle" /\ faults < MaxFaults
    /\ Drop /\ faults' = faults + 1
    /\ invalid' = TRUE /\ failed' = TRUE
    /\ UNCHANGED <<screen, place, server, copies, data, dataBusy, aged, sending, history>>

\* The server carries out the mutation.
Apply ==
    /\ request = "sent"
    /\ request' = "done"
    /\ IF screen.changes /\ hits /\ version < MaxVersion
       THEN /\ version' = version + 1 /\ wrote' = version + 1
            /\ busy' = (busy \/ screen.works)
       ELSE wrote' = told /\ UNCHANGED server
    /\ UNCHANGED <<screen, place, copies, entry, fetching, hits, eye, faults, history>>

\* onSuccess: the user is told, and the entries the mutation names are refreshed.
SeesEntry == IF eye = "live" THEN Looking ELSE eye = "here"

Refreshes ==
    \/ screen.reach = "every"
    \/ screen.reach = "target" /\ hits
    \/ screen.reach = "shown" /\ SeesEntry

Over == request' = "idle" /\ hits' = FALSE /\ eye' = "live" /\ wrote' = 0

Succeed ==
    /\ request = "done"
    /\ Over
    /\ told' = IF told > wrote THEN told ELSE wrote
    /\ IF Refreshes
       THEN Invalidate /\ UNCHANGED <<strayed, forgotten>>
       ELSE /\ strayed' = (strayed \/ (screen.reach = "shown" /\ hits))
            /\ forgotten' = (forgotten \/ (screen.forgets /\ hits))
            /\ UNCHANGED <<entry, fetching, overlapped>>
    /\ UNCHANGED <<screen, place, server, copies, faults, repeated>>

\* onError: the request was refused, or its answer was lost after it took effect.
Fail ==
    /\ request # "idle" /\ faults < MaxFaults
    /\ Over /\ faults' = faults + 1
    /\ UNCHANGED <<screen, place, server, copies, entry, fetching, history>>

-----------------------------------------------------------------------------
(* Time and others. *)

\* Faulty: an error ends the polling.
TickUntilError ==
    /\ Looking /\ fetch = "idle" /\ ~failed
    /\ screen.poll = "always" \/ (screen.poll = "busy" /\ dataBusy)
    /\ Send
    /\ UNCHANGED <<screen, place, server, copies, entry, sending, faults, history>>

\* refetchInterval, while the page shows the entry.
Tick ==
    /\ Looking /\ fetch = "idle"
    /\ \/ screen.poll = "always"
       \/ screen.poll = "busy" /\ dataBusy
       \/ screen.poll = "until" /\ (data = Nothing \/ dataBusy)
       \/ screen.poll = "stale" /\ Stale
    /\ Send
    /\ UNCHANGED <<screen, place, server, copies, entry, sending, faults, history>>

\* staleTime, one minute, goes by.
Age ==
    /\ data # Nothing /\ ~aged
    /\ aged' = TRUE
    /\ UNCHANGED <<screen, place, server, copies, data, dataBusy, invalid, failed, fetching, sending,
                   faults, history>>

\* gcTime, five minutes without a page, goes by; a request is answered before that.
Collect ==
    /\ ~Looking /\ fetch = "idle" /\ request = "idle" /\ data # Nothing
    /\ data' = Nothing /\ dataBusy' = FALSE
    /\ invalid' = FALSE /\ aged' = FALSE /\ failed' = FALSE
    /\ UNCHANGED <<screen, place, server, copies, fetching, sending, faults, history>>

JobEnds ==
    /\ busy /\ busy' = FALSE
    /\ version' = IF version < MaxVersion THEN version + 1 ELSE version
    /\ UNCHANGED <<screen, place, copies, entry, fetching, sending, faults, history>>

Others ==
    /\ version < MaxVersion
    /\ version' = version + 1
    /\ UNCHANGED <<screen, place, busy, copies, entry, fetching, sending, faults, history>>

\* Another user's request finds no answer, runs the handler, and stores its answer some
\* time later.
OthersAsk ==
    /\ screen.copied /\ copy = {} /\ late = {} /\ version < MaxVersion
    /\ late' = {<<version, busy>>}
    /\ UNCHANGED <<screen, place, server, copy, entry, fetching, sending, faults, history>>

OthersStore ==
    /\ late # {}
    /\ copy' = late /\ late' = {}
    /\ UNCHANGED <<screen, place, server, entry, fetching, sending, faults, history>>

\* Faulty: answers are stored without an expiry.
ExpireNever == FALSE /\ copy # {} /\ UNCHANGED vars

\* The time to live of an answer, 12 to 90 seconds, goes by.
Expire ==
    /\ copy # {}
    /\ copy' = {}
    /\ UNCHANGED <<screen, place, server, late, entry, fetching, sending, faults, history>>

Next ==
    \/ Visit \/ Switch \/ Leave \/ Reload \/ Submit
    \/ Respond \/ Receive \/ FetchFails
    \/ Apply \/ Succeed \/ Fail
    \/ Tick \/ Age \/ Collect \/ JobEnds \/ Others
    \/ OthersAsk \/ OthersStore \/ Expire

\* Requests are answered, intervals tick, jobs end and time goes by; nobody has to do
\* anything.  The answer to a fetch comes at last even to a user who keeps pressing reload.
Fairness ==
    /\ SF_vars(Respond) /\ SF_vars(Receive) /\ WF_vars(Apply) /\ WF_vars(Succeed)
    /\ WF_vars(Tick) /\ WF_vars(JobEnds) /\ WF_vars(Age) /\ WF_vars(Expire)

Spec == Init /\ [][Next]_vars
FairSpec == Spec /\ Fairness

-----------------------------------------------------------------------------
(* Properties. *)

\* Only a query with an entry per object has a page for another object.
OtherIsEach == place = "other" => screen.each

\* A request about the object was sent on loaded data, if its control needs that.
SentLoaded == screen.needs /\ request # "idle" /\ hits => data # Nothing

\* Every variable stays in its type, the entry with the request that was sent from it: the
\* data on which a control was offered does not go while its request is under way.
TypeOK == Types /\ OtherIsEach /\ SentLoaded

AtRest == Looking /\ fetch = "idle" /\ ~failed

\* A page at rest shows at least what success messages have told its user, unless the
\* first load of the page was already on its way, the user had moved on to another object,
\* the server repeated an old answer, or the page is one of those that forget to refresh this
\* entry.  A page that polls gets there with its next tick.
AtRestFresh ==
    AtRest /\ screen.poll # "always" /\ ~overlapped /\ ~strayed /\ ~repeated /\ ~forgotten =>
        data >= told

\* A control that is only offered on loaded data never lets an older fetch pass for the
\* refresh after its success, if leaving the page aborts the fetch.
LoadedNeverOverlaps == screen.needs /\ screen.aborts => ~overlapped

\* What a page shows never goes back, unless the server repeats answers to its path.
ShownNeverGoesBack == [][data' >= data \/ data' = Nothing \/ screen.copied]_vars

\* Who stays on a page sees in the end what he was told, or that loading it failed, with the
\* same four exceptions.
ToldIsShown ==
    <>[]Looking =>
        <>[](data >= told \/ failed \/ overlapped \/ strayed \/ repeated \/ forgotten)

\* Who stays on a page that polls sees in the end how things stand on the server, even if
\* answers are repeated for a while.
PollCatchesUp ==
    <>[](Looking /\ screen.poll \in {"always", "stale"}) => <>[](data = version)

\* A page that polls for the end of a job, and shows it running, shows its end; one that
\* asks until it is told of the end has an answer to show even if the first fetch failed.
JobEndIsSeen ==
    <>[](Looking /\ screen.poll \in {"busy", "until"}) =>
        []<>(~dataBusy /\ (screen.poll = "until" => data # Nothing))

=============================================================================
