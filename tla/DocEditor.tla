----------------------------- MODULE DocEditor -----------------------------
(***************************************************************************)
(* The editor of the documents in one browser tab                          *)
(* (react/src/md-editor/EditorContainer.tsx), other users, and the server, *)
(* which is seen as the revisions of a document: how its handlers and its  *)
(* copies in Redis come to answer with an older one is DocStore.           *)
(*                                                                         *)
(* The editor holds one text for whichever document is open.  An effect    *)
(* fills it when the query of the open document has new data; until then   *)
(* it keeps the text of the document that was open before, and may be      *)
(* saved.  Saving, saving the settings of sharing and restoring a version  *)
(* are requests of their own, each with a callback that sees the document  *)
(* that is open when its answer comes.  Creating or deleting any document  *)
(* opens another page when it succeeds.                                    *)
(*                                                                         *)
(* One document is followed; the others are "other".                       *)
(***************************************************************************)
EXTENDS Integers

CONSTANTS MaxRevs,     \* bound: how often the document is written
          MaxFaults    \* bound: how many requests fail or are answered from an old copy

ASSUME BoundsAssumption == MaxRevs \in Nat \ {0} /\ MaxFaults \in Nat

Savers == {"save", "share"}           \* saveMut, shareSaveMut
Requests == Savers \cup {"restore"}   \* restoreMut
None == 0                             \* no data, no document yet
Gone == -1                            \* the document was deleted

Body == [of: {"doc", "other", "none"}, basis: Nat, typed: BOOLEAN, sent: SUBSET Savers]
Request == [at: {"idle", "sent", "done", "same"}, body: Body, made: Nat]

VARIABLES
    rev,       \* the server: how often the document was written, None or Gone
    open,      \* what the URL names: "doc", "other" or the "list"
    body,      \* the text in the editor: whose it is, the revision it builds on, whether it
               \* was changed, and the requests it was sent with
    data,      \* the query cache: the revision of the document it holds
    invalid,
    fetch,     \* the request for the document: "idle", "sent" or "back"
    got,
    failed,    \* it has failed
    request,   \* the mutations of the document that are under way
    faults,
    told,      \* history: the newest revision a message told the user of
    early,     \* history: the document was written to before the page had loaded it
    strayed,   \* history: a success found another document open
    behind     \* history: an answer was older than what the user had been told

cache == <<data, invalid>>
fetching == <<fetch, got, failed>>
history == <<told, early, strayed, behind>>
vars == <<rev, open, body, data, invalid, fetch, got, failed, request, faults, told, early,
          strayed, behind>>

NoBody == [of |-> "none", basis |-> None, typed |-> FALSE, sent |-> {}]
NoRequest == [at |-> "idle", body |-> NoBody, made |-> None]

Types ==
    /\ rev \in Gone..MaxRevs
    /\ open \in {"doc", "other", "list"}
    /\ body \in Body
    /\ data \in Nat /\ invalid \in BOOLEAN
    /\ fetch \in {"idle", "sent", "back"} /\ got \in Nat /\ failed \in BOOLEAN
    /\ request \in [Requests -> Request]
    /\ faults \in 0..MaxFaults
    /\ told \in Nat
    /\ early \in BOOLEAN /\ strayed \in BOOLEAN /\ behind \in BOOLEAN

\* The document is fetched for the page that has it open: an answer that comes fills the
\* text of that page.
FetchedIsOpen == fetch # "idle" => open = "doc"

\* Every variable is in its type, and no fetch outlives the page that asked for it
\* (detailQ, whose queryFn takes the signal).
TypeOK == Types /\ FetchedIsOpen

Init ==
    /\ rev \in {None, 1}
    /\ open = "list"
    /\ body = NoBody
    /\ data = None /\ invalid = FALSE
    /\ fetch = "idle" /\ got = None /\ failed = FALSE
    /\ request = [q \in Requests |-> NoRequest]
    /\ faults = 0
    /\ told = None
    /\ early = FALSE /\ strayed = FALSE /\ behind = FALSE

Live == rev > 0
Room == Live /\ rev < MaxRevs

-----------------------------------------------------------------------------
(* What is open. *)

\* The effect on [detailQ.data].
Filled(r) == [of |-> "doc", basis |-> r, typed |-> FALSE, sent |-> {}]

NoFetch == fetch' = "idle" /\ got' = None /\ failed' = FALSE
NewFetch == fetch' = "sent" /\ got' = None /\ failed' = FALSE

\* Faulty: the effect runs on an answer only, not on what the cache has.
ShowKeeping ==
    /\ open' = "doc"
    /\ UNCHANGED body
    /\ NewFetch \/ (data # None /\ ~invalid /\ NoFetch)

\* The URL names the document: it is fetched if the cache has nothing, or nothing fresh.
Show ==
    /\ open' = "doc"
    /\ body' = IF data # None THEN Filled(data) ELSE body
    /\ NewFetch \/ (data # None /\ ~invalid /\ NoFetch)

\* Faulty: the queryFn does not take the signal, and the fetch goes on.
ShowOtherDeaf ==
    /\ open' = "other"
    /\ body' \in {body, [NoBody EXCEPT !.of = "other"]}
    /\ UNCHANGED fetching

\* The URL names another one: the fetch is aborted, and the text stays until the other
\* document is there.
ShowOther ==
    /\ open' = "other"
    /\ body' \in {body, [NoBody EXCEPT !.of = "other"]}
    /\ NoFetch

\* The URL names none: a second effect empties the editor.
ShowList ==
    /\ open' = "list"
    /\ body' = NoBody
    /\ NoFetch

Select ==
    /\ \/ Live /\ open # "doc" /\ Show
       \/ open # "other" /\ ShowOther
    /\ UNCHANGED <<rev, cache, request, faults, history>>

Back ==
    /\ open # "list" /\ ShowList
    /\ UNCHANGED <<rev, cache, request, faults, history>>

\* createMarkdownMut and createExcalidrawMut open what they have made, deleteMut opens the
\* list, whatever the user has open by then.
OtherCreated ==
    /\ ShowOther
    /\ UNCHANGED <<rev, cache, request, faults, history>>

OtherDeleted ==
    /\ ShowList
    /\ UNCHANGED <<rev, cache, request, faults, history>>

OtherLoads ==
    /\ open = "other"
    /\ body' = [NoBody EXCEPT !.of = "other"]
    /\ UNCHANGED <<rev, open, cache, fetching, request, faults, history>>

\* The fields above the text can be typed in while the document is still loading.
Type ==
    /\ open # "list" /\ ~body.typed
    /\ body' = [body EXCEPT !.typed = TRUE]
    /\ UNCHANGED <<rev, open, cache, fetching, request, faults, history>>

-----------------------------------------------------------------------------
(* The query of the document. *)

\* docsGet: the present revision, or a copy that was stored too late.
Respond ==
    /\ fetch = "sent" /\ Live
    /\ fetch' = "back" /\ UNCHANGED failed
    /\ \/ got' = rev /\ UNCHANGED <<faults, behind>>
       \/ /\ faults < MaxFaults /\ faults' = faults + 1
          /\ got' \in 1..rev
          /\ behind' = (behind \/ got' < told)
    /\ UNCHANGED <<rev, open, body, cache, request, told, early, strayed>>

\* To the effect, what equals the data of the cache is the same object.
Receive ==
    /\ fetch = "back"
    /\ NoFetch
    /\ data' = got /\ invalid' = FALSE
    /\ body' = IF got # data THEN Filled(got) ELSE body
    /\ early' = (early /\ got < told)
    /\ strayed' = (strayed /\ got < told)
    /\ UNCHANGED <<rev, open, request, faults, told, behind>>

FetchFails ==
    /\ fetch # "idle"
    /\ \/ ~Live /\ UNCHANGED faults
       \/ faults < MaxFaults /\ faults' = faults + 1
    /\ fetch' = "idle" /\ got' = None /\ failed' = TRUE
    /\ invalid' = TRUE
    /\ UNCHANGED <<rev, open, body, data, request, history>>

\* gcTime, while the document is not open; requests are answered before that.
Collect ==
    /\ open # "doc" /\ data # None
    /\ \A q \in Requests : request[q].at = "idle"
    /\ data' = None /\ invalid' = FALSE
    /\ UNCHANGED <<rev, open, body, fetching, request, faults, history>>

-----------------------------------------------------------------------------
(* Requests of the user. *)

Send(q, r) == request' = [request EXCEPT ![q] = r]
Over(q) == Send(q, NoRequest)

\* A request that is sent while the page has nothing of the document yet.
Early == early' = (early \/ data = None)

\* saveDoc and the button of the share sheet: the text as it stands is sent, whether the
\* document has loaded or not.
Save(q) ==
    /\ open = "doc" /\ request[q].at = "idle" /\ Room
    /\ Send(q, [NoRequest EXCEPT !.at = "sent", !.body = [body EXCEPT !.sent = {}]])
    /\ body' = [body EXCEPT !.sent = @ \cup {q}]
    /\ Early
    /\ UNCHANGED <<rev, open, cache, fetching, faults, told, strayed, behind>>

\* A version from the sheet, whose query is left out.
Restore ==
    /\ open = "doc" /\ request["restore"].at = "idle" /\ Room
    /\ Send("restore", [NoRequest EXCEPT !.at = "sent"])
    /\ Early
    /\ UNCHANGED <<rev, open, body, cache, fetching, faults, told, strayed, behind>>

-----------------------------------------------------------------------------
(* The server. *)

\* docsUpdate leaves alone what is as it was.  What is as it was may still be written, or
\* refused (DocStore!Update): a new password, or the category and the tags of the document
\* that was open before, which the first effect leaves there if this one has none.
AsItWas(q) ==
    LET b == request[q].body
    IN  q \in Savers /\ b.of = "doc" /\ ~b.typed /\ b.basis = rev

Apply(q) ==
    /\ request[q].at = "sent" /\ Room
    /\ \/ /\ AsItWas(q)
          /\ Send(q, [NoRequest EXCEPT !.at = "same"]) /\ UNCHANGED rev
       \/ Send(q, [NoRequest EXCEPT !.at = "done", !.made = rev + 1]) /\ rev' = rev + 1
    /\ UNCHANGED <<open, body, cache, fetching, faults, history>>

\* Another user creates, writes or deletes the document, or this one does in the list.
Others ==
    /\ \/ rev < MaxRevs /\ rev # Gone /\ rev' = rev + 1
       \/ Live /\ rev' = Gone
    /\ UNCHANGED <<open, body, cache, fetching, request, faults, history>>

-----------------------------------------------------------------------------
(* Answers. *)

\* Faulty: a fetch in flight is taken for the refresh (cancelRefetch: false).
RefreshJoining ==
    IF open = "doc"
    THEN /\ invalid' = TRUE
         /\ IF fetch = "idle" THEN NewFetch ELSE UNCHANGED fetching
    ELSE UNCHANGED <<invalid, fetching>>

\* invalidateQueries(["doc", activeNumericId]), with the document that is open now.
Refresh ==
    IF open = "doc"
    THEN /\ invalid' = TRUE
         /\ IF fetch = "idle" \/ data # None THEN NewFetch ELSE UNCHANGED fetching
    ELSE UNCHANGED <<invalid, fetching>>

\* What stands in the editor now contains what it was sent with.
Known(q, r) ==
    IF q \in body.sent /\ body.of = "doc" /\ r > body.basis
    THEN [body EXCEPT !.basis = r, !.sent = @ \ {q}]
    ELSE [body EXCEPT !.sent = @ \ {q}]

Done(q) ==
    LET made == request[q].made
    IN  /\ request[q].at = "done"
        /\ Over(q)
        /\ told' = IF made > told THEN made ELSE told
        /\ body' = Known(q, made)
        /\ Refresh
        /\ strayed' = (strayed \/ open # "doc")
        /\ UNCHANGED <<rev, open, data, faults, early, behind>>

\* saveMut looks at the answer before it refreshes, shareSaveMut does not.
Same(q) ==
    /\ request[q].at = "same"
    /\ Over(q)
    /\ body' = [body EXCEPT !.sent = @ \ {q}]
    /\ IF q = "share" THEN Refresh ELSE UNCHANGED <<invalid, fetching>>
    /\ UNCHANGED <<rev, open, data, faults, history>>

\* Refused because the document is gone, or failed, or the answer is lost.
Fails(q) ==
    /\ request[q].at # "idle"
    /\ \/ request[q].at = "sent" /\ (~Live \/ AsItWas(q)) /\ UNCHANGED faults
       \/ faults < MaxFaults /\ faults' = faults + 1
    /\ Over(q)
    /\ body' = [body EXCEPT !.sent = @ \ {q}]
    /\ UNCHANGED <<rev, open, cache, fetching, history>>

\* A request about another document succeeds while this one is open.
OtherSaved ==
    /\ open = "doc" /\ Refresh
    /\ UNCHANGED <<rev, open, body, data, request, faults, history>>

Next ==
    \/ Select \/ Back \/ OtherCreated \/ OtherDeleted \/ OtherLoads \/ Type
    \/ Respond \/ Receive \/ FetchFails \/ Collect
    \/ Restore \/ Others \/ OtherSaved
    \/ \E q \in Savers : Save(q)
    \/ \E q \in Requests : Apply(q) \/ Done(q) \/ Same(q) \/ Fails(q)

Spec == Init /\ [][Next]_vars

-----------------------------------------------------------------------------
(* Properties. *)

\* Once the page has data for the open document, the text in the editor is that
\* document's: what is saved from then on is no other document's text, though the editor
\* keeps one text for all, and answers and navigations come as they like.
LoadedIsOwn == open = "doc" /\ data # None => body.of = "doc"

\* In an editor that is at rest, the text builds on everything its user was told was
\* saved: saving it undoes none of that.  Except: a request sent before the page had
\* loaded, a success that found another document open, an answer from an old copy.
AtRest == open = "doc" /\ data # None /\ fetch = "idle" /\ ~failed

NeverUndoesOwn == AtRest /\ ~early /\ ~strayed /\ ~behind => body.basis >= told

=============================================================================
