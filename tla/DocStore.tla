------------------------------ MODULE DocStore ------------------------------
(***************************************************************************)
(* The documents on the server: their rows and versions in MySQL, the      *)
(* copies of answers in Redis, and the handlers that work on both          *)
(* (internal/docs_handlers.go, docs_cache.go).                             *)
(*                                                                         *)
(* A handler is a sequence of single statements: only the deletion runs in *)
(* a transaction.  Answers to GET are stored in Redis by a goroutine after *)
(* the answer has been sent.  A change deletes the copy of the document    *)
(* and raises the number that the keys of all copies of lists begin with.  *)
(*                                                                         *)
(* The text of a document stands for its title, body, category and         *)
(* published flag, which one UPDATE writes; its tags are in other tables.  *)
(***************************************************************************)
EXTENDS Integers, FiniteSets

CONSTANTS Docs, Clients,              \* documents, and those who read them
          Texts, Labels,              \* what a document says, and the tags it may have
          None,
          MaxWrites,   \* bound: how many requests that write are sent
          MaxFaults    \* bound: how many statements of MySQL or Redis fail

ASSUME NonEmpty == Docs # {} /\ Texts # {}
ASSUME BoundsAssumption == MaxWrites \in Nat /\ MaxFaults \in Nat

\* The requests that write, numbered as they arrive; each has a handler of its own.
Writers == 1..MaxWrites

Tags == SUBSET Labels
NoTags == {}

Row == [live: BOOLEAN, text: Texts, tags: Tags, rev: Nat]
Version == [no: Nat, text: Texts]
Detail == [text: Texts, tags: Tags, rev: Nat]
List == [Docs -> Nat]   \* what of a list matters here: the revisions it shows

ASSUME NoneAssumption == None \notin Detail

Write == [op: {"none", "create", "save", "restore", "delete"},
          at: {"idle", "compare", "update", "tags", "tag", "number", "insert", "del", "incr",
               "pick", "put back", "drop", "gone"},
          doc: Docs, text: Texts, tags: Tags, keep: BOOLEAN, seen: Texts, no: Nat, made: Nat]
Get == [at: {"idle", "row", "tags", "store"},
        doc: Docs, text: Texts, tags: Tags, rev: Nat, crossed: BOOLEAN]
Listing == [at: {"idle", "redis", "rows", "store", "done"},
            key: Nat, blind: BOOLEAN, saw: List, since: List]

VARIABLES
    row,        \* kubebt_docs and kubebt_doc_tag_map; rev counts the changes
    versions,   \* kubebt_doc_versions
    detail,     \* Redis docs:v1:d:<id>
    listRev,    \* Redis docs:v1:listRev
    lists,      \* Redis docs:v1:l:<listRev>:..., copies of the unfiltered list
    page,       \* what a client looks at: one document, or the list
    write, get, listing,   \* the requests under way
    sent, faults,
    acked,      \* history: the newest revision whose writer has been told
    kept,       \* history: the texts whose writers were told that a version was kept
    late,       \* history: the copy of the document was stored across a deletion of it
    missed      \* history: Redis failed to take a deletion or an increment, or the rows of
                \* an answer broke off

mysql == <<row, versions>>
redis == <<detail, listRev, lists>>
count == <<page, sent, faults>>
history == <<acked, kept, late, missed>>
vars == <<row, versions, detail, listRev, lists, page, write, get, listing, sent, faults,
          acked, kept, late, missed>>

Types ==
    /\ row \in [Docs -> Row]
    /\ versions \in [Docs -> SUBSET Version]
    /\ detail \in [Docs -> Detail \cup {None}]
    /\ listRev \in Nat
    /\ lists \subseteq [key: Nat, saw: List]
    /\ page \in [Clients -> {"editor", "library"}]
    /\ write \in [Writers -> Write]
    /\ get \in [Clients -> Get]
    /\ listing \in [Clients -> Listing]
    /\ sent \in 0..MaxWrites /\ faults \in 0..MaxFaults
    /\ acked \in [Docs -> Nat]
    /\ kept \in [Docs -> SUBSET Texts]
    /\ late \in [Docs -> BOOLEAN]
    /\ missed \in BOOLEAN

\* No two versions of a document have one number: the unique key (doc_id, version_no).
NumberedOnce == \A d \in Docs : \A v, w \in versions[d] : v.no = w.no => v = w

\* Every variable is in its type, and every version has a number of its own, though writers
\* take numbers that others have taken as well (docsNextVersionNo).
TypeOK == Types /\ NumberedOnce

AnyDoc == CHOOSE d \in Docs : TRUE
AnyText == CHOOSE t \in Texts : TRUE
Nowhere == [d \in Docs |-> 0]

NoWrite == [op |-> "none", at |-> "idle", doc |-> AnyDoc, text |-> AnyText, tags |-> NoTags,
            keep |-> FALSE, seen |-> AnyText, no |-> 0, made |-> 0]
NoGet == [at |-> "idle", doc |-> AnyDoc, text |-> AnyText, tags |-> NoTags, rev |-> 0,
          crossed |-> FALSE]
NoListing == [at |-> "idle", key |-> 0, blind |-> FALSE, saw |-> Nowhere, since |-> Nowhere]

\* Some documents were created before, with their first version.
Init ==
    /\ \E old \in SUBSET Docs :
          /\ row = [d \in Docs |-> [live |-> d \in old, text |-> AnyText, tags |-> NoTags,
                                   rev |-> IF d \in old THEN 1 ELSE 0]]
          /\ versions = [d \in Docs |-> IF d \in old THEN {[no |-> 1, text |-> AnyText]} ELSE {}]
    /\ page \in [Clients -> {"editor", "library"}]
    /\ write = [c \in Writers |-> NoWrite]
    /\ get = [r \in Clients |-> NoGet]
    /\ listing = [l \in Clients |-> NoListing]
    /\ detail = [d \in Docs |-> None]
    /\ listRev = 0
    /\ lists = {}
    /\ sent = 0 /\ faults = 0
    /\ acked = Nowhere
    /\ kept = [d \in Docs |-> {}]
    /\ late = [d \in Docs |-> FALSE]
    /\ missed = FALSE

-----------------------------------------------------------------------------
(* Requests that write. *)

Goes(c, at) == write' = [write EXCEPT ![c] = [@ EXCEPT !.at = at]]

\* The answer leaves nothing to do: done, refused, an error.
Ends(c) == write' = [write EXCEPT ![c] = NoWrite]

\* What a statement leaves: rows that it changes have another revision.
Created(d, text) ==
    [row EXCEPT ![d] = [live |-> TRUE, text |-> text, tags |-> NoTags, rev |-> 1]]

Texted(d, text) ==
    IF row[d].live /\ row[d].text # text
    THEN [row EXCEPT ![d] = [@ EXCEPT !.text = text, !.rev = row[d].rev + 1]]
    ELSE row

Tagged(d, tags) ==
    IF row[d].live /\ row[d].tags # tags
    THEN [row EXCEPT ![d] = [@ EXCEPT !.tags = tags, !.rev = row[d].rev + 1]]
    ELSE row

Dropped(d) ==
    [row EXCEPT ![d] = [@ EXCEPT !.live = FALSE, !.tags = NoTags, !.rev = row[d].rev + 1]]

WithVersion(d, w) ==
    [versions EXCEPT ![d] = @ \cup {[no |-> w.no, text |-> w.text]}]

\* A request arrives, with the first statement of its handler if that is the next step.
Ask(c, request) ==
    /\ write[c].at = "idle" /\ c = sent + 1
    /\ write' = [write EXCEPT ![c] = request]
    /\ sent' = sent + 1
    /\ UNCHANGED <<versions, redis, page, get, listing, faults, history>>

\* INSERT INTO kubebt_docs, with a number that no document has had.  docsCreate always keeps
\* version 1.  If the answer to the INSERT is lost, the end is as if the next statement had
\* failed.
AskCreate(c) == \E d \in Docs, t \in Texts, g \in Tags :
    /\ row[d].rev = 0
    /\ row' = Created(d, t)
    /\ Ask(c, [NoWrite EXCEPT !.op = "create", !.at = "tags", !.doc = d, !.text = t, !.tags = g,
                              !.keep = TRUE, !.no = 1, !.made = 1])

\* docsUpdate reads the row.
AskSave(c) == \E d \in Docs, t \in Texts, g \in Tags :
    LET request == [NoWrite EXCEPT !.op = "save", !.doc = d, !.text = t, !.tags = g]
    IN  /\ row[d].rev > 0
        /\ \/ row[d].live /\ Ask(c, [request EXCEPT !.at = "compare", !.seen = row[d].text])
           \/ ~row[d].live /\ Ask(c, [request EXCEPT !.at = "gone"])
        /\ UNCHANGED row

\* The user picks from the versions that GET /versions has listed.
AskRestore(c) == \E d \in Docs : \E v \in versions[d] :
    /\ Ask(c, [NoWrite EXCEPT !.op = "restore", !.at = "pick", !.doc = d, !.no = v.no,
                              !.keep = TRUE])
    /\ UNCHANGED row

AskDelete(c) == \E d \in Docs :
    /\ row[d].rev > 0
    /\ Ask(c, [NoWrite EXCEPT !.op = "delete", !.at = "drop", !.doc = d])
    /\ UNCHANGED row

\* docsTagNamesFromDB; nothing is written if nothing has changed.
Compare(c) ==
    /\ write[c].at = "compare"
    /\ IF write[c].seen = write[c].text /\ row[write[c].doc].tags = write[c].tags
       THEN Ends(c)
       ELSE write' = [write EXCEPT ![c] = [@ EXCEPT !.at = "update", !.seen = AnyText]]
    /\ UNCHANGED <<mysql, redis, get, listing, count, history>>

\* UPDATE kubebt_docs, which reports the rows it has changed: none if the document is
\* gone, and none if only its tags are to change.
Update(c) ==
    LET d == write[c].doc
    IN  /\ write[c].at = "update"
        /\ row' = Texted(d, write[c].text)
        /\ IF row[d].live /\ row[d].text # write[c].text
           THEN write' = [write EXCEPT ![c] = [@ EXCEPT !.at = "tags", !.made = row'[d].rev]]
           ELSE Goes(c, "gone")
        /\ UNCHANGED <<versions, redis, get, listing, count, history>>

\* docsSyncTags, without a transaction: the rows of kubebt_doc_tag_map are deleted, then
\* inserted one by one.
MoreTags(c, tags) == write' = [write EXCEPT ![c] =
    [@ EXCEPT !.made = row'[write[c].doc].rev, !.at = "tag", !.tags = tags]]

\* All tags are written.  A save keeps a version if its request says so.
AfterTags(c) == \E keep \in BOOLEAN :
    /\ write[c].op = "create" => keep
    /\ write' = [write EXCEPT ![c] =
          [@ EXCEPT !.made = row'[write[c].doc].rev, !.keep = keep, !.tags = NoTags,
                    !.at = IF write[c].op = "create" THEN "insert"
                           ELSE IF keep THEN "number" ELSE "del"]]

ClearTags(c) ==
    LET w == write[c]
    IN  /\ w.at = "tags"
        /\ row' = Tagged(w.doc, NoTags)
        /\ IF w.tags = NoTags THEN AfterTags(c) ELSE MoreTags(c, w.tags)
        /\ UNCHANGED <<versions, redis, get, listing, count, history>>

\* The request has the tags still to be inserted.  Nobody reads those of a document that is
\* gone.
AddTag(c) ==
    LET w == write[c]
    IN  /\ w.at = "tag"
        /\ \E g \in w.tags :
              /\ row' = Tagged(w.doc, row[w.doc].tags \cup {g})
              /\ IF w.tags = {g} THEN AfterTags(c) ELSE MoreTags(c, w.tags \ {g})
        /\ UNCHANGED <<versions, redis, get, listing, count, history>>

\* docsRestoreVersion reads the version, and updates the row without asking whether
\* there is one.
Pick(c) ==
    /\ write[c].at = "pick"
    /\ IF \E v \in versions[write[c].doc] : v.no = write[c].no
       THEN \E v \in versions[write[c].doc] :
              /\ v.no = write[c].no
              /\ write' = [write EXCEPT ![c] = [@ EXCEPT !.at = "put back", !.text = v.text]]
       ELSE Goes(c, "gone")
    /\ UNCHANGED <<mysql, redis, get, listing, count, history>>

PutBack(c) ==
    LET d == write[c].doc
    IN  /\ write[c].at = "put back"
        /\ row' = Texted(d, write[c].text)
        /\ write' = [write EXCEPT ![c] = [@ EXCEPT !.at = "number", !.made = row'[d].rev]]
        /\ UNCHANGED <<versions, redis, get, listing, count, history>>

\* docsNextVersionNo: SELECT MAX(version_no), plus one.
Number(c) ==
    LET used == {v.no : v \in versions[write[c].doc]}
    IN  /\ write[c].at = "number"
        /\ \E n \in {1} \cup {m + 1 : m \in used} :
             /\ \A m \in used : m < n
             /\ write' = [write EXCEPT ![c] = [@ EXCEPT !.at = "insert", !.no = n]]
        /\ UNCHANGED <<mysql, redis, get, listing, count, history>>

\* Faulty: an error of the insertion is ignored.
InsertIgnoring(c) ==
    /\ write[c].at = "insert"
    /\ versions' = IF \E v \in versions[write[c].doc] : v.no = write[c].no
                   THEN versions ELSE WithVersion(write[c].doc, write[c])
    /\ Goes(c, "del")
    /\ UNCHANGED <<row, redis, get, listing, count, history>>

\* Faulty: the table has an index where it needs a unique key.
InsertAgain(c) ==
    /\ write[c].at = "insert"
    /\ versions' = WithVersion(write[c].doc, write[c])
    /\ Goes(c, "del")
    /\ UNCHANGED <<row, redis, get, listing, count, history>>

\* docsInsertVersion, under the unique key (doc_id, version_no).
Insert(c) ==
    /\ write[c].at = "insert"
    /\ IF \E v \in versions[write[c].doc] : v.no = write[c].no
       THEN Ends(c) /\ UNCHANGED versions
       ELSE versions' = WithVersion(write[c].doc, write[c]) /\ Goes(c, "del")
    /\ UNCHANGED <<row, redis, get, listing, count, history>>

\* docsDelete: one transaction.
Drop(c) ==
    LET d == write[c].doc
    IN  /\ write[c].at = "drop"
        /\ IF row[d].live
           THEN /\ row' = Dropped(d)
                /\ versions' = [versions EXCEPT ![d] = {}]
                /\ kept' = [kept EXCEPT ![d] = {}]
                /\ write' = [write EXCEPT ![c] = [@ EXCEPT !.at = "del", !.made = row'[d].rev]]
           ELSE Goes(c, "gone") /\ UNCHANGED <<row, versions, kept>>
        /\ UNCHANGED <<redis, get, listing, count, acked, late, missed>>

\* A statement fails for the handler, which answers with the error.  What was written
\* before stays, and so does what the statement has done if only its answer was lost.
Unheard(c) ==
    LET w == write[c]  d == write[c].doc
    IN  \/ /\ \/ w.at \in {"update", "put back"} /\ row' = Texted(d, w.text)
              \/ w.at = "tags" /\ row' = Tagged(d, NoTags)
              \/ w.at = "tag" /\ \E g \in w.tags : row' = Tagged(d, row[d].tags \cup {g})
           /\ UNCHANGED <<versions, kept>>
        \/ /\ w.at = "insert" /\ \A v \in versions[d] : v.no # w.no
           /\ versions' = WithVersion(d, w)
           /\ UNCHANGED <<row, kept>>
        \/ /\ w.at = "drop" /\ row[d].live
           /\ row' = Dropped(d)
           /\ versions' = [versions EXCEPT ![d] = {}]
           /\ kept' = [kept EXCEPT ![d] = {}]

WriteFails(c) ==
    /\ write[c].at \notin {"idle", "gone", "del", "incr"}
    /\ faults < MaxFaults /\ faults' = faults + 1
    /\ Unheard(c) \/ UNCHANGED <<row, versions, kept>>
    /\ Ends(c)
    /\ UNCHANGED <<redis, page, get, listing, sent, acked, late, missed>>

\* docsBumpDocsAPICache: DEL, then INCR; an error of either is ignored.
Fumbles ==
    /\ faults < MaxFaults /\ faults' = faults + 1
    /\ missed' = TRUE

\* Faulty: the copy of the document is forgotten.
DelNothing(c) ==
    /\ write[c].at = "del"
    /\ Goes(c, "incr")
    /\ UNCHANGED <<mysql, redis, get, listing, count, history>>

Del(c) ==
    LET d == write[c].doc
    IN  /\ write[c].at = "del"
        /\ Goes(c, "incr")
        /\ \/ /\ detail' = [detail EXCEPT ![d] = None]
              /\ late' = [late EXCEPT ![d] = FALSE]
              /\ get' = [r \in Clients |->
                           [get[r] EXCEPT !.crossed = @ \/ (get[r].doc = d
                                                           /\ get[r].at \in {"tags", "store"})]]
              /\ UNCHANGED <<faults, missed>>
           \/ Fumbles /\ UNCHANGED <<detail, late, get>>
        /\ UNCHANGED <<mysql, listRev, lists, page, listing, sent, acked, kept>>

\* The writer is told that it is done.
Incr(c) ==
    LET d == write[c].doc
    IN  /\ write[c].at = "incr"
        /\ \/ listRev' = listRev + 1 /\ UNCHANGED <<faults, missed>>
           \/ Fumbles /\ UNCHANGED listRev
        /\ acked' = [acked EXCEPT ![d] = IF @ > write[c].made THEN @ ELSE write[c].made]
        /\ kept' = IF write[c].keep THEN [kept EXCEPT ![d] = @ \cup {write[c].text}] ELSE kept
        /\ Ends(c)
        /\ UNCHANGED <<mysql, detail, lists, page, get, listing, sent, late>>

\* The user reads that there is no such document, or no such version.
ReadGone(c) ==
    /\ write[c].at = "gone"
    /\ Ends(c)
    /\ UNCHANGED <<mysql, redis, get, listing, count, history>>

-----------------------------------------------------------------------------
(* GET of a document: docsGet. *)

Moves(r, state) == get' = [get EXCEPT ![r] = state]

\* Redis fails to answer: as if it had nothing.
Misses == faults < MaxFaults /\ faults' = faults + 1

\* docsTryDetailCache: a copy is the answer, and nothing changes.
AskGet(r) == \E d \in Docs :
    /\ page[r] = "editor" /\ get[r].at = "idle" /\ row[d].rev > 0
    /\ IF detail[d] = None THEN UNCHANGED faults ELSE Misses
    /\ Moves(r, [NoGet EXCEPT !.at = "row", !.doc = d])
    /\ UNCHANGED <<mysql, redis, write, listing, page, sent, history>>

\* Faulty: the answer is stored before the tags have been read.
GetRowOnly(r) ==
    LET d == get[r].doc
    IN  /\ get[r].at = "row"
        /\ IF row[d].live
           THEN Moves(r, [get[r] EXCEPT !.at = "store", !.text = row[d].text, !.rev = row[d].rev])
           ELSE Moves(r, NoGet)
        /\ UNCHANGED <<mysql, redis, write, listing, count, history>>

GetRow(r) ==
    LET d == get[r].doc
    IN  /\ get[r].at = "row"
        /\ IF row[d].live
           THEN Moves(r, [get[r] EXCEPT !.at = "tags", !.text = row[d].text, !.rev = row[d].rev])
           ELSE Moves(r, NoGet)
        /\ UNCHANGED <<mysql, redis, write, listing, count, history>>

\* The tags come with a query of their own; then the answer is sent.
GetTags(r) ==
    /\ get[r].at = "tags"
    /\ Moves(r, [get[r] EXCEPT !.at = "store", !.tags = row[get[r].doc].tags])
    /\ UNCHANGED <<mysql, redis, write, listing, count, history>>

\* docsStoreDetailCache, in a goroutine; it may fail.
StoreDetail(r) ==
    LET d == get[r].doc
    IN  /\ get[r].at = "store"
        /\ detail' = [detail EXCEPT ![d] =
                        [text |-> get[r].text, tags |-> get[r].tags, rev |-> get[r].rev]]
        /\ late' = [late EXCEPT ![d] = get[r].crossed]
        /\ Moves(r, NoGet)
        /\ UNCHANGED <<mysql, listRev, lists, write, listing, count, acked, kept, missed>>

\* A query fails, and so does the GET; but if it fails while the tags are being fetched, those
\* fetched are taken for all (tagRows.Err is not asked).
GetFails(r) ==
    /\ \/ get[r].at \in {"row", "tags"} /\ Moves(r, NoGet) /\ Misses /\ UNCHANGED missed
       \/ /\ get[r].at = "tags" /\ Fumbles
          /\ \E tags \in SUBSET row[get[r].doc].tags :
                Moves(r, [get[r] EXCEPT !.at = "store", !.tags = tags])
    /\ UNCHANGED <<mysql, redis, write, listing, page, sent, acked, kept, late>>

EndGet(r) ==
    /\ get[r].at = "store"
    /\ Moves(r, NoGet)
    /\ UNCHANGED <<mysql, redis, write, listing, count, history>>

\* Faulty: copies are stored without an expiry.
ExpireNever(d) == FALSE /\ detail[d] # None /\ UNCHANGED vars

\* The copy expires after docsAPICacheTTL, two minutes.
ExpireDetail(d) ==
    /\ detail[d] # None
    /\ detail' = [detail EXCEPT ![d] = None]
    /\ late' = [late EXCEPT ![d] = FALSE]
    /\ UNCHANGED <<mysql, listRev, lists, write, get, listing, count, acked, kept, missed>>

-----------------------------------------------------------------------------
(* GET of the list: docsList. *)

Turns(l, state) == listing' = [listing EXCEPT ![l] = state]

\* docsListRevFromRedis.  The number is taken for 0 when Redis fails to answer; copies may
\* be left under 0 from before the first change, and from others who took it for 0.
ReadRev(l) ==
    /\ page[l] = "library" /\ listing[l].at = "idle"
    /\ \E n \in {0, listRev} :
          /\ IF n = listRev THEN UNCHANGED faults ELSE Misses
          /\ Turns(l, [NoListing EXCEPT !.at = "redis", !.key = n, !.blind = n # listRev,
                                        !.since = acked])
    /\ UNCHANGED <<mysql, redis, write, get, page, sent, history>>

\* docsTryListCache
TryList(l) ==
    /\ listing[l].at = "redis"
    /\ \/ /\ \E x \in lists :
                /\ x.key = listing[l].key
                /\ Turns(l, [listing[l] EXCEPT !.at = "done", !.saw = x.saw])
          /\ UNCHANGED faults
       \/ /\ IF \A x \in lists : x.key # listing[l].key THEN UNCHANGED faults ELSE Misses
          /\ Turns(l, [listing[l] EXCEPT !.at = "rows"])
    /\ UNCHANGED <<mysql, redis, write, get, page, sent, history>>

\* One query; then the answer is sent.
ListRows(l) ==
    /\ listing[l].at = "rows"
    /\ Turns(l, [listing[l] EXCEPT !.at = "store", !.saw = [d \in Docs |-> row[d].rev]])
    /\ UNCHANGED <<mysql, redis, write, get, count, history>>

\* As GetFails: the list may end early (rows.Err is not asked).
ListFails(l) ==
    /\ listing[l].at = "rows"
    /\ \/ Turns(l, NoListing) /\ Misses /\ UNCHANGED missed
       \/ /\ Fumbles
          /\ \E some \in SUBSET Docs :
                Turns(l, [listing[l] EXCEPT !.at = "store",
                             !.saw = [d \in Docs |-> IF d \in some THEN row[d].rev ELSE 0]])
    /\ UNCHANGED <<mysql, redis, write, get, page, sent, acked, kept, late>>

\* Faulty: the number is read again when the copy is stored.
StoreListNow(l) ==
    /\ listing[l].at = "store"
    /\ lists' = {x \in lists : x.key # listRev}
                \cup {[key |-> listRev, saw |-> listing[l].saw]}
    /\ Turns(l, NoListing)
    /\ UNCHANGED <<mysql, detail, listRev, write, get, count, history>>

\* docsStoreListCache, in a goroutine, under the number read at first.
StoreList(l) ==
    /\ listing[l].at = "store"
    /\ lists' = {x \in lists : x.key # listing[l].key}
                \cup {[key |-> listing[l].key, saw |-> listing[l].saw]}
    /\ Turns(l, NoListing)
    /\ UNCHANGED <<mysql, detail, listRev, write, get, count, history>>

EndList(l) ==
    /\ listing[l].at \in {"done", "store"}
    /\ Turns(l, NoListing)
    /\ UNCHANGED <<mysql, redis, write, get, count, history>>

ExpireList == \E x \in lists :
    /\ lists' = lists \ {x}
    /\ UNCHANGED <<mysql, detail, listRev, write, get, listing, count, history>>

-----------------------------------------------------------------------------
WriteStep(c) ==
    \/ Compare(c) \/ Update(c) \/ ClearTags(c) \/ AddTag(c)
    \/ Pick(c) \/ PutBack(c) \/ Number(c) \/ Insert(c) \/ Drop(c)
    \/ Del(c) \/ Incr(c) \/ ReadGone(c)
Writing(c) ==
    \/ AskCreate(c) \/ AskSave(c) \/ AskRestore(c) \/ AskDelete(c)
    \/ WriteStep(c) \/ WriteFails(c)

GetStep(r) == GetRow(r) \/ GetTags(r) \/ StoreDetail(r) \/ EndGet(r)
ListStep(l) == TryList(l) \/ ListRows(l) \/ StoreList(l) \/ EndList(l)

Next ==
    \/ \E c \in Writers : Writing(c)
    \/ \E r \in Clients : AskGet(r) \/ GetStep(r) \/ GetFails(r)
    \/ \E l \in Clients : ReadRev(l) \/ ListStep(l) \/ ListFails(l)
    \/ \E d \in Docs : ExpireDetail(d)
    \/ ExpireList

\* A request that reads goes on, and copies expire.
Fairness ==
    /\ \A r \in Clients : WF_vars(GetStep(r))
    /\ \A d \in Docs : WF_vars(ExpireDetail(d))

Spec == Init /\ [][Next]_vars
FairSpec == Spec /\ Fairness

-----------------------------------------------------------------------------
(* Properties. *)

\* A version whose writer was told that it was kept stays until the document is deleted,
\* whoever else writes, restores or fails meanwhile (docsUpdate, docsRestoreVersion).
KeptIsKept ==
    \A d \in Docs : row[d].live => kept[d] \subseteq {v.text : v \in versions[d]}

\* A list shows at least what its reader, or anyone else, was told before the request read
\* the number: it did so before it read the rows (docsList), and the number is raised after
\* the change (docsBumpDocsAPICache).  Excepted is a reader who could not read the number, took
\* it for 0 and is answered from a copy; what such readers store misleads no other.
ListNeverBehind ==
    \A l \in Clients :
        /\ ~missed
        /\ listing[l].at = "store" \/ (listing[l].at = "done" /\ ~listing[l].blind)
        => \A d \in Docs : listing[l].saw[d] >= listing[l].since[d]

\* The copy of a document is behind what writers were told only if it was stored by a
\* request that had read the row before the copy was deleted (docsGet).
BehindOnlyIfLate ==
    \A d \in Docs : detail[d] # None /\ ~late[d] /\ ~missed => detail[d].rev >= acked[d]

\* When nobody writes any more, the copies are right in the end.
CopiesCatchUp ==
    <>[](\A c \in Writers : write[c].at = "idle")
       => <>[](\A d \in Docs : detail[d] # None => detail[d].rev >= row[d].rev)

\* "The document does not exist": said only of documents and versions that do not exist
\* (docs_handlers.go:763).
GoneIsGone ==
    \A c \in Writers : write[c].at = "gone" /\ write[c].op = "save" =>
        ~row[write[c].doc].live

\* Whoever is answered from a copy gets the document as it is, its text and its tags of one
\* moment though they are read one after the other, once the last change of the document has
\* been told to its writer, unless the copy was stored late or something was missed.
CopyIsRow ==
    \A d \in Docs :
        detail[d] # None /\ ~late[d] /\ ~missed /\ acked[d] = row[d].rev =>
            /\ row[d].live
            /\ detail[d] = [text |-> row[d].text, tags |-> row[d].tags, rev |-> row[d].rev]
=============================================================================
