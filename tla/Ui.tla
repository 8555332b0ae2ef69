--------------------------------- MODULE Ui ---------------------------------
(***************************************************************************)
(* The words in which the catalogue modules (UiDns, UiCluster, ...)        *)
(* describe the pages of the console under src/react/src.                  *)
(*                                                                         *)
(* A page shows queries, each one entry (or, if its key ends with the id   *)
(* of an object, one entry per object) of the client-side cache, and       *)
(* offers controls, each of which sends a mutation and on success          *)
(* refreshes entries by the head of their key.  What a query reads and a   *)
(* mutation writes are names of what the server keeps.                     *)
(***************************************************************************)
EXTENDS FiniteSets, SequencesExt

-----------------------------------------------------------------------------
(* Queries: useQuery of @tanstack/react-query. *)

\* The fixed part of the key, and what the answer depends on on the server.
Query(key, reads) ==
    [key |-> key, each |-> FALSE, reads |-> reads, poll |-> "never", aborts |-> TRUE,
     copied |-> FALSE]

\* The key also names the object that is shown (a route parameter, a selection).
Each(q) == [q EXCEPT !.each = TRUE]

\* refetchInterval is a constant, or a function of the data that asks for
\* another fetch as long as the data says that a job is running.
Polled(q) == [q EXCEPT !.poll = "always"]
PolledWhileBusy(q) == [q EXCEPT !.poll = "busy"]

\* So does one that asks until the data says that the job has ended.
PolledUntilDone(q) == [q EXCEPT !.poll = "until"]

\* A timer of the page calls fetchQuery, which fetches only what is stale.
PolledIfStale(q) == [q EXCEPT !.poll = "stale"]

\* The query function ignores the abort signal: leaving the page does not cancel it.
Deaf(q) == [q EXCEPT !.aborts = FALSE]

\* The server keeps answers to this path for a while, and repeats them.
Copied(q) == [q EXCEPT !.copied = TRUE]

-----------------------------------------------------------------------------
(* Mutations: useMutation, or a handler that awaits a call of lib/api. *)

\* What a success refreshes: every entry under a key, the entry of the object the
\* mutation was sent for, or that of the object the page shows when it succeeds.
Every(key) == [key |-> key, at |-> "every"]
Target(key) == [key |-> key, at |-> "target"]
Shown(key) == [key |-> key, at |-> "shown"]

Mutation(writes, refreshes) ==
    [writes |-> writes, refreshes |-> refreshes, leaves |-> {}, forgets |-> {},
     works |-> FALSE]

\* The server goes on working after it has answered.
Works(m) == [m EXCEPT !.works = TRUE]

\* The mutation deletes the object that the page shows of these, and the page is left.
Leaves(m, reads) == [m EXCEPT !.leaves = reads]

\* A success refreshes nothing of these, though the page goes on showing them.
Forgets(m, reads) == [m EXCEPT !.forgets = reads]

-----------------------------------------------------------------------------
(* Controls: a button, a switch, or a dialog with a form or a question to confirm. *)

Control(m) == [sends |-> m, needs |-> FALSE]

\* Only offered where the page shows loaded data: in a row of a table, in a form about
\* the object that is shown.
RowControl(m) == [Control(m) EXCEPT !.needs = TRUE]

-----------------------------------------------------------------------------
(* Pages: a component under one route, or a dialog with queries of its own. *)

\* A view shows one query; a reloadable one has a button that fetches again.
View(q) == [shows |-> q, reload |-> FALSE]
Reloadable(q) == [shows |-> q, reload |-> TRUE]

Page(views, controls) == [views |-> views, controls |-> controls]

-----------------------------------------------------------------------------
(* How a mutation concerns a query. *)

Concerns(m, q) == (m.writes \cap q.reads) \ m.leaves # {}

Forgotten(m, q) == m.forgets \cap q.reads # {}

\* Which entries of q a success of m refreshes; a key matches all that begin with it.
Reach(m, q) ==
    LET hit(at) == \E r \in m.refreshes :
                      IsPrefix(r.key, q.key) /\ (r.at = at \/ (at = "every" /\ ~q.each))
    IN  CASE hit("every") -> "every"
          [] ~hit("every") /\ hit("target") -> "target"
          [] ~hit("every") /\ ~hit("target") /\ hit("shown") -> "shown"
          [] OTHER -> "missed"

=============================================================================
