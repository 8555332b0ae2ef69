-------------------------- MODULE QueryCacheProofs --------------------------
(***************************************************************************)
(* Proofs of the invariants of QueryCache, for any catalogue of screens,   *)
(* any number of changes and of failures.                                  *)
(***************************************************************************)
EXTENDS QueryCache, TLAPS

-----------------------------------------------------------------------------
(* Types *)

LEMMA Numbers ==
    /\ 0 \in Versions /\ 0 \in 0..MaxFaults /\ Nothing \notin Versions
    /\ \A v \in Versions : v < MaxVersion => v + 1 \in Versions
    /\ \A f \in 0..MaxFaults : f < MaxFaults => f + 1 \in 0..MaxFaults
  BY BoundsAssumption DEF Versions, Nothing

LEMMA InitType == Init => Types
  BY Numbers, ScreensAssumption DEF Init, Types

LEMMA FetchType ==
    ASSUME Types, Send \/ Drop \/ UNCHANGED fetching
    PROVE  fetch' \in {"idle", "sent", "back"} /\ got' \in Versions /\ gotBusy' \in BOOLEAN
  BY Numbers DEF Types, Send, Drop, fetching

LEMMA AnswerType ==
    ASSUME Types
    PROVE  /\ version \in Versions /\ busy \in BOOLEAN
           /\ copy \subseteq Answers /\ {<<version, busy>>} \subseteq Answers
  BY DEF Types, Answers

LEMMA TypeStep == Types /\ [Next]_vars => Types'
<1> SUFFICES ASSUME Types, [Next]_vars PROVE Types'
  OBVIOUS
<1> USE DEF server, copies, entry, fetching, sending, history
<1>1. CASE Visit \/ Switch \/ Leave \/ Reload
  <2>1. fetch' \in {"idle", "sent", "back"} /\ got' \in Versions /\ gotBusy' \in BOOLEAN
    BY <1>1, FetchType DEF Visit, Switch, Leave, Reload, Mount, Unmount, Refetch
  <2>2. place' \in {"here", "other", "away"} /\ eye' \in {"live", "here", "other"}
    BY <1>1 DEF Types, Visit, Switch, Leave, Reload
  <2> QED
    BY <1>1, <2>1, <2>2 DEF Types, Visit, Switch, Leave, Reload
<1>2. CASE Submit
  <2>1. hits' \in BOOLEAN
    BY <1>2 DEF Submit, Looking
  <2> QED
    BY <1>2, <2>1 DEF Types, Submit
<1>3. CASE Receive \/ Tick
  <2>1. /\ strayed' \in BOOLEAN /\ overlapped' \in BOOLEAN /\ repeated' \in BOOLEAN
        /\ forgotten' \in BOOLEAN
    BY <1>3, Zenon DEF Types, Receive, Tick
  <2>2. fetch' \in {"idle", "sent", "back"} /\ got' \in Versions /\ gotBusy' \in BOOLEAN
    BY <1>3, FetchType DEF Types, Receive, Tick
  <2>3. invalid' \in BOOLEAN /\ aged' \in BOOLEAN /\ failed' \in BOOLEAN
    BY <1>3, Zenon DEF Types, Receive, Tick
  <2> QED
    BY <1>3, <2>1, <2>2, <2>3 DEF Types, Receive, Tick
<1>4. CASE FetchFails
  <2>1. fetch' \in {"idle", "sent", "back"} /\ got' \in Versions /\ gotBusy' \in BOOLEAN
    BY <1>4, FetchType DEF FetchFails
  <2>2. faults' \in 0..MaxFaults
    BY <1>4, Numbers DEF Types, FetchFails
  <2>3. invalid' \in BOOLEAN /\ failed' \in BOOLEAN
    BY <1>4 DEF FetchFails
  <2>4. UNCHANGED <<screen, place, version, busy, copy, late, data, dataBusy, aged, request,
                    hits, eye, wrote, told, strayed, overlapped, repeated, forgotten>>
    BY <1>4 DEF FetchFails
  <2> QED
    BY <2>1, <2>2, <2>3, <2>4 DEF Types
<1>5. CASE Apply
  <2>1. version' \in Versions /\ wrote' \in Versions
    BY <1>5, Numbers DEF Types, Apply
  <2>2. busy' \in BOOLEAN
    BY <1>5 DEF Types, Apply
  <2> QED
    BY <1>5, <2>1, <2>2 DEF Types, Apply
<1>6. CASE Succeed
  <2>1. /\ fetch' \in {"idle", "sent", "back"} /\ got' \in Versions /\ gotBusy' \in BOOLEAN
        /\ told' \in Versions
    BY <1>6, FetchType DEF Types, Succeed, Invalidate
  <2>2. UNCHANGED <<screen, place, version, busy, copy, late, data, dataBusy, aged, failed,
                    faults, repeated>>
    BY <1>6 DEF Succeed, Invalidate
  <2>3. invalid' \in BOOLEAN /\ strayed' \in BOOLEAN /\ overlapped' \in BOOLEAN
    BY <1>6 DEF Types, Succeed, Invalidate
  <2>5. forgotten' \in BOOLEAN
    BY <1>6 DEF Types, Succeed, Invalidate
  <2>4. /\ request' \in {"idle", "sent", "done"} /\ hits' \in BOOLEAN
        /\ eye' \in {"live", "here", "other"} /\ wrote' \in Versions
    BY <1>6, Numbers, Zenon DEF Succeed, Over
  <2> QED
    BY <2>1, <2>2, <2>3, <2>4, <2>5 DEF Types
<1>7. CASE Fail
  <2>1. faults' \in 0..MaxFaults
    BY <1>7, Numbers DEF Types, Fail
  <2>2. /\ request' \in {"idle", "sent", "done"} /\ hits' \in BOOLEAN
        /\ eye' \in {"live", "here", "other"} /\ wrote' \in Versions
    BY <1>7, Numbers, Zenon DEF Fail, Over
  <2>3. UNCHANGED <<screen, place, version, busy, copy, late, data, dataBusy, invalid, aged,
                    failed, fetch, got, gotBusy, told, strayed, overlapped, repeated,
                    forgotten>>
    BY <1>7 DEF Fail
  <2> QED
    BY <2>1, <2>2, <2>3 DEF Types
<1>8. CASE Age \/ Collect
  <2>1. /\ aged' \in BOOLEAN /\ dataBusy' \in BOOLEAN
        /\ invalid' \in BOOLEAN /\ failed' \in BOOLEAN
    BY <1>8, Zenon DEF Types, Age, Collect
  <2>2. data' \in Versions \cup {Nothing}
    BY <1>8, Zenon DEF Types, Age, Collect
  <2>3. UNCHANGED <<screen, place, version, busy, copy, late, fetch, got, gotBusy, request,
                    hits, eye, wrote, faults, told, strayed, overlapped, repeated, forgotten>>
    BY <1>8 DEF Age, Collect
  <2> QED
    BY <2>1, <2>2, <2>3 DEF Types
<1>9. CASE JobEnds \/ Others
  <2>1. version' \in Versions
    BY <1>9, Numbers DEF Types, JobEnds, Others
  <2>2. busy' \in BOOLEAN
    BY <1>9, Zenon DEF Types, JobEnds, Others
  <2>3. UNCHANGED <<screen, place, copy, late, data, dataBusy, invalid, aged, failed, fetch,
                    got, gotBusy, request, hits, eye, wrote, faults, told, strayed, overlapped,
                    repeated, forgotten>>
    BY <1>9 DEF JobEnds, Others
  <2> QED
    BY <2>1, <2>2, <2>3 DEF Types
<1>10. CASE UNCHANGED vars
  BY <1>10 DEF Types, vars
<1>11. CASE RespondAnew
  <2>1. got' \in Versions /\ gotBusy' \in BOOLEAN /\ copy' \subseteq Answers
    BY <1>11, AnswerType DEF RespondAnew
  <2>2. UNCHANGED <<screen, place, version, busy, late, data, dataBusy, invalid, aged, failed,
                    request, hits, eye, wrote, faults, told, strayed, overlapped, repeated,
                    forgotten>>
    BY <1>11 DEF RespondAnew
  <2>3. fetch' = "back"
    BY <1>11 DEF RespondAnew
  <2> QED
    BY <2>1, <2>2, <2>3 DEF Types
<1>12. CASE RespondAgain
  <2>1. PICK a \in copy : /\ got' = a[1] /\ gotBusy' = a[2]
                           /\ repeated' = (repeated \/ a[1] < told)
    BY <1>12 DEF RespondAgain
  <2>2. a[1] \in Versions /\ a[2] \in BOOLEAN
    BY <2>1 DEF Types, Answers
  <2>3. repeated' \in BOOLEAN
    BY <2>1, Zenon DEF Types
  <2>4. UNCHANGED <<screen, place, version, busy, copy, late, data, dataBusy, invalid, aged,
                    failed, request, hits, eye, wrote, faults, told, strayed, overlapped,
                    forgotten>>
    BY <1>12 DEF RespondAgain
  <2>5. fetch' = "back"
    BY <1>12 DEF RespondAgain
  <2>6. got' \in Versions /\ gotBusy' \in BOOLEAN
    BY <2>1, <2>2
  <2> QED
    BY <2>3, <2>4, <2>5, <2>6 DEF Types
<1>13. CASE OthersAsk \/ OthersStore \/ Expire
  <2>1. copy' \subseteq Answers /\ late' \subseteq Answers
    BY <1>13, AnswerType DEF Types, OthersAsk, OthersStore, Expire
  <2>2. UNCHANGED <<screen, place, version, busy, data, dataBusy, invalid, aged, failed, fetch,
                    got, gotBusy, request, hits, eye, wrote, faults, told, strayed, overlapped,
                    repeated, forgotten>>
    BY <1>13 DEF OthersAsk, OthersStore, Expire
  <2> QED
    BY <2>1, <2>2 DEF Types
<1> QED
  BY <1>1, <1>2, <1>3, <1>4, <1>5, <1>6, <1>7, <1>8, <1>9, <1>10, <1>11, <1>12, <1>13
  DEF Next, Respond

LEMMA ScreenStays == [Next]_vars => screen' = screen
  BY DEF Next, vars, Visit, Switch, Leave, Reload, Submit, Respond, RespondAnew, RespondAgain,
         Receive, FetchFails, Apply, Succeed, Fail, Tick, Age, Collect, JobEnds, Others,
         OthersAsk, OthersStore, Expire

-----------------------------------------------------------------------------
(* Overlaps *)

\* A query that listens to the signal has no fetch when its entry is not shown.
AbortedAway == screen.aborts /\ fetch # "idle" => Looking

\* Rows to act on are on the page that shows them.
NeedsHere == screen.needs => screen.from = "here"

Ownership == NeedsHere /\ OtherIsEach /\ AbortedAway /\ SentLoaded /\ LoadedNeverOverlaps
OverlapInv == Types /\ Ownership

LEMMA InitOverlap == Init => Ownership
  BY ScreensAssumption DEF Init, Ownership, NeedsHere, OtherIsEach, AbortedAway,
                           SentLoaded, LoadedNeverOverlaps

\* The user's steps.
LEMMA UserOverlap ==
    ASSUME OverlapInv, Visit \/ Switch \/ Leave \/ Reload
    PROVE  Ownership'
<1>1. screen' = screen /\ UNCHANGED <<data, overlapped, request, hits>>
  BY DEF Visit, Switch, Leave, Reload, entry, sending, history
<1>2. OtherIsEach'
  BY <1>1 DEF OverlapInv, Ownership, OtherIsEach, Visit, Switch, Leave, Reload
<1>3. AbortedAway'
  BY <1>1 DEF OverlapInv, Ownership, AbortedAway, Visit, Switch, Leave, Reload, Mount,
              Unmount, Refetch,
              Send, Drop, Looking, fetching
<1> QED
  BY <1>1, <1>2, <1>3 DEF OverlapInv, Ownership, NeedsHere, SentLoaded, LoadedNeverOverlaps

\* The answers: an entry that listens and has loaded is fetched again, not joined.
LEMMA SubmitOverlap ==
    ASSUME OverlapInv, Submit
    PROVE  Ownership'
<1>1. screen' = screen /\ place' = place /\ UNCHANGED <<data, overlapped, fetch>>
  BY DEF Submit, entry, fetching, history
<1>2. ASSUME screen.needs, hits' PROVE data # Nothing
  <2>1. screen.from = "here" /\ place # "away"
    <3>1. screen.from = "here"
      BY <1>2 DEF OverlapInv, Ownership, NeedsHere
    <3> QED
      BY <3>1 DEF Submit
  <2>2. screen.each => Looking
    BY <1>2, <2>1 DEF Submit
  <2>3. Looking
    BY <2>1, <2>2 DEF OverlapInv, Ownership, OtherIsEach, Looking, Types
  <2> QED
    BY <1>2, <2>3 DEF Submit
<1>3. SentLoaded'
  BY <1>1, <1>2 DEF SentLoaded
<1> QED
  BY <1>1, <1>3 DEF OverlapInv, Ownership, NeedsHere, OtherIsEach, AbortedAway,
                    LoadedNeverOverlaps, Looking

LEMMA AnswerOverlap ==
    ASSUME OverlapInv, Succeed
    PROVE  Ownership'
<1>1. screen' = screen /\ place' = place /\ data' = data /\ request' = "idle"
  BY DEF Succeed, Over, Invalidate, entry
<1>2. AbortedAway'
  BY <1>1 DEF OverlapInv, Ownership, AbortedAway, Succeed, Invalidate, Send, fetching, Looking
<1>3. ASSUME screen.needs, screen.aborts, hits, fetch # "idle"
      PROVE  Looking /\ data # Nothing
  BY <1>3 DEF OverlapInv, Ownership, AbortedAway, SentLoaded, Succeed
<1>4. screen.needs /\ screen.aborts => overlapped' = overlapped
  <2> SUFFICES ASSUME screen.needs, screen.aborts PROVE overlapped' = overlapped
    OBVIOUS
  <2>1. CASE Refreshes
    <3>1. CASE hits /\ fetch # "idle"
      BY <1>3, <2>1, <3>1, Zenon DEF Succeed, Invalidate
    <3>2. CASE ~(hits /\ fetch # "idle")
      BY <2>1, <3>2, Zenon DEF OverlapInv, Types, Succeed, Invalidate
    <3> QED
      BY <3>1, <3>2
  <2>2. CASE ~Refreshes
    BY <2>2 DEF Succeed
  <2> QED
    BY <2>1, <2>2
<1> QED
  BY <1>1, <1>2, <1>4 DEF OverlapInv, Ownership, NeedsHere, OtherIsEach, SentLoaded,
                          LoadedNeverOverlaps

LEMMA OtherOverlap ==
    ASSUME OverlapInv,
           \/ Respond \/ Receive \/ FetchFails \/ Apply \/ Fail
           \/ Tick \/ Age \/ Collect \/ JobEnds \/ Others
           \/ OthersAsk \/ OthersStore \/ Expire
    PROVE  Ownership'
<1> USE DEF Respond, RespondAnew, RespondAgain, Receive, FetchFails, Apply, Fail, Tick, Age,
            Collect, JobEnds, Others, OthersAsk, OthersStore, Expire
<1>1. screen' = screen /\ place' = place
  OBVIOUS
<1>2. overlapped' => overlapped
  BY Zenon DEF history
<1>3. AbortedAway'
  BY <1>1 DEF OverlapInv, Ownership, AbortedAway, Send, Drop, fetching, Looking
<1>4. SentLoaded'
  <2>1. CASE Collect
    BY <2>1 DEF sending, SentLoaded
  <2>2. CASE Receive
    <3>1. got \in Versions /\ Nothing \notin Versions
      BY DEF OverlapInv, Ownership, Types, Versions, Nothing
    <3> QED
      BY <2>2, <3>1, Zenon DEF OverlapInv, Ownership, SentLoaded, sending
  <2> QED
    <3>1. ASSUME ~Collect, ~Receive
          PROVE  data' = data /\ (request' # "idle" /\ hits' => request # "idle" /\ hits)
      BY <3>1 DEF Over, sending, entry
    <3> QED
      BY <1>1, <2>1, <2>2, <3>1, Zenon DEF OverlapInv, Ownership, SentLoaded
<1> QED
  BY <1>1, <1>2, <1>3, <1>4, Zenon DEF OverlapInv, Ownership, NeedsHere, OtherIsEach,
                                       LoadedNeverOverlaps

LEMMA OverlapStep == OverlapInv /\ [Next]_vars => Ownership'
<1> SUFFICES ASSUME OverlapInv, [Next]_vars PROVE Ownership'
  OBVIOUS
<1>1. CASE UNCHANGED vars
  BY <1>1 DEF vars, OverlapInv, Ownership, NeedsHere, OtherIsEach, AbortedAway, SentLoaded,
              LoadedNeverOverlaps, Looking
<1> QED
  BY <1>1, UserOverlap, SubmitOverlap, AnswerOverlap, OtherOverlap DEF Next

LEMMA OverlapAlways == Spec => []OverlapInv
<1>1. Init => OverlapInv
  BY InitType, InitOverlap DEF OverlapInv
<1>2. OverlapInv /\ [Next]_vars => OverlapInv'
  BY TypeStep, OverlapStep DEF OverlapInv
<1> QED
  BY <1>1, <1>2, PTL DEF Spec

\* Every variable stays in its type, with any number of requests, answers and failures, and
\* a request sent from loaded data finds the entry loaded until it is answered.
THEOREM TypeCorrect == Spec => []TypeOK
<1>1. OverlapInv => TypeOK
  BY DEF OverlapInv, Ownership, TypeOK
<1> QED
  BY <1>1, OverlapAlways, PTL

\* A control that is only offered on loaded data never lets an older fetch pass for the
\* refresh after its success, whatever the pages name, however slow the answers.
THEOREM LoadedNeverOverlap == Spec => []LoadedNeverOverlaps
<1>1. OverlapInv => LoadedNeverOverlaps
  BY DEF OverlapInv, Ownership
<1> QED
  BY <1>1, OverlapAlways, PTL

-----------------------------------------------------------------------------
(* Freshness *)

\* Every change a control makes to what a view shows is named in what its success
\* refreshes, unless the view polls or the page forgets it.
Named(s) == s.changes /\ s.poll # "always" => s.reach # "missed" \/ s.forgets

Excused == overlapped \/ strayed \/ repeated \/ forgotten \/ screen.poll = "always"

\* What a request has made, it made on the entry's object, or the user knows it.
MadeHere == request = "done" /\ wrote > told => screen.changes /\ hits
MadeIsPast == told <= version /\ wrote <= version

\* An answer on its way back holds what the user was told.
BackHolds == fetch = "back" /\ ~Excused => got >= told

\* So does an entry that counts as fresh.
FreshHolds == data # Nothing /\ ~invalid /\ ~Excused => data >= told

\* A page at rest shows such an entry.
RestIsFresh == AtRest => data # Nothing /\ ~invalid

FreshInv ==
    /\ Types /\ Named(screen) /\ MadeHere /\ MadeIsPast
    /\ BackHolds /\ FreshHolds /\ RestIsFresh

LEMMA InitFresh == Init /\ Named(screen) => FreshInv
<1> SUFFICES ASSUME Init, Named(screen) PROVE FreshInv
  OBVIOUS
<1>1. MadeHere /\ MadeIsPast
  BY DEF Init, MadeHere, MadeIsPast
<1>2. BackHolds /\ FreshHolds /\ RestIsFresh
  BY DEF Init, BackHolds, FreshHolds, RestIsFresh, AtRest, Looking
<1> QED
  BY <1>1, <1>2, InitType DEF FreshInv

LEMMA FreshIsEnough == FreshInv => AtRestFresh
  BY DEF FreshInv, FreshHolds, RestIsFresh, AtRestFresh, Excused

\* The user's steps: the page shows the entry, or no longer, or asks for it again.
LEMMA UserFresh ==
    ASSUME FreshInv, Visit \/ Switch \/ Leave \/ Reload \/ Tick
    PROVE  MadeHere' /\ MadeIsPast' /\ BackHolds' /\ FreshHolds' /\ RestIsFresh'
<1> USE DEF Visit, Switch, Leave, Reload, Tick
<1>1. UNCHANGED <<screen, version, data, invalid, failed, request, hits, wrote, told,
                  strayed, overlapped, repeated, forgotten>>
  BY DEF server, entry, sending, history
<1>2. MadeHere' /\ MadeIsPast' /\ FreshHolds'
  BY <1>1 DEF FreshInv, MadeHere, MadeIsPast, FreshHolds, Excused
<1>3. fetch' = "back" => fetch = "back" /\ got' = got
  BY DEF Mount, Unmount, Refetch, Send, Drop, fetching
<1>4. BackHolds'
  BY <1>1, <1>3 DEF FreshInv, BackHolds, Excused
<1>5. RestIsFresh'
  <2>1. CASE Visit \/ Switch
    BY <1>1, <2>1 DEF FreshInv, RestIsFresh, AtRest, Looking, Mount, Unmount, Send, Drop,
                      Stale, fetching
  <2>2. CASE Leave
    BY <2>2 DEF RestIsFresh, AtRest, Looking
  <2>3. CASE Reload \/ Tick
    BY <1>1, <2>3 DEF FreshInv, RestIsFresh, AtRest, Looking, Refetch, Send, fetching
  <2> QED
    BY <2>1, <2>2, <2>3
<1> QED
  BY <1>2, <1>4, <1>5

\* Steps that touch neither the entry nor its fetch.
LEMMA AsideFresh ==
    ASSUME FreshInv,
           \/ Submit \/ Apply \/ Fail \/ JobEnds \/ Others
           \/ OthersAsk \/ OthersStore \/ Expire
    PROVE  MadeHere' /\ MadeIsPast' /\ BackHolds' /\ FreshHolds' /\ RestIsFresh'
<1> USE DEF Submit, Apply, Fail, JobEnds, Others, OthersAsk, OthersStore, Expire
<1>1. UNCHANGED <<screen, place, data, invalid, failed, fetch, got, told, strayed, overlapped,
                  repeated, forgotten>>
  BY DEF server, entry, fetching, sending, history
<1>2. BackHolds' /\ FreshHolds' /\ RestIsFresh'
  BY <1>1 DEF FreshInv, BackHolds, FreshHolds, RestIsFresh, AtRest, Looking, Excused
<1>3. told \in Nat /\ version \in Nat /\ wrote \in Nat
  BY BoundsAssumption DEF FreshInv, Types, Versions
<1>4. MadeIsPast'
  BY <1>1, <1>3 DEF FreshInv, MadeIsPast, Over, server, sending
<1>5. MadeHere'
  BY <1>1, <1>3 DEF FreshInv, MadeHere, Over, sending
<1> QED
  BY <1>2, <1>4, <1>5

LEMMA FetchFresh ==
    ASSUME FreshInv, RespondAnew \/ FetchFails \/ Age \/ Collect
    PROVE  MadeHere' /\ MadeIsPast' /\ BackHolds' /\ FreshHolds' /\ RestIsFresh'
<1> USE DEF RespondAnew, FetchFails, Age, Collect
<1>1. UNCHANGED <<screen, place, version, request, hits, wrote, told, strayed, overlapped,
                  repeated, forgotten>>
  BY DEF server, sending, history
<1>2. MadeHere' /\ MadeIsPast'
  BY <1>1 DEF FreshInv, MadeHere, MadeIsPast
<1>3. told \in Nat /\ version \in Nat
  BY BoundsAssumption DEF FreshInv, Types, Versions
<1>4. BackHolds'
  BY <1>1, <1>3 DEF FreshInv, BackHolds, MadeIsPast, Excused, Drop, fetching
<1>5. FreshHolds'
  BY <1>1 DEF FreshInv, FreshHolds, Excused, entry
<1>6. RestIsFresh'
  BY <1>1 DEF FreshInv, RestIsFresh, AtRest, Looking, entry, fetching
<1> QED
  BY <1>2, <1>4, <1>5, <1>6

\* An answer from Redis that is older than a success counts as repeated.
LEMMA AgainFresh ==
    ASSUME FreshInv, RespondAgain
    PROVE  MadeHere' /\ MadeIsPast' /\ BackHolds' /\ FreshHolds' /\ RestIsFresh'
<1> USE DEF RespondAgain
<1>1. /\ UNCHANGED <<screen, place, version, data, invalid, failed, request, hits, wrote, told,
                     strayed, overlapped, forgotten>>
      /\ fetch' = "back"
  BY DEF server, entry, sending
<1>2. MadeHere' /\ MadeIsPast'
  BY <1>1 DEF FreshInv, MadeHere, MadeIsPast
<1>3. PICK a \in copy : got' = a[1] /\ repeated' = (repeated \/ a[1] < told)
  OBVIOUS
<1>4. a[1] < told \/ a[1] >= told
  BY BoundsAssumption DEF FreshInv, Types, Answers, Versions
<1>5. ~repeated' => got' >= told /\ ~repeated
  BY <1>3, <1>4, Zenon
<1>6. BackHolds'
  BY <1>1, <1>5 DEF BackHolds, Excused
<1>7. FreshHolds'
  BY <1>1, <1>5 DEF FreshInv, FreshHolds, Excused
<1>8. RestIsFresh'
  BY <1>1 DEF RestIsFresh, AtRest
<1> QED
  BY <1>2, <1>6, <1>7, <1>8

\* The answer arrives: what was excused is so no longer once the page shows enough.
LEMMA ReceiveFresh ==
    ASSUME FreshInv, Receive
    PROVE  MadeHere' /\ MadeIsPast' /\ BackHolds' /\ FreshHolds' /\ RestIsFresh'
<1> USE DEF Receive
<1>1. UNCHANGED <<screen, place, version, request, hits, wrote, told>>
  BY DEF server, sending
<1>2. MadeHere' /\ MadeIsPast'
  BY <1>1 DEF FreshInv, MadeHere, MadeIsPast
<1>3. fetch' = "idle" /\ data' = got /\ invalid' = FALSE
  BY DEF Drop
<1>4. got \in Versions /\ Nothing \notin Versions
  BY Numbers DEF FreshInv, Types
<1>5. ~Excused' => got >= told
  <2> SUFFICES ASSUME ~Excused', ~(got >= told) PROVE FALSE
    OBVIOUS
  <2>1. got < told
    BY <1>4 DEF FreshInv, Types, Versions
  <2>2. ~Excused
    BY <1>1, <2>1, Zenon DEF Excused
  <2> QED
    BY <2>2 DEF FreshInv, BackHolds
<1>6. FreshHolds'
  BY <1>1, <1>3, <1>5 DEF FreshHolds
<1> QED
  BY <1>2, <1>3, <1>4, <1>6 DEF BackHolds, RestIsFresh

\* A success tells the user of the change; the entry is fetched again or marked, or the
\* success is excused.
LEMMA SucceedFresh ==
    ASSUME FreshInv, Succeed
    PROVE  MadeHere' /\ MadeIsPast' /\ BackHolds' /\ FreshHolds' /\ RestIsFresh'
<1>1. /\ request' = "idle" /\ wrote' = 0
      /\ UNCHANGED <<screen, place, version, data, failed>>
  BY DEF Succeed, Over, Invalidate, server, entry
<1>2. told \in Nat /\ version \in Nat /\ wrote \in Nat
  BY BoundsAssumption DEF FreshInv, Types, Versions
<1>3. told' = told \/ (told' = wrote /\ wrote > told /\ screen.changes /\ hits)
  BY <1>2 DEF FreshInv, Succeed, MadeHere
<1>4. MadeHere' /\ MadeIsPast'
  BY <1>1, <1>2, <1>3 DEF FreshInv, MadeHere, MadeIsPast
<1>5. Excused => Excused'
  BY <1>1, Zenon DEF Succeed, Invalidate, Excused
<1>6. CASE Refreshes
  <2>1. invalid' = TRUE
    BY <1>6 DEF Succeed, Invalidate
  <2>2. fetch' = "back" /\ ~Excused' => fetch = "back" /\ got' = got /\ told' = told
    <3> SUFFICES ASSUME fetch' = "back", ~Excused'
                 PROVE  fetch = "back" /\ got' = got /\ told' = told
      OBVIOUS
    <3>1. fetch = "back" /\ got' = got /\ ~(Looking /\ (fetch = "idle" \/ data # Nothing))
      BY <1>6 DEF Succeed, Invalidate, Send, fetching
    <3>2. ~(hits /\ screen.changes)
      BY <1>6, <3>1, Zenon DEF Succeed, Invalidate, Excused
    <3> QED
      BY <1>3, <3>1, <3>2
  <2>3. BackHolds'
    BY <1>5, <2>2 DEF FreshInv, BackHolds
  <2>4. RestIsFresh'
    BY <1>1, <1>6 DEF Succeed, Invalidate, Send, RestIsFresh, AtRest, Looking, fetching
  <2> QED
    BY <1>4, <2>1, <2>3, <2>4 DEF FreshHolds
<1>7. CASE ~Refreshes
  <2>1. UNCHANGED <<invalid, fetch, got>>
    BY <1>7 DEF Succeed, entry, fetching
  <2>2. ~Excused' => told' = told
    <3> SUFFICES ASSUME ~Excused', screen.changes, hits PROVE FALSE
      BY <1>3
    <3>1. screen.poll # "always" /\ screen.reach # "shown" /\ ~screen.forgets
      <4>1. screen' = screen
        BY <1>1
      <4>2. /\ strayed' = (strayed \/ (screen.reach = "shown" /\ hits))
            /\ forgotten' = (forgotten \/ (screen.forgets /\ hits))
        BY <1>7, Zenon DEF Succeed
      <4> QED
        BY <4>1, <4>2, Zenon DEF Excused
    <3>2. screen.reach \in {"every", "target"}
      BY <3>1, ScreensAssumption DEF FreshInv, Types, Named, Screen
    <3> QED
      BY <1>7, <3>2 DEF Refreshes
  <2>3. BackHolds' /\ FreshHolds'
    BY <1>1, <1>5, <2>1, <2>2 DEF FreshInv, BackHolds, FreshHolds
  <2>4. RestIsFresh'
    BY <1>1, <2>1 DEF FreshInv, RestIsFresh, AtRest, Looking
  <2> QED
    BY <1>4, <2>3, <2>4
<1> QED
  BY <1>6, <1>7

LEMMA FreshStep == FreshInv /\ [Next]_vars => FreshInv'
<1> SUFFICES ASSUME FreshInv, [Next]_vars PROVE FreshInv'
  OBVIOUS
<1>1. Types'
  BY TypeStep DEF FreshInv
<1>2. screen' = screen
  BY ScreenStays
<1>3. MadeHere' /\ MadeIsPast' /\ BackHolds' /\ FreshHolds' /\ RestIsFresh'
  <2>1. CASE UNCHANGED vars
    BY <2>1 DEF FreshInv, vars, MadeHere, MadeIsPast, BackHolds, FreshHolds, RestIsFresh,
                AtRest, Looking, Excused
  <2> QED
    BY <2>1, UserFresh, AsideFresh, FetchFresh, AgainFresh, ReceiveFresh, SucceedFresh
    DEF Next, Respond
<1> QED
  BY <1>1, <1>2, <1>3 DEF FreshInv, Named

\* To name every change in what its success refreshes is all a page has to do: in any
\* catalogue of such pages, a page at rest shows what its user was told, but for the
\* overlaps, the strayed, the repeated and what it is known to forget.
THEOREM AtRestAreFresh ==
    ASSUME \A s \in Screens : Named(s)
    PROVE  Spec => []AtRestFresh
<1>1. Init => FreshInv
  <2> SUFFICES ASSUME Init PROVE FreshInv
    OBVIOUS
  <2>1. Named(screen)
    BY DEF Init
  <2> QED
    BY <2>1, InitFresh
<1>2. FreshInv /\ [Next]_vars => FreshInv'
  BY FreshStep
<1>3. FreshInv => AtRestFresh
  BY FreshIsEnough
<1> QED
  BY <1>1, <1>2, <1>3, PTL DEF Spec

-----------------------------------------------------------------------------
(* Screens with nothing to excuse *)

\* A screen whose fetches are aborted, whose control waits for the data and refreshes by a
\* key that does not follow the page, and whose path has no copies, has nothing to excuse.
Careful(s) ==
    /\ s.needs /\ s.aborts /\ s.reach # "shown" /\ ~s.forgets /\ ~s.copied
    /\ s.poll # "always"

\* Each exception of AtRestFresh has its one cause.
StrayedIsShown == strayed => screen.reach = "shown"
RepeatedIsCopied == repeated => screen.copied
ForgottenIsDeclared == forgotten => screen.forgets
CopiesOfCopied == ~screen.copied => copy = {} /\ late = {}
Causes == StrayedIsShown /\ RepeatedIsCopied /\ ForgottenIsDeclared /\ CopiesOfCopied

LEMMA InitCauses == Init => Causes
  BY DEF Init, Causes, StrayedIsShown, RepeatedIsCopied, ForgottenIsDeclared, CopiesOfCopied

LEMMA CausesStep == Types /\ Causes /\ [Next]_vars => Causes'
<1> SUFFICES ASSUME Types, Causes, [Next]_vars PROVE Causes'
  OBVIOUS
<1> USE DEF Causes, StrayedIsShown, RepeatedIsCopied, ForgottenIsDeclared, CopiesOfCopied, copies, history
<1>1. screen' = screen
  BY ScreenStays
<1>2. CASE Visit \/ Switch \/ Leave \/ Reload \/ Submit \/ FetchFails \/ Apply \/ Fail
           \/ Tick \/ Age \/ Collect \/ JobEnds \/ Others
  <2>1. UNCHANGED <<copies, strayed, repeated, forgotten>>
    BY <1>2 DEF Visit, Switch, Leave, Reload, Submit, FetchFails, Apply, Fail, Tick, Age,
                Collect, JobEnds, Others
  <2> QED
    BY <1>1, <2>1
<1>3. CASE RespondAnew
  BY <1>1, <1>3 DEF RespondAnew
<1>4. CASE RespondAgain
  BY <1>1, <1>4 DEF RespondAgain
<1>5. CASE Receive
  <2>1. /\ UNCHANGED copies /\ (strayed' => strayed) /\ (repeated' => repeated)
        /\ forgotten' => forgotten
    BY <1>5, Zenon DEF Receive
  <2> QED
    BY <1>1, <2>1
<1>6. CASE Succeed
  <2>1. UNCHANGED <<copies, repeated>>
    BY <1>6 DEF Succeed
  <2>2. strayed' => strayed \/ screen.reach = "shown"
    BY <1>6, Zenon DEF Succeed
  <2>3. forgotten' => forgotten \/ screen.forgets
    BY <1>6, Zenon DEF Succeed
  <2> QED
    BY <1>1, <2>1, <2>2, <2>3
<1>7. CASE OthersAsk \/ OthersStore \/ Expire
  <2>1. UNCHANGED <<strayed, repeated, forgotten>>
    BY <1>7 DEF OthersAsk, OthersStore, Expire
  <2>2. ~screen.copied => copy' = {} /\ late' = {}
    BY <1>7 DEF OthersAsk, OthersStore, Expire
  <2> QED
    BY <1>1, <2>1, <2>2
<1>8. CASE UNCHANGED vars
  BY <1>8 DEF vars
<1> QED
  BY <1>2, <1>3, <1>4, <1>5, <1>6, <1>7, <1>8 DEF Next, Respond

LEMMA CausesAlways == Spec => [](Types /\ Causes)
<1>1. Init => Types /\ Causes
  BY InitType, InitCauses
<1>2. Types /\ Causes /\ [Next]_vars => (Types /\ Causes)'
  BY TypeStep, CausesStep
<1> QED
  BY <1>1, <1>2, PTL DEF Spec

\* On such a screen there are no exceptions: a page at rest shows what its user was told,
\* wherever else the pages may stray or overlap.
THEOREM CarefulAreFresh ==
    ASSUME \A s \in Screens : Named(s)
    PROVE  Spec => [](Careful(screen) /\ AtRest => data >= told)
<1>1. /\ Types /\ Causes /\ LoadedNeverOverlaps /\ AtRestFresh
      => (Careful(screen) /\ AtRest => data >= told)
  BY Zenon DEF Careful, Causes, StrayedIsShown, RepeatedIsCopied, ForgottenIsDeclared,
               LoadedNeverOverlaps, AtRestFresh
<1> QED
  BY <1>1, CausesAlways, LoadedNeverOverlap, AtRestAreFresh, PTL

-----------------------------------------------------------------------------
(* Never back *)

\* Nothing that was ever answered is ahead of the server.
BehindServer ==
    /\ data <= version
    /\ fetch = "back" => got <= version
    /\ \A a \in copy \cup late : a[1] <= version

\* An answer on its way to an entry without copies is not behind what the entry holds.
BackIsNewer == fetch = "back" /\ ~screen.copied => data <= got

OrderInv == Types /\ Causes /\ BehindServer /\ BackIsNewer

\* What a step may do to the numbers.
LEMMA VersionGrows ==
    ASSUME Types, [Next]_vars
    PROVE  version' >= version
<1>1. version \in Nat
  BY BoundsAssumption DEF Types, Versions
<1>2. CASE Apply \/ JobEnds \/ Others
  BY <1>1, <1>2 DEF Apply, JobEnds, Others, server
<1>3. CASE UNCHANGED version
  BY <1>1, <1>3
<1> QED
  BY <1>2, <1>3 DEF Next, vars, server, Visit, Switch, Leave, Reload, Submit, Respond,
     RespondAnew, RespondAgain, Receive, FetchFails, Succeed, Fail, Tick, Age, Collect,
     OthersAsk, OthersStore, Expire

LEMMA DataMoves ==
    ASSUME [Next]_vars
    PROVE  \/ data' = data
           \/ data' = Nothing
           \/ fetch = "back" /\ fetch' = "idle" /\ data' = got
  BY DEF Next, vars, entry, Visit, Switch, Leave, Reload, Submit, Respond, RespondAnew,
     RespondAgain, Receive, Drop, FetchFails, Apply, Succeed, Invalidate, Fail, Tick, Age,
     Collect, JobEnds, Others, OthersAsk, OthersStore, Expire

LEMMA AnswerMoves ==
    ASSUME [Next]_vars, fetch' = "back"
    PROVE  \/ fetch = "back" /\ got' = got /\ data' = data
           \/ got' = version /\ data' = data
           \/ data' = data /\ \E a \in copy : got' = a[1]
<1> USE DEF fetching, entry, Send, Drop
<1>1. CASE RespondAnew \/ RespondAgain
  BY <1>1 DEF RespondAnew, RespondAgain
<1>2. CASE Visit \/ Switch \/ Leave \/ Reload \/ Tick
  BY <1>2 DEF Visit, Switch, Leave, Reload, Tick, Mount, Unmount, Refetch
<1>3. CASE Succeed
  BY <1>3 DEF Succeed, Invalidate
<1>4. CASE Submit \/ Receive \/ FetchFails \/ Apply \/ Fail \/ Age \/ Collect \/ JobEnds
           \/ Others \/ OthersAsk \/ OthersStore \/ Expire
  BY <1>4 DEF Submit, Receive, FetchFails, Apply, Fail, Age, Collect, JobEnds, Others,
              OthersAsk, OthersStore, Expire
<1>5. CASE UNCHANGED vars
  BY <1>5 DEF vars
<1> QED
  BY <1>1, <1>2, <1>3, <1>4, <1>5 DEF Next, Respond

LEMMA CopyMoves ==
    ASSUME [Next]_vars
    PROVE  copy' \cup late' \subseteq copy \cup late \cup {<<version, busy>>}
<1> USE DEF copies
<1>1. CASE RespondAnew \/ OthersAsk \/ OthersStore \/ Expire
  BY <1>1 DEF RespondAnew, OthersAsk, OthersStore, Expire
<1>2. CASE UNCHANGED copies
  BY <1>2
<1> QED
  BY <1>1, <1>2 DEF Next, vars, Visit, Switch, Leave, Reload, Submit, Respond, RespondAgain,
     Receive, FetchFails, Apply, Succeed, Fail, Tick, Age, Collect, JobEnds, Others

LEMMA OrderStep == OrderInv /\ [Next]_vars => OrderInv'
<1> SUFFICES ASSUME OrderInv, [Next]_vars PROVE OrderInv'
  OBVIOUS
<1>1. Types' /\ Causes'
  BY TypeStep, CausesStep DEF OrderInv
<1>2. /\ version \in Nat /\ version' \in Nat /\ version' >= version
      /\ data \in Int /\ got \in Int /\ Nothing <= version'
  BY <1>1, VersionGrows, BoundsAssumption DEF OrderInv, Types, Versions, Nothing
<1>3. \A a \in copy \cup late : a[1] \in Nat /\ a[1] <= version
  BY BoundsAssumption DEF OrderInv, BehindServer, Types, Answers, Versions
<1>4. data' <= version'
  BY <1>2, DataMoves DEF OrderInv, BehindServer
<1>5. fetch' = "back" => got' <= version'
  BY <1>2, <1>3, AnswerMoves DEF OrderInv, BehindServer
<1>6. \A a \in copy' \cup late' : a[1] <= version'
  <2> SUFFICES ASSUME NEW a \in copy' \cup late' PROVE a[1] <= version'
    OBVIOUS
  <2>1. a \in copy \cup late \/ a = <<version, busy>>
    BY CopyMoves
  <2> QED
    BY <1>2, <1>3, <2>1
<1>7. BackIsNewer'
  <2> SUFFICES ASSUME fetch' = "back", ~screen'.copied PROVE data' <= got'
    BY DEF BackIsNewer
  <2>1. screen' = screen /\ copy = {}
    BY ScreenStays DEF OrderInv, Causes, CopiesOfCopied
  <2> QED
    BY <1>2, <2>1, AnswerMoves DEF OrderInv, BehindServer, BackIsNewer
<1> QED
  BY <1>1, <1>4, <1>5, <1>6, <1>7 DEF OrderInv, BehindServer

LEMMA OrderAlways == Spec => []OrderInv
<1>1. Init => OrderInv
  <2> SUFFICES ASSUME Init PROVE OrderInv
    OBVIOUS
  <2>1. BehindServer /\ BackIsNewer
    BY DEF Init, BehindServer, BackIsNewer, Nothing
  <2> QED
    BY <2>1, InitType, InitCauses DEF OrderInv
<1> QED
  BY <1>1, OrderStep, PTL DEF Spec

\* What a page shows never goes back, unless the server repeats answers to its path: of
\* fetches, aborts, refreshes and joins none lets an older answer overwrite a newer one.
THEOREM NeverGoesBack == Spec => ShownNeverGoesBack
<1>1. OrderInv /\ [Next]_vars => [data' >= data \/ data' = Nothing \/ screen.copied]_vars
  <2> SUFFICES ASSUME OrderInv, [Next]_vars
               PROVE  data' >= data \/ data' = Nothing \/ screen.copied
    OBVIOUS
  <2>1. data \in Int
    BY BoundsAssumption DEF OrderInv, Types, Versions, Nothing
  <2>2. got \in Int
    BY BoundsAssumption DEF OrderInv, Types, Versions
  <2> QED
    BY <2>1, <2>2, DataMoves DEF OrderInv, BackIsNewer
<1> QED
  BY <1>1, OrderAlways, PTL DEF Spec, ShownNeverGoesBack

-----------------------------------------------------------------------------
(* The catalogue *)

\* A page names, in what a success of each of its controls refreshes, each of its views
\* that the control changes, unless the view polls or is known to be forgotten.
NamesItsChanges(p) ==
    \A v \in p.views, c \in p.controls :
        Concerns(c.sends, v.shows) /\ v.shows.poll # "always" =>
            Reach(c.sends, v.shows) # "missed" \/ Forgotten(c.sends, v.shows)

LEMMA IdleConcernsNothing == \A q : ~Concerns(Idle.sends, q)
  BY DEF Idle, Control, Mutation, Concerns

LEMMA NamingPages ==
    ASSUME NEW pages, \A p \in pages : NamesItsChanges(p)
    PROVE  \A s \in ScreensOf(pages) : Named(s)
<1> SUFFICES ASSUME NEW s \in ScreensOf(pages), s.changes, s.poll # "always"
             PROVE  s.reach # "missed" \/ s.forgets
  BY DEF Named
<1>1. CASE s.reach \in {"every", "target"}
  BY <1>1
<1>2. CASE s \in OwnScreens(pages)
  <2>1. PICK p \in pages : s \in {ScreenOf(v, c, "here") : v \in p.views,
                                                          c \in p.controls \cup {Idle}}
    BY <1>2 DEF OwnScreens
  <2>2. PICK v \in p.views, c \in p.controls \cup {Idle} : s = ScreenOf(v, c, "here")
    BY <2>1
  <2>3. Concerns(c.sends, v.shows) /\ v.shows.poll # "always"
    BY <2>2 DEF ScreenOf
  <2>4. c \in p.controls
    BY <2>3, IdleConcernsNothing
  <2>5. Reach(c.sends, v.shows) # "missed" \/ Forgotten(c.sends, v.shows)
    BY <2>1, <2>3, <2>4 DEF NamesItsChanges
  <2> QED
    BY <2>2, <2>5 DEF ScreenOf
<1> QED
  BY <1>1, <1>2 DEF ScreensOf

\* The rule for pages: whoever writes each page so that its own controls name what they
\* change on it need not know of any other page, nor of the cache.
THEOREM NamingIsEnough ==
    ASSUME NEW pages, Screens \subseteq ScreensOf(pages),
           \A p \in pages : NamesItsChanges(p)
    PROVE  Spec => []AtRestFresh
<1>1. \A s \in Screens : Named(s)
  BY NamingPages
<1> QED
  BY <1>1, AtRestAreFresh

=============================================================================
