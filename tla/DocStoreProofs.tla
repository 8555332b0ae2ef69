--------------------------- MODULE DocStoreProofs ---------------------------
(***************************************************************************)
(* Proofs of the invariants of DocStore, for any number of documents,      *)
(* writers, readers, texts, tags, requests and failures.                   *)
(***************************************************************************)
EXTENDS DocStore, TLAPS

-----------------------------------------------------------------------------
(* Types *)

LEMMA Numbers ==
    /\ 0 \in Nat /\ 1 \in Nat /\ 0 \in 0..MaxWrites /\ 0 \in 0..MaxFaults
    /\ \A n \in Nat : n + 1 \in Nat
    /\ \A n \in 0..MaxWrites : n + 1 \in Writers => n + 1 \in 0..MaxWrites
    /\ \A n \in 0..MaxFaults : n < MaxFaults => n + 1 \in 0..MaxFaults
  BY BoundsAssumption DEF Writers

LEMMA Order ==
    /\ \A a, b, c \in Nat : a <= b /\ c >= b => a <= c
    /\ \A a, b \in Nat : b >= a /\ a > 0 => b > 0
    /\ \A a \in Nat : a <= a /\ 0 <= a
  OBVIOUS

LEMMA NoTagsIn == NoTags \in Tags
  BY DEF Tags, NoTags

LEMMA Anything ==
    /\ AnyDoc \in Docs /\ AnyText \in Texts
    /\ Nowhere \in List
    /\ NoWrite \in Write /\ NoGet \in Get /\ NoListing \in Listing
<1>1. AnyDoc \in Docs /\ AnyText \in Texts
  BY NonEmpty DEF AnyDoc, AnyText
<1>2. Nowhere \in List
  BY DEF Nowhere, List
<1> QED
  BY <1>1, <1>2, NoTagsIn DEF NoWrite, Write, NoGet, Get, NoListing, Listing

LEMMA InitType == Init => Types
<1> SUFFICES ASSUME Init PROVE Types
  OBVIOUS
<1>1. row \in [Docs -> Row]
  BY Anything, NoTagsIn DEF Init, Row
<1>2. versions \in [Docs -> SUBSET Version]
  BY Anything DEF Init, Version
<1>3. /\ write \in [Writers -> Write] /\ get \in [Clients -> Get]
      /\ listing \in [Clients -> Listing] /\ acked \in [Docs -> Nat]
  BY Anything DEF Init, List
<1> QED
  BY <1>1, <1>2, <1>3, Numbers DEF Init, Types

\* A request that goes on is a request.
LEMMA WriteType ==
    ASSUME Types, NEW c \in Writers, NEW w \in Write
    PROVE  [write EXCEPT ![c] = w] \in [Writers -> Write]
  BY DEF Types

Steps == {"idle", "compare", "update", "tags", "tag", "number", "insert", "del", "incr",
          "pick", "put back", "drop", "gone"}

LEMMA WriteFields ==
    ASSUME NEW w \in Write, NEW a \in Steps
    PROVE  /\ [w EXCEPT !.at = a] \in Write
           /\ \A t \in Texts : /\ [w EXCEPT !.at = a, !.seen = t] \in Write
                               /\ [w EXCEPT !.at = a, !.text = t] \in Write
           /\ \A n \in Nat : /\ [w EXCEPT !.at = a, !.made = n] \in Write
                             /\ [w EXCEPT !.at = a, !.no = n] \in Write
  BY DEF Write, Steps

\* What statements leave.
LEMMA StatementRows ==
    ASSUME Types, NEW d \in Docs, NEW t \in Texts, NEW g \in Tags
    PROVE  /\ Created(d, t) \in [Docs -> Row] /\ Texted(d, t) \in [Docs -> Row]
           /\ Tagged(d, g) \in [Docs -> Row] /\ Dropped(d) \in [Docs -> Row]
           /\ Created(d, t)[d].rev = 1 /\ Created(d, t)[d].live
           /\ Dropped(d)[d].rev = row[d].rev + 1 /\ ~Dropped(d)[d].live
           /\ \A x \in Docs : x # d => Created(d, t)[x] = row[x] /\ Dropped(d)[x] = row[x]
           /\ \A x \in Docs : \/ Texted(d, t)[x] = row[x]
                              \/ /\ Texted(d, t)[x].rev = row[x].rev + 1
                                 /\ Texted(d, t)[x].live = row[x].live
           /\ \A x \in Docs : \/ Tagged(d, g)[x] = row[x]
                              \/ /\ Tagged(d, g)[x].rev = row[x].rev + 1
                                 /\ Tagged(d, g)[x].live = row[x].live
           /\ row[d].live /\ row[d].text # t => Texted(d, t)[d].rev = row[d].rev + 1
<1> DEFINE new == [live |-> TRUE, text |-> t, tags |-> NoTags, rev |-> 1]
           edited == [row[d] EXCEPT !.text = t, !.rev = row[d].rev + 1]
           tagged == [row[d] EXCEPT !.tags = g, !.rev = row[d].rev + 1]
           dropped == [row[d] EXCEPT !.live = FALSE, !.tags = NoTags, !.rev = row[d].rev + 1]
<1>1. row \in [Docs -> Row] /\ row[d] \in Row /\ row[d].rev + 1 \in Nat
  BY Numbers DEF Types, Row
<1>2. new \in Row /\ new.rev = 1 /\ new.live
  BY DEF Row, Tags, NoTags
<1>3. edited \in Row /\ edited.rev = row[d].rev + 1 /\ edited.live = row[d].live
  BY <1>1 DEF Row
<1>4. tagged \in Row /\ tagged.rev = row[d].rev + 1 /\ tagged.live = row[d].live
  BY <1>1 DEF Row
<1>5. dropped \in Row /\ dropped.rev = row[d].rev + 1 /\ ~dropped.live
  BY <1>1 DEF Row, Tags, NoTags
<1>6. /\ Created(d, t) = [row EXCEPT ![d] = new]
      /\ Texted(d, t) = row \/ Texted(d, t) = [row EXCEPT ![d] = edited]
      /\ Tagged(d, g) = row \/ Tagged(d, g) = [row EXCEPT ![d] = tagged]
      /\ Dropped(d) = [row EXCEPT ![d] = dropped]
      /\ row[d].live /\ row[d].text # t => Texted(d, t) = [row EXCEPT ![d] = edited]
  BY DEF Created, Texted, Tagged, Dropped
<1> HIDE DEF new, edited, tagged, dropped
<1>7. /\ Created(d, t) \in [Docs -> Row] /\ Dropped(d) \in [Docs -> Row]
      /\ Created(d, t)[d] = new /\ Dropped(d)[d] = dropped
      /\ \A x \in Docs : x # d => Created(d, t)[x] = row[x] /\ Dropped(d)[x] = row[x]
  BY <1>1, <1>2, <1>5, <1>6
<1>8. /\ Texted(d, t) \in [Docs -> Row]
      /\ \A x \in Docs : Texted(d, t)[x] = row[x] \/ (x = d /\ Texted(d, t)[x] = edited)
      /\ row[d].live /\ row[d].text # t => Texted(d, t)[d] = edited
  BY <1>1, <1>3, <1>6
<1>9. /\ Tagged(d, g) \in [Docs -> Row]
      /\ \A x \in Docs : Tagged(d, g)[x] = row[x] \/ (x = d /\ Tagged(d, g)[x] = tagged)
  BY <1>1, <1>4, <1>6
<1>10. \A x \in Docs : \/ Texted(d, t)[x] = row[x]
                       \/ /\ Texted(d, t)[x].rev = row[x].rev + 1
                          /\ Texted(d, t)[x].live = row[x].live
  BY <1>3, <1>8
<1>11. \A x \in Docs : \/ Tagged(d, g)[x] = row[x]
                       \/ /\ Tagged(d, g)[x].rev = row[x].rev + 1
                          /\ Tagged(d, g)[x].live = row[x].live
  BY <1>4, <1>9
<1> QED
  BY <1>2, <1>3, <1>5, <1>7, <1>8, <1>9, <1>10, <1>11

\* A step of a request changes the rows as one statement does; only a deletion takes
\* versions away.
Stated(c) ==
    \/ row' = row /\ \A x \in Docs : versions[x] \subseteq versions'[x]
    \/ /\ versions' = versions
       /\ \/ \E d \in Docs, t \in Texts : row[d].rev = 0 /\ row' = Created(d, t)
          \/ \E d \in Docs, t \in Texts : row' = Texted(d, t)
          \/ \E d \in Docs, g \in Tags : row' = Tagged(d, g)
    \/ \E d \in Docs : /\ row[d].live /\ row' = Dropped(d)
                       /\ versions' = [versions EXCEPT ![d] = {}]

LEMMA Statements ==
    ASSUME Types, NEW c \in Writers,
           \/ AskCreate(c) \/ Update(c) \/ ClearTags(c) \/ AddTag(c) \/ PutBack(c)
           \/ Insert(c) \/ WriteFails(c) \/ Drop(c)
    PROVE  Stated(c)
<1> DEFINE d == write[c].doc
<1>1. d \in Docs /\ write[c].text \in Texts /\ write[c].tags \in Tags /\ row[d].tags \in Tags
  BY DEF Types, Write, Row
<1>2. NoTags \in Tags /\ \A g \in write[c].tags : row[d].tags \cup {g} \in Tags
  BY <1>1 DEF Tags, NoTags
<1>3. \A x \in Docs : versions[x] \subseteq WithVersion(d, write[c])[x]
  BY DEF WithVersion, Types
<1>4. CASE AskCreate(c)
  <2>1. versions' = versions
    BY <1>4 DEF AskCreate, Ask
  <2>2. \E x \in Docs, t \in Texts : row[x].rev = 0 /\ row' = Created(x, t)
    BY <1>4 DEF AskCreate
  <2> QED
    BY <2>1, <2>2 DEF Stated
<1>5. CASE Update(c) \/ PutBack(c)
  BY <1>1, <1>5 DEF Update, PutBack, Stated
<1>6. CASE ClearTags(c)
  BY <1>1, <1>2, <1>6 DEF ClearTags, Stated
<1>7. CASE AddTag(c)
  <2>1. versions' = versions /\ \E g \in write[c].tags : row' = Tagged(d, row[d].tags \cup {g})
    BY <1>7 DEF AddTag
  <2> QED
    BY <1>1, <1>2, <2>1 DEF Stated
<1>8. CASE Insert(c)
  BY <1>3, <1>8 DEF Insert, Stated
<1>9. CASE Drop(c)
  BY <1>1, <1>9 DEF Drop, Stated
<1>10. CASE WriteFails(c)
  <2>1. CASE UNCHANGED <<row, versions, kept>>
    BY <2>1 DEF Stated
  <2>2. CASE Unheard(c)
    <3>1. CASE versions' = versions /\ row' = Texted(d, write[c].text)
      BY <1>1, <3>1 DEF Stated
    <3>2. CASE versions' = versions /\ row' = Tagged(d, NoTags)
      BY <1>1, <1>2, <3>2 DEF Stated
    <3>3. CASE /\ versions' = versions
               /\ \E g \in write[c].tags : row' = Tagged(d, row[d].tags \cup {g})
      BY <1>1, <1>2, <3>3 DEF Stated
    <3>4. CASE row' = row /\ versions' = WithVersion(d, write[c])
      BY <1>3, <3>4 DEF Stated
    <3>5. CASE row[d].live /\ row' = Dropped(d) /\ versions' = [versions EXCEPT ![d] = {}]
      BY <1>1, <3>5 DEF Stated
    <3> QED
      BY <2>2, <3>1, <3>2, <3>3, <3>4, <3>5 DEF Unheard
  <2> QED
    BY <1>10, <2>1, <2>2 DEF WriteFails
<1> QED
  BY <1>4, <1>5, <1>6, <1>7, <1>8, <1>9, <1>10

LEMMA StatedRows == ASSUME Types, NEW c, Stated(c) PROVE row' \in [Docs -> Row]
<1>1. CASE row' = row
  BY <1>1 DEF Types
<1>2. CASE row' # row
  BY <1>2, StatementRows, Anything, NoTagsIn DEF Stated
<1> QED
  BY <1>1, <1>2

LEMMA AskType ==
    ASSUME Types, NEW c \in Writers, AskCreate(c) \/ AskSave(c) \/ AskRestore(c) \/ AskDelete(c)
    PROVE  Types'
<1>1. (\E w \in Write : Ask(c, w)) /\ row' \in [Docs -> Row]
  <2>1. CASE AskCreate(c)
    <3>1. PICK d \in Docs, t \in Texts, g \in Tags :
            Ask(c, [NoWrite EXCEPT !.op = "create", !.at = "tags", !.doc = d, !.text = t,
                                   !.tags = g, !.keep = TRUE, !.no = 1, !.made = 1])
      BY <2>1 DEF AskCreate
    <3>2. [NoWrite EXCEPT !.op = "create", !.at = "tags", !.doc = d, !.text = t,
                          !.tags = g, !.keep = TRUE, !.no = 1, !.made = 1] \in Write
      BY Anything DEF Write
    <3>3. row' \in [Docs -> Row]
      BY <2>1, Statements, StatedRows
    <3> QED
      BY <3>1, <3>2, <3>3
  <2>2. CASE AskSave(c)
    <3>1. PICK d \in Docs, t \in Texts, g \in Tags :
            \/ Ask(c, [NoWrite EXCEPT !.op = "save", !.doc = d, !.text = t, !.tags = g,
                                      !.at = "compare", !.seen = row[d].text])
            \/ Ask(c, [NoWrite EXCEPT !.op = "save", !.doc = d, !.text = t, !.tags = g,
                                      !.at = "gone"])
      BY <2>2 DEF AskSave
    <3>2. row[d].text \in Texts
      BY DEF Types, Row
    <3>3. /\ [NoWrite EXCEPT !.op = "save", !.doc = d, !.text = t, !.tags = g,
                             !.at = "compare", !.seen = row[d].text] \in Write
          /\ [NoWrite EXCEPT !.op = "save", !.doc = d, !.text = t, !.tags = g,
                             !.at = "gone"] \in Write
      BY <3>2, Anything DEF Write
    <3>4. row' = row
      BY <2>2 DEF AskSave
    <3> QED
      BY <3>1, <3>3, <3>4 DEF Types
  <2>3. CASE AskRestore(c)
    <3>0. PICK d \in Docs : \E v \in versions[d] :
            Ask(c, [NoWrite EXCEPT !.op = "restore", !.at = "pick", !.doc = d, !.no = v.no,
                                   !.keep = TRUE])
      BY <2>3 DEF AskRestore
    <3>1. PICK v \in versions[d] :
            Ask(c, [NoWrite EXCEPT !.op = "restore", !.at = "pick", !.doc = d, !.no = v.no,
                                   !.keep = TRUE])
      BY <3>0
    <3>2. v.no \in Nat
      BY DEF Types, Version
    <3>3. [NoWrite EXCEPT !.op = "restore", !.at = "pick", !.doc = d, !.no = v.no,
                          !.keep = TRUE] \in Write
      BY <3>2, Anything DEF Write
    <3>4. row' = row
      BY <2>3 DEF AskRestore
    <3> QED
      BY <3>1, <3>3, <3>4 DEF Types
  <2>4. CASE AskDelete(c)
    BY <2>4, Anything DEF AskDelete, Write, Types
  <2> QED
    BY <2>1, <2>2, <2>3, <2>4
<1>2. PICK w \in Write : Ask(c, w)
  BY <1>1
<1>3. write' \in [Writers -> Write] /\ sent' \in 0..MaxWrites
  BY <1>2, WriteType, Numbers DEF Ask, Types
<1> QED
  BY <1>1, <1>2, <1>3 DEF Ask, Types, redis, history

\* The record of a request after the last of its tags, or before the next.
LEMMA TagsTurn ==
    ASSUME Types, NEW c \in Writers, ClearTags(c) \/ AddTag(c)
    PROVE  \E n \in Write : /\ write' = [write EXCEPT ![c] = n]
                            /\ n.doc = write[c].doc /\ n.made = row'[write[c].doc].rev
                            /\ n.at \in {"tag", "insert", "number", "del"}
                            /\ n.at = "del" => ~n.keep
<1> DEFINE w == write[c]  m == row'[write[c].doc].rev
<1>1. w \in Write /\ w.doc \in Docs /\ w.tags \in Tags
  BY DEF Types, Write
<1>2. row' \in [Docs -> Row]
  BY Statements, StatedRows
<1>3. m \in Nat
  BY <1>1, <1>2 DEF Row
<1>4. NoTags \in Tags
  BY DEF Tags, NoTags
<1>5. ASSUME NEW tags \in Tags, MoreTags(c, tags)
      PROVE  \E n \in Write : /\ write' = [write EXCEPT ![c] = n]
                              /\ n.doc = w.doc /\ n.made = m /\ n.at = "tag"
  <2> DEFINE n == [w EXCEPT !.made = m, !.at = "tag", !.tags = tags]
  <2>1. n \in Write /\ n.doc = w.doc /\ n.made = m /\ n.at = "tag"
    BY <1>1, <1>3 DEF Write
  <2>2. write' = [write EXCEPT ![c] = n]
    BY <1>5 DEF MoreTags
  <2> HIDE DEF n
  <2> QED
    BY <2>1, <2>2
<1>6. ASSUME AfterTags(c)
      PROVE  \E n \in Write : /\ write' = [write EXCEPT ![c] = n]
                              /\ n.doc = w.doc /\ n.made = m
                              /\ n.at \in {"insert", "number", "del"}
                              /\ n.at = "del" => ~n.keep
  <2>1. PICK keep \in BOOLEAN : write' = [write EXCEPT ![c] =
          [@ EXCEPT !.made = m, !.keep = keep, !.tags = NoTags,
                    !.at = IF w.op = "create" THEN "insert"
                           ELSE IF keep THEN "number" ELSE "del"]]
    BY <1>6 DEF AfterTags
  <2> DEFINE a == IF w.op = "create" THEN "insert" ELSE IF keep THEN "number" ELSE "del"
             n == [w EXCEPT !.made = m, !.keep = keep, !.tags = NoTags, !.at = a]
  <2>2. a \in {"insert", "number", "del"} /\ (a = "del" => ~keep)
    OBVIOUS
  <2>3. n \in Write /\ n.doc = w.doc /\ n.made = m /\ n.at = a /\ n.keep = keep
    BY <1>1, <1>3, <1>4, <2>2 DEF Write
  <2>4. write' = [write EXCEPT ![c] = n]
    BY <2>1
  <2> HIDE DEF n, a
  <2> QED
    BY <2>2, <2>3, <2>4
<1>7. CASE ClearTags(c)
  BY <1>1, <1>5, <1>6, <1>7 DEF ClearTags
<1>8. CASE AddTag(c)
  <2>1. \A g \in w.tags : w.tags \ {g} \in Tags
    BY <1>1 DEF Tags
  <2> QED
    BY <1>5, <1>6, <1>8, <2>1 DEF AddTag
<1> QED
  BY <1>7, <1>8

\* The steps of a request that writes: its own record, then the stores.
LEMMA RowStepType ==
    ASSUME Types, NEW c \in Writers,
           Update(c) \/ ClearTags(c) \/ AddTag(c) \/ PutBack(c) \/ Drop(c)
    PROVE  Types'
<1> DEFINE d == write[c].doc
<1>1. write[c] \in Write /\ d \in Docs
  BY DEF Types, Write
<1>2. row' \in [Docs -> Row]
  BY Statements, StatedRows
<1>3. row'[d].rev \in Nat
  BY <1>1, <1>2 DEF Row
<1>4. \A a \in Steps : /\ [write[c] EXCEPT !.at = a, !.made = row'[d].rev] \in Write
                       /\ [write[c] EXCEPT !.at = a] \in Write
  BY <1>1, <1>3 DEF Write, Steps
<1>5. write' \in [Writers -> Write]
  <2>1. \E w \in Write : write' = [write EXCEPT ![c] = w]
    <3>1. CASE Update(c) \/ PutBack(c) \/ Drop(c)
      BY <1>4, <3>1 DEF Update, PutBack, Drop, Goes, Steps
    <3>2. CASE ClearTags(c) \/ AddTag(c)
      BY <3>2, TagsTurn
    <3> QED
      BY <3>1, <3>2
  <2> QED
    BY <2>1, WriteType
<1>6. versions' \in [Docs -> SUBSET Version] /\ kept' \in [Docs -> SUBSET Texts]
  BY DEF Types, Update, ClearTags, AddTag, PutBack, Drop, history
<1>7. UNCHANGED <<redis, count, get, listing, acked, late, missed>>
  BY DEF Update, ClearTags, AddTag, PutBack, Drop, history
<1> QED
  BY <1>2, <1>5, <1>6, <1>7 DEF Types, redis, count

\* The steps that only read, or only decide how the request goes on.
LEMMA GoStepType ==
    ASSUME Types, NEW c \in Writers,
           \/ Compare(c) \/ Pick(c) \/ Number(c) \/ ReadGone(c)
    PROVE  Types'
<1>1. write[c] \in Write /\ write[c].doc \in Docs
  BY DEF Types, Write
<1>2. row[write[c].doc].text \in Texts
  BY <1>1 DEF Types, Row
<1>3. \E w \in Write : write' = [write EXCEPT ![c] = w]
  <2>1. \A a \in Steps : [write[c] EXCEPT !.at = a] \in Write
    BY <1>1, WriteFields
  <2>3. CASE Compare(c)
    <3>1. [write[c] EXCEPT !.at = "update", !.seen = AnyText] \in Write
      BY <1>1, WriteFields, Numbers, Anything DEF Steps
    <3> QED
      BY <2>3, <3>1, Anything DEF Compare, Ends
  <2>4. CASE Pick(c)
    <3>1. \A v \in versions[write[c].doc] :
             [write[c] EXCEPT !.at = "put back", !.text = v.text] \in Write
      <4> TAKE v \in versions[write[c].doc]
      <4>1. v.text \in Texts
        BY <1>1 DEF Types, Version
      <4> QED
        BY <1>1, <4>1, WriteFields, Numbers DEF Steps
    <3> QED
      BY <2>1, <2>4, <3>1 DEF Pick, Goes, Steps
  <2>5. CASE Number(c)
    <3> DEFINE used == {v.no : v \in versions[write[c].doc]}
    <3>1. \A m \in used : m \in Nat /\ m + 1 \in Nat
      BY <1>1 DEF Types, Version
    <3>2. PICK n \in {1} \cup {m + 1 : m \in used} :
             write' = [write EXCEPT ![c] = [@ EXCEPT !.at = "insert", !.no = n]]
      BY <2>5 DEF Number
    <3>3. [write[c] EXCEPT !.at = "insert", !.no = n] \in Write
      <4>1. n \in Nat
        BY <3>1, Numbers
      <4> QED
        BY <1>1, <4>1, WriteFields, Anything DEF Steps
    <3> QED
      BY <3>2, <3>3
  <2>6. CASE ReadGone(c)
    BY <2>6, Anything DEF ReadGone, Ends
  <2> QED
    BY <2>3, <2>4, <2>5, <2>6
<1>4. write' \in [Writers -> Write]
  BY <1>3, WriteType
<1>5. UNCHANGED <<mysql, redis, get, listing, count, history>>
  BY DEF Compare, Pick, Number, ReadGone
<1> QED
  BY <1>4, <1>5 DEF Types, mysql, redis, count, history

LEMMA VersionType ==
    ASSUME Types, NEW c \in Writers
    PROVE  WithVersion(write[c].doc, write[c]) \in [Docs -> SUBSET Version]
<1>1. write[c].doc \in Docs /\ [no |-> write[c].no, text |-> write[c].text] \in Version
  BY DEF Types, Write, Version
<1> QED
  BY <1>1 DEF Types, WithVersion

LEMMA InsertType ==
    ASSUME Types, NEW c \in Writers, Insert(c)
    PROVE  Types'
<1>1. write[c] \in Write
  BY DEF Types
<1>2. versions' \in [Docs -> SUBSET Version]
  BY VersionType DEF Types, Insert
<1>3. [write[c] EXCEPT !.at = "del"] \in Write
  BY <1>1 DEF Write
<1>4. write' \in [Writers -> Write]
  BY <1>3, Anything, WriteType DEF Insert, Goes, Ends
<1> QED
  BY <1>2, <1>4 DEF Insert, Types, redis, count, history

LEMMA WriteFailsType ==
    ASSUME Types, NEW c \in Writers, WriteFails(c)
    PROVE  Types'
<1>1. row' \in [Docs -> Row]
  BY Statements, StatedRows
<1>2. versions' \in [Docs -> SUBSET Version] /\ kept' \in [Docs -> SUBSET Texts]
  <2>1. [versions EXCEPT ![write[c].doc] = {}] \in [Docs -> SUBSET Version]
    BY DEF Types
  <2>2. [kept EXCEPT ![write[c].doc] = {}] \in [Docs -> SUBSET Texts]
    BY DEF Types
  <2>3. versions \in [Docs -> SUBSET Version] /\ kept \in [Docs -> SUBSET Texts]
    BY DEF Types
  <2>4. WithVersion(write[c].doc, write[c]) \in [Docs -> SUBSET Version]
    BY VersionType
  <2>5. CASE Unheard(c)
    BY <2>1, <2>2, <2>3, <2>4, <2>5 DEF Unheard
  <2>6. CASE UNCHANGED <<row, versions, kept>>
    BY <2>3, <2>6
  <2> QED
    BY <2>5, <2>6 DEF WriteFails
<1>3. write' \in [Writers -> Write] /\ faults' \in 0..MaxFaults
  BY Anything, WriteType, Numbers DEF WriteFails, Ends, Types
<1> QED
  BY <1>1, <1>2, <1>3 DEF WriteFails, Types, redis

LEMMA DelType ==
    ASSUME Types, NEW c \in Writers, Del(c)
    PROVE  Types'
<1> DEFINE d == write[c].doc
<1>1. d \in Docs /\ write[c] \in Write
  BY DEF Types, Write
<1>2. [write[c] EXCEPT !.at = "incr"] \in Write
  BY <1>1, WriteFields, Numbers, NonEmpty DEF Steps
<1>3. write' \in [Writers -> Write]
  BY <1>2, WriteType DEF Del, Goes
<1>4. \A r \in Clients : \A b \in BOOLEAN : [get[r] EXCEPT !.crossed = b] \in Get
  BY DEF Types, Get
<1>5. CASE /\ detail' = [detail EXCEPT ![d] = None]
           /\ late' = [late EXCEPT ![d] = FALSE]
           /\ get' = [r \in Clients |->
                        [get[r] EXCEPT !.crossed = @ \/ (get[r].doc = d
                                                        /\ get[r].at \in {"tags", "store"})]]
           /\ UNCHANGED <<faults, missed>>
  <2>1. \A r \in Clients : get[r].crossed \in BOOLEAN
    BY DEF Types, Get
  <2>2. \A r \in Clients :
           (get[r].crossed \/ (get[r].doc = d /\ get[r].at \in {"tags", "store"})) \in BOOLEAN
    BY <2>1, Zenon
  <2>3. get' \in [Clients -> Get]
    BY <1>4, <1>5, <2>2
  <2>4. detail' \in [Docs -> Detail \cup {None}] /\ late' \in [Docs -> BOOLEAN]
    BY <1>5 DEF Types
  <2> QED
    BY <1>3, <1>5, <2>3, <2>4 DEF Del, Types, mysql
<1>6. CASE Fumbles /\ UNCHANGED <<detail, late, get>>
  BY <1>3, <1>6, Numbers DEF Del, Types, mysql, Fumbles
<1> QED
  BY <1>5, <1>6, Zenon DEF Del

LEMMA IncrType ==
    ASSUME Types, NEW c \in Writers, Incr(c)
    PROVE  Types'
<1>1. write[c].doc \in Docs /\ write[c].made \in Nat /\ write[c].text \in Texts
  BY DEF Types, Write
<1>2. write' \in [Writers -> Write]
  BY Anything, WriteType DEF Incr, Ends
<1>3. acked' \in [Docs -> Nat] /\ kept' \in [Docs -> SUBSET Texts]
  BY <1>1 DEF Incr, Types
<1>4. listRev' \in Nat /\ faults' \in 0..MaxFaults /\ missed' \in BOOLEAN
  BY Numbers DEF Incr, Fumbles, Types
<1> QED
  BY <1>2, <1>3, <1>4 DEF Incr, Types, mysql

LEMMA GetFields ==
    ASSUME NEW g \in Get, NEW t \in Texts, NEW x \in Tags, NEW n \in Nat
    PROVE  /\ [g EXCEPT !.at = "row"] \in Get
           /\ [g EXCEPT !.at = "tags", !.text = t, !.rev = n] \in Get
           /\ [g EXCEPT !.at = "store", !.tags = x] \in Get
  BY DEF Get

LEMMA GetType ==
    ASSUME Types, NEW r \in Clients, AskGet(r) \/ GetStep(r)
    PROVE  Types'
<1> DEFINE d == get[r].doc
<1>1. get[r] \in Get /\ d \in Docs /\ get[r].crossed \in BOOLEAN
  BY DEF Types, Get
<1>2. [text |-> get[r].text, tags |-> get[r].tags, rev |-> get[r].rev] \in Detail
  BY <1>1 DEF Get, Detail
<1>3. row[d].text \in Texts /\ row[d].tags \in Tags /\ row[d].rev \in Nat
  BY <1>1 DEF Types, Row
<1>4. \E g \in Get : Moves(r, g)
  <2>1. CASE AskGet(r)
    BY <2>1, Anything DEF AskGet, Get
  <2>3. CASE GetRow(r)
    <3>1. [get[r] EXCEPT !.at = "tags", !.text = row[d].text, !.rev = row[d].rev] \in Get
      BY <1>1, <1>3, GetFields
    <3> QED
      BY <2>3, <3>1, Anything DEF GetRow
  <2>4. CASE GetTags(r)
    <3>1. [get[r] EXCEPT !.at = "store", !.tags = row[d].tags] \in Get
      BY <1>1, <1>3, GetFields
    <3> QED
      BY <2>4, <3>1 DEF GetTags
  <2>5. CASE StoreDetail(r) \/ EndGet(r)
    BY <2>5, Anything DEF StoreDetail, EndGet
  <2> QED
    BY <2>1, <2>3, <2>4, <2>5 DEF GetStep
<1>5. get' \in [Clients -> Get]
  BY <1>4 DEF Types, Moves
<1>6. detail' \in [Docs -> Detail \cup {None}] /\ late' \in [Docs -> BOOLEAN]
  <2>1. CASE StoreDetail(r)
    BY <1>1, <1>2, <2>1 DEF Types, StoreDetail
  <2>2. CASE ~StoreDetail(r)
    BY <2>2 DEF Types, GetStep, AskGet, GetRow, GetTags, EndGet, redis, history
  <2> QED
    BY <2>1, <2>2
<1>7. faults' \in 0..MaxFaults
  <2>1. UNCHANGED faults \/ Misses
    BY Zenon DEF GetStep, AskGet, GetRow, GetTags, StoreDetail, EndGet, count
  <2> QED
    BY <2>1, Numbers DEF Types, Misses
<1>8. UNCHANGED <<mysql, listRev, lists, write, listing, page, sent, acked, kept, missed>>
  BY DEF GetStep, AskGet, GetRow, GetTags, StoreDetail, EndGet, redis, count, history
<1> QED
  BY <1>5, <1>6, <1>7, <1>8 DEF Types, mysql

LEMMA ListingFields ==
    ASSUME NEW x \in Listing, NEW s \in List
    PROVE  /\ [x EXCEPT !.at = "rows"] \in Listing
           /\ [x EXCEPT !.at = "done", !.saw = s] \in Listing
           /\ [x EXCEPT !.at = "store", !.saw = s] \in Listing
  BY DEF Listing

LEMMA ListType ==
    ASSUME Types, NEW l \in Clients, ReadRev(l) \/ ListStep(l)
    PROVE  Types'
<1>1. listing[l] \in Listing /\ listing[l].key \in Nat /\ listing[l].saw \in List
  BY DEF Types, Listing
<1>2. [key |-> listing[l].key, saw |-> listing[l].saw] \in [key: Nat, saw: List]
  BY <1>1
<1>3. acked \in List /\ listRev \in Nat /\ [d \in Docs |-> row[d].rev] \in List
  BY DEF Types, List, Row
<1>4. \E x \in Listing : Turns(l, x)
  <2>2. CASE ReadRev(l)
    <3>1. PICK n \in {0, listRev} :
             Turns(l, [NoListing EXCEPT !.at = "redis", !.key = n, !.blind = n # listRev,
                                        !.since = acked])
      BY <2>2 DEF ReadRev
    <3>2. n \in Nat /\ (n # listRev) \in BOOLEAN
      BY <1>3
    <3>3. [NoListing EXCEPT !.at = "redis", !.key = n, !.blind = n # listRev,
                            !.since = acked] \in Listing
      BY <1>3, <3>2, Anything DEF Listing
    <3> QED
      BY <3>1, <3>3
  <2>3. CASE TryList(l)
    <3>1. \A x \in lists : [listing[l] EXCEPT !.at = "done", !.saw = x.saw] \in Listing
      <4> TAKE x \in lists
      <4>1. x.saw \in List
        BY DEF Types
      <4> QED
        BY <1>1, <1>3, <4>1, ListingFields
    <3>2. [listing[l] EXCEPT !.at = "rows"] \in Listing
      BY <1>1, <1>3, ListingFields
    <3> QED
      BY <2>3, <3>1, <3>2 DEF TryList
  <2>4. CASE ListRows(l)
    <3>1. [listing[l] EXCEPT !.at = "store", !.saw = [d \in Docs |-> row[d].rev]] \in Listing
      BY <1>1, <1>3, ListingFields
    <3> QED
      BY <2>4, <3>1 DEF ListRows
  <2>5. CASE StoreList(l) \/ EndList(l)
    BY <2>5, Anything DEF StoreList, EndList
  <2> QED
    BY <2>2, <2>3, <2>4, <2>5 DEF ListStep
<1>5. listing' \in [Clients -> Listing]
  BY <1>4 DEF Types, Turns
<1>6. lists' \subseteq [key: Nat, saw: List]
  BY <1>2 DEF Types, ListStep, ReadRev, TryList, ListRows, StoreList, EndList, redis
<1>7. faults' \in 0..MaxFaults
  <2>1. UNCHANGED faults \/ Misses
    BY Zenon DEF ListStep, ReadRev, TryList, ListRows, StoreList, EndList, count
  <2> QED
    BY <2>1, Numbers DEF Types, Misses
<1>8. UNCHANGED <<mysql, detail, listRev, write, get, page, sent, history>>
  BY DEF ListStep, ReadRev, TryList, ListRows, StoreList, EndList, redis, count
<1> QED
  BY <1>5, <1>6, <1>7, <1>8 DEF Types, mysql, history

\* A GET that fails, or takes what it has for all, changes nothing but itself.
LEMMA FailsType ==
    ASSUME Types, NEW r \in Clients, GetFails(r) \/ ListFails(r)
    PROVE  /\ Types'
           /\ UNCHANGED <<row, versions, detail, listRev, lists, write, acked, kept, late>>
           /\ missed => missed'
<1>1. /\ UNCHANGED <<row, versions, detail, listRev, lists, write, acked, kept, late>>
      /\ UNCHANGED <<page, sent>>
  BY DEF GetFails, ListFails, mysql, redis
<1>2. (Misses /\ UNCHANGED missed) \/ Fumbles
  BY DEF GetFails, ListFails
<1>3. faults' \in 0..MaxFaults /\ missed' \in BOOLEAN /\ (missed => missed')
  BY <1>2, Numbers DEF Types, Misses, Fumbles
<1>4. get' \in [Clients -> Get]
  <2>1. CASE GetFails(r)
    <3>1. get[r] \in Get /\ row[get[r].doc].tags \in Tags
      BY DEF Types, Get, Row
    <3>2. \A tags \in SUBSET row[get[r].doc].tags :
             [get[r] EXCEPT !.at = "store", !.tags = tags] \in Get
      <4> TAKE tags \in SUBSET row[get[r].doc].tags
      <4>1. tags \in Tags
        BY <3>1 DEF Tags
      <4> QED
        BY <3>1, <4>1 DEF Get
    <3>3. \E g \in Get : Moves(r, g)
      BY <2>1, <3>2, Anything DEF GetFails
    <3> QED
      BY <3>3 DEF Types, Moves
  <2>2. CASE ListFails(r)
    BY <2>2 DEF Types, ListFails
  <2> QED
    BY <2>1, <2>2
<1>5. listing' \in [Clients -> Listing]
  <2>1. CASE ListFails(r)
    <3>1. listing[r] \in Listing
      BY DEF Types
    <3>2. \A some \in SUBSET Docs :
             [d \in Docs |-> IF d \in some THEN row[d].rev ELSE 0] \in List
      BY Numbers DEF Types, Row, List
    <3>3. \A some \in SUBSET Docs :
             [listing[r] EXCEPT !.at = "store",
                 !.saw = [d \in Docs |-> IF d \in some THEN row[d].rev ELSE 0]] \in Listing
      BY <3>1, <3>2, ListingFields
    <3>4. \E x \in Listing : Turns(r, x)
      BY <2>1, <3>3, Anything DEF ListFails
    <3> QED
      BY <3>4 DEF Types, Turns
  <2>2. CASE GetFails(r)
    BY <2>2 DEF Types, GetFails
  <2> QED
    BY <2>1, <2>2
<1> QED
  BY <1>1, <1>3, <1>4, <1>5 DEF Types

LEMMA TypeStep == Types /\ [Next]_vars => Types'
<1> SUFFICES ASSUME Types, [Next]_vars PROVE Types'
  OBVIOUS
<1>1. ASSUME NEW c \in Writers, Writing(c) PROVE Types'
  BY <1>1, AskType, RowStepType, GoStepType, InsertType, WriteFailsType, DelType, IncrType
     DEF Writing, WriteStep
<1>2. ASSUME NEW r \in Clients, AskGet(r) \/ GetStep(r) PROVE Types'
  BY <1>2, GetType
<1>3. ASSUME NEW l \in Clients, ReadRev(l) \/ ListStep(l) PROVE Types'
  BY <1>3, ListType
<1>4. ASSUME NEW d \in Docs, ExpireDetail(d) PROVE Types'
  BY <1>4 DEF Types, ExpireDetail, mysql, count
<1>5. CASE ExpireList
  BY <1>5 DEF Types, ExpireList, mysql, count, history
<1>6. CASE UNCHANGED vars
  BY <1>6 DEF Types, vars
<1>7. ASSUME NEW r \in Clients, GetFails(r) \/ ListFails(r) PROVE Types'
  BY <1>7, FailsType
<1> QED
  BY <1>1, <1>2, <1>3, <1>4, <1>5, <1>6, <1>7 DEF Next

\* A version enters under a number that no other has.
LEMMA NumberedStep == Types /\ NumberedOnce /\ [Next]_vars => NumberedOnce'
<1> SUFFICES ASSUME Types, NumberedOnce, [Next]_vars PROVE NumberedOnce'
  OBVIOUS
<1>1. CASE UNCHANGED versions
  BY <1>1 DEF NumberedOnce
<1>2. ASSUME NEW c \in Writers, Insert(c) \/ WriteFails(c) \/ Drop(c) PROVE NumberedOnce'
  <2> DEFINE d == write[c].doc
  <2>1. CASE versions' = [versions EXCEPT ![d] = {}]
    BY <2>1 DEF NumberedOnce, Types
  <2>2. CASE /\ \A v \in versions[d] : v.no # write[c].no
             /\ versions' = WithVersion(d, write[c])
    <3> SUFFICES ASSUME NEW x \in Docs, NEW v \in versions'[x], NEW w \in versions'[x],
                        v.no = w.no
                 PROVE  v = w
      BY DEF NumberedOnce
    <3> DEFINE new == [no |-> write[c].no, text |-> write[c].text]
    <3>1. CASE x = d
      <4>1. versions'[x] = versions[x] \cup {new}
        BY <2>2, <3>1 DEF WithVersion, Types
      <4>2. new.no = write[c].no
        OBVIOUS
      <4> HIDE DEF new
      <4> QED
        BY <2>2, <3>1, <4>1, <4>2 DEF NumberedOnce
    <3>2. CASE x # d
      <4>1. versions'[x] = versions[x]
        BY <2>2, <3>2 DEF WithVersion, Types
      <4> QED
        BY <4>1 DEF NumberedOnce
    <3> QED
      BY <3>1, <3>2
  <2> QED
    BY <1>1, <1>2, <2>1, <2>2 DEF Insert, WriteFails, Unheard, Drop
<1>3. ASSUME NEW c \in Writers, Writing(c), ~(Insert(c) \/ WriteFails(c) \/ Drop(c))
      PROVE  UNCHANGED versions
  BY <1>3 DEF Writing, WriteStep, AskCreate, AskSave, AskRestore, AskDelete, Ask, Compare,
              Update, ClearTags, AddTag, Pick, PutBack, Number, Del, Incr, ReadGone, mysql
<1>4. ASSUME NEW r \in Clients, AskGet(r) \/ GetStep(r) \/ ReadRev(r) \/ ListStep(r)
      PROVE  UNCHANGED versions
  BY <1>4 DEF GetStep, AskGet, GetRow, GetTags, StoreDetail, EndGet,
              ListStep, ReadRev, TryList, ListRows, StoreList, EndList, mysql
<1>5. CASE (\E d \in Docs : ExpireDetail(d)) \/ ExpireList \/ UNCHANGED vars
  BY <1>1, <1>5 DEF ExpireDetail, ExpireList, vars, mysql
<1>6. ASSUME NEW r \in Clients, GetFails(r) \/ ListFails(r) PROVE UNCHANGED versions
  BY <1>6, FailsType
<1> QED
  BY <1>1, <1>2, <1>3, <1>4, <1>5, <1>6 DEF Next

\* Every variable stays in its type, with any number of requests and failures, and no two
\* versions of a document come to have one number.
THEOREM TypeCorrect == Spec => []TypeOK
<1>1. Init => NumberedOnce
  BY DEF Init, NumberedOnce
<1>2. TypeOK /\ [Next]_vars => TypeOK'
  BY TypeStep, NumberedStep DEF TypeOK
<1> QED
  BY <1>1, <1>2, InitType, PTL DEF Spec, TypeOK

-----------------------------------------------------------------------------
(* What grows *)

\* Every change of a document is counted; one that is gone does not come back, and keeps
\* its versions until then.
Grows(d) ==
    /\ row'[d].rev >= row[d].rev
    /\ row'[d] = row[d] \/ row'[d].rev > row[d].rev
    /\ row'[d].live /\ row[d].rev > 0 => row[d].live /\ versions[d] \subseteq versions'[d]

LEMMA RowSteps ==
    ASSUME Types, NEW c, Stated(c), NEW d \in Docs
    PROVE  Grows(d)
<1>1. row[d].rev \in Nat /\ row \in [Docs -> Row]
  BY DEF Types, Row
<1>2. CASE row' = row /\ \A x \in Docs : versions[x] \subseteq versions'[x]
  BY <1>1, <1>2 DEF Grows
<1>3. CASE /\ versions' = versions
           /\ \E e \in Docs, t \in Texts : row[e].rev = 0 /\ row' = Created(e, t)
  <2>1. PICK e \in Docs, t \in Texts : row[e].rev = 0 /\ row' = Created(e, t)
    BY <1>3
  <2>2. CASE e = d
    BY <1>1, <2>1, <2>2, StatementRows, NoTagsIn DEF Grows
  <2>3. CASE e # d
    <3>1. row'[d] = row[d]
      BY <2>1, <2>3, StatementRows, NoTagsIn
    <3> QED
      BY <1>1, <1>3, <3>1 DEF Grows
  <2> QED
    BY <2>2, <2>3
<1>4. CASE /\ versions' = versions
           /\ \/ \E e \in Docs, t \in Texts : row' = Texted(e, t)
              \/ \E e \in Docs, g \in Tags : row' = Tagged(e, g)
  <2>1. \/ row'[d] = row[d]
        \/ row'[d].rev = row[d].rev + 1 /\ row'[d].live = row[d].live
    <3>1. CASE \E e \in Docs, t \in Texts : row' = Texted(e, t)
      BY <3>1, StatementRows, NoTagsIn
    <3>2. CASE \E e \in Docs, g \in Tags : row' = Tagged(e, g)
      <4>1. PICK e \in Docs, g \in Tags : row' = Tagged(e, g)
        BY <3>2
      <4>2. PICK t \in Texts : t = AnyText
        BY Anything
      <4>3. \A x \in Docs : \/ Tagged(e, g)[x] = row[x]
                           \/ /\ Tagged(e, g)[x].rev = row[x].rev + 1
                              /\ Tagged(e, g)[x].live = row[x].live
        BY StatementRows
      <4> QED
        BY <4>1, <4>3
    <3> QED
      BY <1>4, <3>1, <3>2
  <2> QED
    BY <1>1, <1>4, <2>1 DEF Grows
<1>5. CASE \E e \in Docs : /\ row[e].live /\ row' = Dropped(e)
                           /\ versions' = [versions EXCEPT ![e] = {}]
  <2>1. PICK e \in Docs : row' = Dropped(e) /\ versions' = [versions EXCEPT ![e] = {}]
    BY <1>5
  <2>2. CASE e = d
    <3>1. row'[d].rev = row[d].rev + 1 /\ ~row'[d].live
      BY <2>1, <2>2, StatementRows, NoTagsIn, Anything
    <3> QED
      BY <1>1, <3>1 DEF Grows
  <2>3. CASE e # d
    <3>1. row'[d] = row[d] /\ versions'[d] = versions[d]
      BY <2>1, <2>3, StatementRows, NoTagsIn, Anything DEF Types
    <3> QED
      BY <1>1, <3>1 DEF Grows
  <2> QED
    BY <2>2, <2>3
<1> QED
  BY <1>2, <1>3, <1>4, <1>5 DEF Stated

LEMMA Growth ==
    ASSUME Types, [Next]_vars, NEW d \in Docs
    PROVE  Grows(d)
<1>1. row[d].rev \in Nat
  BY DEF Types, Row
<1>2. CASE UNCHANGED <<row, versions>>
  BY <1>1, <1>2 DEF Grows
<1>3. ASSUME NEW c \in Writers, Writing(c) PROVE Grows(d)
  <2>1. CASE AskSave(c) \/ AskRestore(c) \/ AskDelete(c)
    BY <1>2, <2>1 DEF AskSave, AskRestore, AskDelete, Ask
  <2>2. CASE Compare(c) \/ Pick(c) \/ Number(c) \/ Del(c) \/ Incr(c) \/ ReadGone(c)
    BY <1>2, <2>2 DEF Compare, Pick, Number, Del, Incr, ReadGone, mysql
  <2>3. CASE \/ AskCreate(c) \/ Update(c) \/ ClearTags(c) \/ AddTag(c) \/ PutBack(c)
             \/ Insert(c) \/ WriteFails(c) \/ Drop(c)
    BY <2>3, Statements, RowSteps
  <2> QED
    BY <1>3, <2>1, <2>2, <2>3 DEF Writing, WriteStep
<1>4. ASSUME NEW r \in Clients, AskGet(r) \/ GetStep(r) PROVE Grows(d)
  BY <1>2, <1>4 DEF GetStep, AskGet, GetRow, GetTags, StoreDetail, EndGet, mysql
<1>5. ASSUME NEW l \in Clients, ReadRev(l) \/ ListStep(l) PROVE Grows(d)
  BY <1>2, <1>5 DEF ListStep, ReadRev, TryList, ListRows, StoreList, EndList, mysql
<1>6. CASE (\E x \in Docs : ExpireDetail(x)) \/ ExpireList \/ UNCHANGED vars
  BY <1>2, <1>6 DEF ExpireDetail, ExpireList, vars, mysql
<1>7. ASSUME NEW r \in Clients, GetFails(r) \/ ListFails(r) PROVE Grows(d)
  BY <1>2, <1>7, FailsType
<1> QED
  BY <1>3, <1>4, <1>5, <1>6, <1>7 DEF Next

-----------------------------------------------------------------------------
(* Versions *)

\* What a writer has made was made; its document was created; once the version is
\* written it is there, as long as the document is.
Sound(w) ==
    /\ w.made <= row[w.doc].rev
    /\ w.at # "idle" => row[w.doc].rev > 0
    /\ w.at \in {"del", "incr"} /\ w.keep /\ row[w.doc].live =>
          \E v \in versions[w.doc] : v.text = w.text

\* A document that was not created has no versions.
Unborn(d) == row[d].rev = 0 => versions[d] = {} /\ kept[d] = {}

KeptOf(d) == row[d].live => kept[d] \subseteq {v.text : v \in versions[d]}

WriteInv ==
    /\ Types
    /\ \A c \in Writers : Sound(write[c])
    /\ \A d \in Docs : Unborn(d) /\ KeptOf(d) /\ acked[d] <= row[d].rev

LEMMA InitWrite == Init => WriteInv
<1> SUFFICES ASSUME Init PROVE WriteInv
  OBVIOUS
<1>1. Types
  BY InitType
<1>2. \A d \in Docs : row[d].rev \in {0, 1} /\ kept[d] = {} /\ acked[d] = 0
  BY DEF Init, Nowhere
<1>3. \A d \in Docs : row[d].rev = 0 => versions[d] = {}
  BY DEF Init
<1>4. \A c \in Writers : Sound(write[c])
  <2> TAKE c \in Writers
  <2>1. write[c] = NoWrite
    BY DEF Init
  <2>2. NoWrite.made = 0 /\ NoWrite.at = "idle" /\ NoWrite.doc = AnyDoc
    BY DEF NoWrite
  <2>3. 0 <= row[AnyDoc].rev
    BY <1>2, Anything
  <2> QED
    BY <2>1, <2>2, <2>3 DEF Sound
<1> QED
  BY <1>1, <1>2, <1>3, <1>4 DEF WriteInv, Unborn, KeptOf

\* A request that is not its turn stays sound, as documents only grow.
LEMMA StaysSound ==
    ASSUME WriteInv, [Next]_vars, NEW c \in Writers
    PROVE  Sound(write[c]) /\ write'[c] = write[c] => Sound(write[c])'
<1> DEFINE w == write[c]  d == write[c].doc
<1> SUFFICES ASSUME Sound(w), write'[c] = w PROVE Sound(w)'
  OBVIOUS
<1>1. Types /\ Types'
  BY TypeStep DEF WriteInv
<1>2. d \in Docs /\ w.made \in Nat
  BY <1>1 DEF Types, Write
<1>3. row[d].rev \in Nat /\ row'[d].rev \in Nat
  BY <1>1, <1>2 DEF Types, Row
<1>4. Grows(d)
  BY <1>1, <1>2, Growth
<1>5. w.made <= row'[d].rev /\ (row[d].rev > 0 => row'[d].rev > 0)
  <2>1. w.made <= row[d].rev
    BY DEF Sound
  <2>2. row'[d].rev >= row[d].rev
    BY <1>4 DEF Grows
  <2> QED
    BY <1>2, <1>3, <2>1, <2>2
<1>6. w.at # "idle" => row[d].rev > 0
  BY DEF Sound
<1>7. ASSUME w.at \in {"del", "incr"}, w.keep, row'[d].live
      PROVE  \E v \in versions'[d] : v.text = w.text
  <2>1. row[d].live /\ versions[d] \subseteq versions'[d]
    BY <1>4, <1>6, <1>7 DEF Grows
  <2>2. PICK v \in versions[d] : v.text = w.text
    BY <1>7, <2>1 DEF Sound
  <2> QED
    BY <2>1, <2>2
<1> QED
  BY <1>5, <1>6, <1>7, Zenon DEF Sound

LEMMA EndsSound ==
    ASSUME Types', NEW c \in Writers, Ends(c), Types
    PROVE  Sound(write[c])'
<1>1. write'[c] = NoWrite
  BY DEF Ends, Types
<1>2. row'[AnyDoc].rev \in Nat
  BY Anything DEF Types, Row
<1>3. NoWrite.made = 0 /\ NoWrite.at = "idle" /\ NoWrite.doc = AnyDoc
  BY DEF NoWrite
<1> QED
  BY <1>1, <1>2, <1>3 DEF Sound

\* A request that goes on to a step at which nothing is known of its version.
LEMMA GoesSound ==
    ASSUME WriteInv, Types', NEW c \in Writers, NEW w \in Write,
           write' = [write EXCEPT ![c] = w],
           w.made <= row'[w.doc].rev, row'[w.doc].rev > 0,
           w.at \in {"del", "incr"} => ~w.keep \/ ~row'[w.doc].live
    PROVE  Sound(write[c])'
<1>1. write'[c] = w
  BY DEF WriteInv, Types
<1> QED
  BY <1>1, Zenon DEF Sound

LEMMA AskSound ==
    ASSUME WriteInv, Types', NEW c \in Writers,
           AskCreate(c) \/ AskSave(c) \/ AskRestore(c) \/ AskDelete(c)
    PROVE  Sound(write[c])'
<1>1. \A d \in Docs : row[d].rev \in Nat
  BY DEF WriteInv, Types, Row
<1>2. write \in [Writers -> Write] /\ Types
  BY DEF WriteInv, Types
<1>3. CASE AskCreate(c)
  <2>1. PICK d \in Docs, t \in Texts, g \in Tags :
          /\ row' = Created(d, t)
          /\ Ask(c, [NoWrite EXCEPT !.op = "create", !.at = "tags", !.doc = d, !.text = t,
                                    !.tags = g, !.keep = TRUE, !.no = 1, !.made = 1])
    BY <1>3 DEF AskCreate
  <2>2. write'[c].made = 1 /\ write'[c].at = "tags" /\ write'[c].doc = d
    BY <1>2, <2>1 DEF Ask, NoWrite
  <2>3. row'[d].rev = 1
    BY <1>2, <2>1, StatementRows
  <2> QED
    BY <2>2, <2>3 DEF Sound
<1>4. CASE AskSave(c) \/ AskRestore(c) \/ AskDelete(c)
  <2>1. row' = row
    BY <1>4 DEF AskSave, AskRestore, AskDelete
  <2>2. /\ write'[c].made = 0 /\ write'[c].at \in {"compare", "gone", "pick", "drop"}
        /\ write'[c].doc \in Docs /\ row[write'[c].doc].rev > 0
    <3>1. CASE AskSave(c)
      <4>1. PICK d \in Docs, t \in Texts, g \in Tags :
              /\ row[d].rev > 0
              /\ \/ Ask(c, [NoWrite EXCEPT !.op = "save", !.doc = d, !.text = t, !.tags = g,
                                           !.at = "compare", !.seen = row[d].text])
                 \/ Ask(c, [NoWrite EXCEPT !.op = "save", !.doc = d, !.text = t, !.tags = g,
                                           !.at = "gone"])
        BY <3>1 DEF AskSave
      <4>2. CASE Ask(c, [NoWrite EXCEPT !.op = "save", !.doc = d, !.text = t, !.tags = g,
                                        !.at = "compare", !.seen = row[d].text])
        BY <1>2, <4>1, <4>2 DEF Ask, NoWrite
      <4>3. CASE Ask(c, [NoWrite EXCEPT !.op = "save", !.doc = d, !.text = t, !.tags = g,
                                        !.at = "gone"])
        BY <1>2, <4>1, <4>3 DEF Ask, NoWrite
      <4> QED
        BY <4>1, <4>2, <4>3
    <3>2. CASE AskRestore(c)
      <4>1. PICK d \in Docs : \E v \in versions[d] :
              Ask(c, [NoWrite EXCEPT !.op = "restore", !.at = "pick", !.doc = d, !.no = v.no,
                                     !.keep = TRUE])
        BY <3>2 DEF AskRestore
      <4>2. row[d].rev > 0
        BY <1>1, <4>1 DEF WriteInv, Unborn
      <4> QED
        BY <1>2, <4>1, <4>2 DEF Ask, NoWrite
    <3>3. CASE AskDelete(c)
      <4>1. PICK d \in Docs :
              /\ row[d].rev > 0
              /\ Ask(c, [NoWrite EXCEPT !.op = "delete", !.at = "drop", !.doc = d])
        BY <3>3 DEF AskDelete
      <4> QED
        BY <1>2, <4>1 DEF Ask, NoWrite
    <3> QED
      BY <1>4, <3>1, <3>2, <3>3
  <2>3. PICK e \in Docs : e = write'[c].doc
    BY <2>2
  <2>4. row'[e].rev \in Nat /\ row'[e].rev > 0 /\ write'[c].made <= row'[e].rev
    BY <1>1, <2>1, <2>2, <2>3
  <2> QED
    BY <2>2, <2>3, <2>4 DEF Sound
<1> QED
  BY <1>3, <1>4

\* The steps of the request itself, one by one.
LEMMA RowSound ==
    ASSUME WriteInv, Types', NEW c \in Writers,
           Update(c) \/ ClearTags(c) \/ AddTag(c) \/ PutBack(c) \/ Drop(c)
    PROVE  Sound(write[c])'
<1> DEFINE w == write[c]  d == write[c].doc
<1>1. Types /\ Sound(w) /\ w \in Write /\ d \in Docs
  BY DEF WriteInv, Types, Write
<1>2. row[d].rev \in Nat /\ row'[d].rev \in Nat /\ w.made \in Nat
  BY <1>1 DEF Types, Row, Write
<1>3. row'[d].rev >= row[d].rev
  BY <1>1, Statements, RowSteps DEF Grows
<1>4. w.made <= row[d].rev /\ (w.at # "idle" => row[d].rev > 0)
  BY <1>1 DEF Sound
<1>5. w.made <= row'[d].rev /\ (w.at # "idle" => row'[d].rev > 0)
  <2>1. row[d].rev > 0 => row'[d].rev > 0
    BY <1>2, <1>3, Order, Zenon
  <2>2. w.made <= row'[d].rev
    <3>1. w.made <= row[d].rev
      BY <1>4
    <3> QED
      BY <1>2, <1>3, <3>1
  <2> QED
    BY <1>4, <2>1, <2>2
<1>6. ASSUME w.at # "idle", Goes(c, "gone") PROVE Sound(write[c])'
  <2> DEFINE n == [w EXCEPT !.at = "gone"]
  <2>1. n \in Write /\ n.made = w.made /\ n.doc = d /\ n.at = "gone"
    BY <1>1 DEF Write
  <2>2. write' = [write EXCEPT ![c] = n]
    BY <1>6 DEF Goes
  <2> HIDE DEF n
  <2> QED
    BY <1>5, <1>6, <2>1, <2>2, GoesSound
<1>7. ASSUME NEW n \in Write, write' = [write EXCEPT ![c] = n], n.doc = d,
             n.made = row'[d].rev, w.at # "idle",
             n.at = "del" => ~n.keep \/ ~row'[d].live, n.at # "incr"
      PROVE  Sound(write[c])'
  <2>1. n.made <= row'[n.doc].rev /\ row'[n.doc].rev > 0
    <3>1. row'[d].rev <= row'[d].rev /\ row'[d].rev > 0
      BY <1>2, <1>5, <1>7, Order, Zenon
    <3> QED
      BY <1>7, <3>1
  <2> QED
    BY <1>7, <2>1, GoesSound
<1>8. ASSUME NEW a \in Steps, a # "incr", a = "del" => ~row'[d].live, w.at # "idle",
             write' = [write EXCEPT ![c] = [@ EXCEPT !.at = a, !.made = row'[d].rev]]
      PROVE  Sound(write[c])'
  <2> DEFINE n == [w EXCEPT !.at = a, !.made = row'[d].rev]
  <2>1. write' = [write EXCEPT ![c] = n]
    BY <1>8
  <2>2. n \in Write /\ n.doc = d /\ n.at = a /\ n.made = row'[d].rev
    BY <1>1, <1>2 DEF Write, Steps
  <2> HIDE DEF n
  <2> QED
    BY <1>7, <1>8, <2>1, <2>2
<1>9. CASE Update(c)
  BY <1>6, <1>8, <1>9 DEF Update, Steps
<1>10. CASE ClearTags(c) \/ AddTag(c)
  <2>1. w.at \in {"tags", "tag"}
    BY <1>10 DEF ClearTags, AddTag
  <2> QED
    BY <1>1, <1>7, <1>10, <2>1, TagsTurn
<1>11. CASE PutBack(c)
  BY <1>8, <1>11 DEF PutBack, Steps
<1>12. CASE Drop(c)
  <2>1. CASE row[d].live
    <3>1. row' = Dropped(d) /\ w.at = "drop"
      BY <1>12, <2>1 DEF Drop
    <3>2. ~row'[d].live
      BY <1>1, <3>1, StatementRows, Anything, NoTagsIn
    <3> QED
      BY <1>8, <1>12, <2>1, <3>1, <3>2 DEF Drop, Steps
  <2>2. CASE ~row[d].live
    BY <1>6, <1>12, <2>2 DEF Drop
  <2> QED
    BY <2>1, <2>2
<1> QED
  BY <1>9, <1>10, <1>11, <1>12

LEMMA OtherSound ==
    ASSUME WriteInv, Types', NEW c \in Writers,
           \/ Compare(c) \/ Pick(c) \/ Number(c) \/ ReadGone(c)
           \/ Insert(c) \/ WriteFails(c) \/ Del(c) \/ Incr(c)
    PROVE  Sound(write[c])'
<1> DEFINE w == write[c]  d == write[c].doc
<1>1. Types /\ Sound(w) /\ w \in Write /\ d \in Docs
  BY DEF WriteInv, Types, Write
<1>2. CASE Ends(c)
  BY <1>1, <1>2, EndsSound
<1>3. ASSUME row' = row, w.at # "idle", NEW n \in Write,
             write' = [write EXCEPT ![c] = n], n.doc = d, n.made = w.made,
             n.at \notin {"del", "incr"}
      PROVE  Sound(write[c])'
  <2>1. n.made <= row'[n.doc].rev /\ row'[n.doc].rev > 0
    BY <1>1, <1>3 DEF Sound
  <2> QED
    BY <1>3, <2>1, GoesSound
<1>5. CASE Compare(c)
  <2> DEFINE n == [w EXCEPT !.at = "update", !.seen = AnyText]
  <2>1. n \in Write /\ n.doc = d /\ n.made = w.made /\ n.at = "update"
    BY <1>1, Anything DEF Write
  <2>2. Ends(c) \/ write' = [write EXCEPT ![c] = n]
    BY <1>5 DEF Compare
  <2> HIDE DEF n
  <2> QED
    BY <1>2, <1>3, <1>5, <2>1, <2>2 DEF Compare, mysql
<1>6. CASE Pick(c)
  <2>1. \E n \in Write : /\ write' = [write EXCEPT ![c] = n] /\ n.doc = d /\ n.made = w.made
                         /\ n.at \in {"put back", "gone"}
    <3>1. [w EXCEPT !.at = "gone"] \in Write
      BY <1>1 DEF Write
    <3>2. ASSUME NEW v \in versions[d]
          PROVE  [w EXCEPT !.at = "put back", !.text = v.text] \in Write
      <4>1. v.text \in Texts
        BY <1>1 DEF Types, Version
      <4> QED
        BY <1>1, <4>1 DEF Write
    <3>3. CASE \E v \in versions[d] : v.no = w.no
      <4>1. PICK v \in versions[d] :
               write' = [write EXCEPT ![c] = [@ EXCEPT !.at = "put back", !.text = v.text]]
        BY <1>6, <3>3 DEF Pick
      <4> QED
        BY <1>1, <3>2, <4>1 DEF Write
    <3>4. CASE ~\E v \in versions[d] : v.no = w.no
      BY <1>1, <1>6, <3>1, <3>4 DEF Pick, Goes, Write
    <3> QED
      BY <3>3, <3>4
  <2> QED
    BY <1>3, <1>6, <2>1 DEF Pick, mysql
<1>7. CASE Number(c)
  <2> DEFINE used == {v.no : v \in versions[d]}
  <2>1. PICK m \in {1} \cup {k + 1 : k \in used} :
           write' = [write EXCEPT ![c] = [@ EXCEPT !.at = "insert", !.no = m]]
    BY <1>7 DEF Number
  <2>2. m \in Nat
    BY <1>1 DEF Types, Version
  <2> DEFINE n == [w EXCEPT !.at = "insert", !.no = m]
  <2>3. n \in Write /\ n.doc = d /\ n.made = w.made /\ n.at = "insert"
    BY <1>1, <2>2 DEF Write
  <2>4. write' = [write EXCEPT ![c] = n]
    BY <2>1
  <2> HIDE DEF n
  <2> QED
    BY <1>3, <1>7, <2>3, <2>4 DEF Number, mysql
<1>8. CASE ReadGone(c) \/ WriteFails(c) \/ Incr(c)
  BY <1>2, <1>8 DEF ReadGone, WriteFails, Incr
<1>9. CASE Insert(c)
  <2>1. CASE \E v \in versions[d] : v.no = w.no
    BY <1>2, <1>9, <2>1 DEF Insert
  <2>2. CASE ~\E v \in versions[d] : v.no = w.no
    <3> DEFINE n == [w EXCEPT !.at = "del"]  v == [no |-> w.no, text |-> w.text]
    <3>1. write'[c] = n /\ v \in versions'[d] /\ row' = row /\ w.at = "insert"
      BY <1>1, <1>9, <2>2 DEF Insert, Goes, WithVersion, Types
    <3>2. n.doc = d /\ n.made = w.made /\ n.at = "del" /\ n.text = w.text
      BY <1>1 DEF Write
    <3>3. v.text = n.text
      BY <3>2
    <3>4. w.made <= row[d].rev /\ row[d].rev > 0
      BY <1>1, <3>1 DEF Sound
    <3> HIDE DEF n, v
    <3> QED
      BY <3>1, <3>2, <3>3, <3>4 DEF Sound
  <2> QED
    BY <2>1, <2>2
<1>10. CASE Del(c)
  <2> DEFINE n == [w EXCEPT !.at = "incr"]
  <2>1. write'[c] = n /\ versions' = versions /\ row' = row /\ w.at = "del"
    BY <1>1, <1>10 DEF Del, Goes, Types, mysql
  <2>2. n.doc = d /\ n.made = w.made /\ n.at = "incr" /\ n.text = w.text /\ n.keep = w.keep
    BY <1>1 DEF Write
  <2> HIDE DEF n
  <2> QED
    BY <1>1, <2>1, <2>2, Zenon DEF Sound
<1> QED
  BY <1>5, <1>6, <1>7, <1>8, <1>9, <1>10

\* Whoever moves, the requests stay sound.
LEMMA SoundStep ==
    ASSUME WriteInv, [Next]_vars, NEW c \in Writers
    PROVE  Sound(write[c])'
<1>1. Types' /\ Sound(write[c]) /\ write \in [Writers -> Write]
  BY TypeStep DEF WriteInv, Types
<1>2. CASE write'[c] = write[c]
  BY <1>1, <1>2, StaysSound
<1>3. ASSUME NEW x \in Writers, Writing(x) PROVE Sound(write[c])'
  <2>1. CASE x = c
    BY <1>1, <1>3, <2>1, AskSound, RowSound, OtherSound DEF Writing, WriteStep
  <2>2. CASE x # c
    <3>1. \E n : write' = [write EXCEPT ![x] = n]
      BY <1>3 DEF Writing, WriteStep, AskCreate, AskSave, AskRestore, AskDelete, Ask,
                  Compare, Update, ClearTags, AddTag,
                MoreTags, AfterTags, Pick, PutBack, Number,
                  Insert, Drop, Del, Incr, ReadGone, WriteFails, Goes, Ends
    <3> QED
      BY <1>1, <1>2, <2>2, <3>1
  <2> QED
    BY <2>1, <2>2
<1>4. CASE UNCHANGED write
  BY <1>2, <1>4
<1>5. ASSUME NEW r \in Clients, \/ AskGet(r) \/ GetStep(r) \/ ReadRev(r) \/ ListStep(r)
      PROVE  UNCHANGED write
  BY <1>5 DEF GetStep, AskGet, GetRow, GetTags, StoreDetail, EndGet,
              ListStep, ReadRev, TryList, ListRows, StoreList, EndList
<1>6. CASE (\E x \in Docs : ExpireDetail(x)) \/ ExpireList \/ UNCHANGED vars
  BY <1>4, <1>6 DEF ExpireDetail, ExpireList, vars
<1>7. ASSUME NEW r \in Clients, GetFails(r) \/ ListFails(r) PROVE UNCHANGED write
  BY <1>7, FailsType DEF WriteInv
<1> QED
  BY <1>3, <1>4, <1>5, <1>6, <1>7 DEF Next

\* Nor do the documents lose what was kept.
KeptWell(d) == Unborn(d) /\ KeptOf(d) /\ acked[d] <= row[d].rev

LEMMA KeptFrame ==
    ASSUME WriteInv, [Next]_vars, UNCHANGED <<versions, kept, acked>>, NEW d \in Docs
    PROVE  KeptWell(d)'
<1>1. Unborn(d) /\ KeptOf(d) /\ acked[d] <= row[d].rev /\ Grows(d)
  BY Growth DEF WriteInv
<1>2. Types'
  BY TypeStep DEF WriteInv
<1>3. row[d].rev \in Nat /\ row'[d].rev \in Nat /\ acked[d] \in Nat
  BY <1>2 DEF WriteInv, Types, Row
<1>4. acked'[d] <= row'[d].rev
  <2>1. row'[d].rev >= row[d].rev /\ acked[d] <= row[d].rev /\ acked'[d] = acked[d]
    BY <1>1 DEF Grows
  <2> QED
    BY <1>3, <2>1
<1>5. row[d].rev = 0 \/ row[d].rev > 0
  BY <1>3
<1>6. row'[d].rev = 0 => row[d].rev = 0
  <2>1. row'[d].rev >= row[d].rev
    BY <1>1 DEF Grows
  <2> QED
    BY <1>3, <2>1
<1>7. Unborn(d)'
  BY <1>1, <1>6 DEF Unborn
<1>8. KeptOf(d)'
  <2>1. CASE row[d].rev = 0
    BY <1>1, <2>1 DEF Unborn, KeptOf
  <2>2. CASE row[d].rev > 0
    <3>1. row'[d].live => row[d].live
      BY <1>1, <2>2 DEF Grows
    <3> QED
      BY <1>1, <3>1 DEF KeptOf
  <2> QED
    BY <1>5, <2>1, <2>2
<1> QED
  BY <1>4, <1>7, <1>8 DEF KeptWell

LEMMA KeptSteps ==
    ASSUME WriteInv, [Next]_vars, NEW c \in Writers,
           Insert(c) \/ Drop(c) \/ Incr(c) \/ WriteFails(c), NEW d \in Docs
    PROVE  KeptWell(d)'
<1> DEFINE w == write[c]  e == write[c].doc
<1>1. Types /\ Sound(w) /\ w \in Write /\ e \in Docs
  BY DEF WriteInv, Types, Write
<1>2. Unborn(d) /\ KeptOf(d) /\ acked[d] <= row[d].rev
  BY DEF WriteInv
<1>3. row[d].rev \in Nat /\ acked[d] \in Nat /\ w.made \in Nat
  BY <1>1 DEF Types, Row, Write
<1>4. CASE UNCHANGED <<versions, kept, acked>>
  BY <1>4, KeptFrame
<1>5. CASE /\ UNCHANGED <<row, kept, acked>> /\ w.at = "insert"
           /\ versions' = WithVersion(e, w)
  <2>1. row[e].rev > 0
    BY <1>1, <1>5 DEF Sound
  <2>2. versions[d] \subseteq versions'[d] /\ (d # e => versions'[d] = versions[d])
    BY <1>1, <1>5 DEF WithVersion, Types
  <2>3. Unborn(d)'
    <3>1. CASE d = e
      BY <1>3, <1>5, <2>1, <3>1 DEF Unborn
    <3>2. CASE d # e
      BY <1>2, <1>5, <2>2, <3>2 DEF Unborn
    <3> QED
      BY <3>1, <3>2
  <2> QED
    BY <1>2, <1>5, <2>2, <2>3 DEF KeptOf, KeptWell
<1>7. CASE /\ row' = Dropped(e) /\ acked' = acked
           /\ versions' = [versions EXCEPT ![e] = {}] /\ kept' = [kept EXCEPT ![e] = {}]
  <2>1. CASE d = e
    <3>1. versions'[d] = {} /\ kept'[d] = {}
      BY <1>1, <1>7, <2>1 DEF Types
    <3>2. row'[d].rev = row[d].rev + 1
      BY <1>1, <1>7, <2>1, StatementRows, Anything, NoTagsIn
    <3>3. acked'[d] <= row'[d].rev
      BY <1>2, <1>3, <1>7, <3>2
    <3> QED
      BY <3>1, <3>3 DEF Unborn, KeptOf, KeptWell
  <2>2. CASE d # e
    <3>1. versions'[d] = versions[d] /\ kept'[d] = kept[d] /\ row'[d] = row[d]
      BY <1>1, <1>7, <2>2, StatementRows, Anything, NoTagsIn DEF Types
    <3> QED
      BY <1>2, <1>7, <3>1 DEF Unborn, KeptOf, KeptWell
  <2> QED
    BY <2>1, <2>2
<1>6. CASE Incr(c)
  <2>1. row' = row /\ versions' = versions /\ w.at = "incr"
    BY <1>6 DEF Incr, mysql
  <2>2. row[e].rev > 0 /\ w.made <= row[e].rev
    BY <1>1, <2>1 DEF Sound
  <2>3. d # e => acked'[d] = acked[d] /\ kept'[d] = kept[d]
    BY <1>1, <1>6 DEF Incr, Types
  <2>4. CASE d # e
    BY <1>2, <2>1, <2>3, <2>4 DEF Unborn, KeptOf, KeptWell
  <2>5. CASE d = e
    <3>1. acked'[d] = acked[d] \/ acked'[d] = w.made
      BY <1>1, <1>6, <2>5 DEF Incr, Types
    <3>2. acked'[d] <= row'[d].rev
      BY <1>2, <2>1, <2>2, <2>5, <3>1
    <3>3. Unborn(d)'
      BY <2>1, <2>2, <2>5, <1>3 DEF Unborn
    <3>4. kept'[d] = kept[d] \/ (w.keep /\ kept'[d] = kept[d] \cup {w.text})
      BY <1>1, <1>6, <2>5 DEF Incr, Types
    <3>5. w.keep /\ row[d].live => \E v \in versions[d] : v.text = w.text
      BY <1>1, <2>1, <2>5 DEF Sound
    <3>6. KeptOf(d)'
      BY <1>2, <2>1, <3>4, <3>5 DEF KeptOf
    <3> QED
      BY <3>2, <3>3, <3>6 DEF KeptWell
  <2> QED
    BY <2>4, <2>5
<1>8. CASE Insert(c) \/ Drop(c) \/ WriteFails(c)
  <2>1. CASE Insert(c)
    BY <1>4, <1>5, <2>1 DEF Insert, history
  <2>2. CASE Drop(c)
    BY <1>4, <1>7, <2>2 DEF Drop
  <2>3. CASE WriteFails(c)
    BY <1>4, <1>5, <1>7, <2>3 DEF WriteFails, Unheard
  <2> QED
    BY <1>8, <2>1, <2>2, <2>3
<1> QED
  BY <1>6, <1>8

LEMMA WriteStepKeeps == WriteInv /\ [Next]_vars => WriteInv'
<1> SUFFICES ASSUME WriteInv, [Next]_vars PROVE WriteInv'
  OBVIOUS
<1>1. Types' /\ \A c \in Writers : Sound(write[c])'
  BY TypeStep, SoundStep DEF WriteInv
<1>2. ASSUME NEW d \in Docs PROVE KeptWell(d)'
  <2>1. CASE \E c \in Writers : Insert(c) \/ Drop(c) \/ Incr(c) \/ WriteFails(c)
    BY <2>1, KeptSteps
  <2>2. CASE ~\E c \in Writers : Insert(c) \/ Drop(c) \/ Incr(c) \/ WriteFails(c)
    <3>1. ASSUME NEW c \in Writers, Writing(c) PROVE UNCHANGED <<versions, kept, acked>>
      BY <2>2, <3>1 DEF Writing, WriteStep, AskCreate, AskSave, AskRestore, AskDelete, Ask,
                  Compare, Update, ClearTags, AddTag,
                MoreTags, AfterTags, Pick, PutBack, Number,
                  Del, ReadGone, WriteFails, mysql, history
    <3>2. ASSUME NEW r \in Clients, AskGet(r) \/ GetStep(r) \/ ReadRev(r) \/ ListStep(r)
          PROVE  UNCHANGED <<versions, kept, acked>>
      BY <3>2 DEF GetStep, AskGet, GetRow, GetTags, StoreDetail, EndGet,
              ListStep, ReadRev, TryList, ListRows, StoreList, EndList, mysql, history
    <3>3. ASSUME (\E x \in Docs : ExpireDetail(x)) \/ ExpireList \/ UNCHANGED vars
          PROVE  UNCHANGED <<versions, kept, acked>>
      BY <3>3 DEF ExpireDetail, ExpireList, vars, mysql, history
    <3>4. ASSUME NEW r \in Clients, GetFails(r) \/ ListFails(r)
          PROVE  UNCHANGED <<versions, kept, acked>>
      BY <3>4, FailsType DEF WriteInv
    <3> QED
      BY <3>1, <3>2, <3>3, <3>4, KeptFrame DEF Next
  <2> QED
    BY <2>1, <2>2
<1> QED
  BY <1>1, <1>2 DEF WriteInv, KeptWell

LEMMA WriteAlways == Spec => []WriteInv
  BY InitWrite, WriteStepKeeps, PTL DEF Spec

\* A version whose writer was told that it was kept stays until the document is deleted:
\* numbers taken twice, failures and restores lose none.
THEOREM KeptStay == Spec => []KeptIsKept
<1>1. WriteInv => KeptIsKept
  BY DEF WriteInv, KeptOf, KeptIsKept
<1> QED
  BY <1>1, WriteAlways, PTL

-----------------------------------------------------------------------------
(* Copies of documents *)

\* Revision m of a document has all that its writers were told of, or are about to be.
Enough(d, m) ==
    /\ acked[d] <= m
    /\ \A c \in Writers : write[c].at = "incr" /\ write[c].doc = d => write[c].made <= m

\* What Redis holds, and what readers who may still store it have read, is enough unless
\* a deletion of the copy came between.
CopyHolds == ~missed =>
    \A d \in Docs : detail[d] # None /\ ~late[d] => Enough(d, detail[d].rev)
ReaderHolds == ~missed =>
    \A r \in Clients : get[r].at \in {"tags", "store"} /\ ~get[r].crossed =>
        Enough(get[r].doc, get[r].rev)

LEMMA RowIsEnough == ASSUME WriteInv, NEW d \in Docs PROVE Enough(d, row[d].rev)
<1>1. acked[d] <= row[d].rev
  BY DEF WriteInv
<1>2. \A c \in Writers : write[c].made <= row[write[c].doc].rev
  BY DEF WriteInv, Sound
<1> QED
  BY <1>1, <1>2 DEF Enough

\* A writer comes to the increment through the deletion of the copy only.
LEMMA IncrComesFromDel ==
    ASSUME Types, NEW c \in Writers, Writing(c), NEW x \in Writers, write'[x].at = "incr"
    PROVE  write'[x] = write[x] \/ (x = c /\ Del(c))
<1>1. write[c] \in Write /\ write \in [Writers -> Write]
  BY DEF Types
<1>2. CASE x # c
  <2>1. \E n : write' = [write EXCEPT ![c] = n]
    BY DEF Writing, WriteStep, AskCreate, AskSave, AskRestore, AskDelete, Ask,
           Compare, Update, ClearTags, AddTag,
                MoreTags, AfterTags, Pick, PutBack, Number,
           Insert, Drop, Del, Incr, ReadGone, WriteFails, Goes, Ends
  <2> QED
    BY <1>1, <1>2, <2>1
<1>3. CASE x = c
  <2>1. ASSUME Ends(c) PROVE FALSE
    BY <1>1, <1>3, <2>1 DEF Ends, NoWrite
  <2>2. ASSUME Goes(c, "gone") \/ Goes(c, "del") PROVE FALSE
    BY <1>1, <1>3, <2>2 DEF Goes, Write
  <2>3. CASE AskCreate(c) \/ AskSave(c) \/ AskRestore(c) \/ AskDelete(c)
    <3>1. CASE AskCreate(c)
      BY <1>1, <1>3, <3>1 DEF AskCreate, Ask, NoWrite
    <3>2. CASE AskSave(c)
      <4>1. PICK d \in Docs, t \in Texts, g \in Tags :
              \/ Ask(c, [NoWrite EXCEPT !.op = "save", !.doc = d, !.text = t, !.tags = g,
                                        !.at = "compare", !.seen = row[d].text])
              \/ Ask(c, [NoWrite EXCEPT !.op = "save", !.doc = d, !.text = t, !.tags = g,
                                        !.at = "gone"])
        BY <3>2 DEF AskSave
      <4> QED
        BY <1>1, <1>3, <4>1 DEF Ask, NoWrite
    <3>3. CASE AskRestore(c) \/ AskDelete(c)
      BY <1>1, <1>3, <3>3 DEF AskRestore, AskDelete, Ask, NoWrite
    <3> QED
      BY <2>3, <3>1, <3>2, <3>3
  <2>4. CASE Compare(c) \/ Update(c)
    BY <1>1, <1>3, <2>1, <2>2, <2>4 DEF Compare, Update, Write
  <2>5. CASE ClearTags(c) \/ AddTag(c)
    <3>1. PICK n \in Write : /\ write' = [write EXCEPT ![c] = n]
                             /\ n.at \in {"tag", "insert", "number", "del"}
      BY <2>5, TagsTurn
    <3> QED
      BY <1>1, <1>3, <3>1
  <2>6. CASE Pick(c) \/ PutBack(c) \/ Number(c)
    BY <1>1, <1>3, <2>2, <2>6 DEF Pick, PutBack, Number, Write
  <2>7. CASE Insert(c) \/ Drop(c)
    BY <1>1, <1>3, <2>1, <2>2, <2>7 DEF Insert, Drop, Write
  <2>8. CASE Incr(c) \/ ReadGone(c) \/ WriteFails(c)
    BY <2>1, <2>8 DEF Incr, ReadGone, WriteFails
  <2> QED
    BY <1>3, <2>3, <2>4, <2>5, <2>6, <2>7, <2>8 DEF Writing, WriteStep
<1> QED
  BY <1>2, <1>3

\* What is enough stays enough until a copy is deleted.
LEMMA EnoughStays ==
    ASSUME Types, NEW c \in Writers, Writing(c), NEW d \in Docs, NEW m, Enough(d, m),
           Del(c) => write[c].doc # d
    PROVE  Enough(d, m)'
<1>1. \A x \in Writers : write'[x].at = "incr" /\ write'[x].doc = d => write'[x] = write[x]
  <2> TAKE x \in Writers
  <2> HAVE write'[x].at = "incr" /\ write'[x].doc = d
  <2>1. CASE x = c /\ Del(c)
    <3>1. write'[c].doc = write[c].doc
      BY <2>1 DEF Del, Goes, Types, Write
    <3> QED
      BY <2>1, <3>1
  <2> QED
    BY <2>1, IncrComesFromDel
<1>2. \A x \in Writers : write'[x].at = "incr" /\ write'[x].doc = d => write'[x].made <= m
  BY <1>1 DEF Enough
<1>3. acked'[d] <= m
  <2>1. CASE Incr(c)
    <3>1. acked'[d] = acked[d] \/ (write[c].doc = d /\ acked'[d] = write[c].made)
      BY <2>1 DEF Incr, Types
    <3>2. write[c].at = "incr"
      BY <2>1 DEF Incr
    <3> QED
      BY <3>1, <3>2 DEF Enough
  <2>2. CASE ~Incr(c)
    <3>1. acked' = acked
      BY <2>2 DEF Writing, WriteStep, AskCreate, AskSave, AskRestore, AskDelete, Ask,
                  Compare, Update, ClearTags, AddTag,
                MoreTags, AfterTags, Pick, PutBack, Number,
                  Insert, Drop, Del, ReadGone, WriteFails, history
    <3> QED
      BY <3>1 DEF Enough
  <2> QED
    BY <2>1, <2>2
<1> QED
  BY <1>2, <1>3 DEF Enough

LEMMA WritersCopies ==
    ASSUME WriteInv, CopyHolds, ReaderHolds, NEW c \in Writers, Writing(c)
    PROVE  CopyHolds' /\ ReaderHolds'
<1> DEFINE e == write[c].doc
<1>1. Types /\ e \in Docs
  BY DEF WriteInv, Types, Write
<1>2. CASE missed'
  BY <1>2 DEF CopyHolds, ReaderHolds
<1>3. CASE ~missed' /\ Del(c)
  <2>1. /\ ~missed
        /\ detail' = [detail EXCEPT ![e] = None] /\ late' = [late EXCEPT ![e] = FALSE]
        /\ get' = [r \in Clients |->
                     [get[r] EXCEPT !.crossed = @ \/ (get[r].doc = e
                                                     /\ get[r].at \in {"tags", "store"})]]
    BY <1>3 DEF Del, Fumbles
  <2>2. CopyHolds'
    <3> SUFFICES ASSUME NEW d \in Docs, detail'[d] # None, ~late'[d]
                 PROVE  Enough(d, detail[d].rev)'
      BY DEF CopyHolds
    <3>1. d # e /\ detail'[d] = detail[d] /\ late'[d] = late[d]
      BY <1>1, <2>1 DEF Types
    <3>2. PICK m : m = detail[d].rev
      OBVIOUS
    <3>3. Enough(d, m)
      BY <2>1, <3>1, <3>2 DEF CopyHolds
    <3>4. Enough(d, m)'
      BY <1>1, <3>1, <3>3, EnoughStays
    <3> QED
      BY <3>1, <3>2, <3>4 DEF Enough
  <2>3. ReaderHolds'
    <3> SUFFICES ASSUME NEW r \in Clients, get'[r].at \in {"tags", "store"}, ~get'[r].crossed
                 PROVE  Enough(get[r].doc, get[r].rev)'
      BY DEF ReaderHolds
    <3>1. /\ get'[r].doc = get[r].doc /\ get'[r].rev = get[r].rev /\ get'[r].at = get[r].at
          /\ get[r].doc \in Docs
      BY <1>1, <2>1 DEF Types, Get
    <3>2. get'[r].crossed = (get[r].crossed \/ (get[r].doc = e
                                               /\ get[r].at \in {"tags", "store"}))
      BY <1>1, <2>1 DEF Types, Get
    <3>3. get[r].doc # e /\ ~get[r].crossed
      BY <3>1, <3>2, Zenon
    <3>4. PICK m : m = get[r].rev
      OBVIOUS
    <3>5. PICK d \in Docs : d = get[r].doc
      BY <3>1
    <3>6. Enough(d, m)
      BY <2>1, <3>1, <3>3, <3>4, <3>5 DEF ReaderHolds
    <3>7. Enough(d, m)'
      BY <1>1, <3>3, <3>5, <3>6, EnoughStays
    <3> QED
      BY <3>1, <3>4, <3>5, <3>7 DEF Enough
  <2> QED
    BY <2>2, <2>3
<1>4. CASE ~missed' /\ ~Del(c)
  <2>0. UNCHANGED <<detail, late, get>>
    BY <1>4 DEF Writing, WriteStep, AskCreate, AskSave, AskRestore, AskDelete, Ask,
                Compare, Update, ClearTags, AddTag,
                MoreTags, AfterTags, Pick, PutBack, Number,
                Insert, Drop, Incr, ReadGone, WriteFails, redis, history
  <2>1. UNCHANGED <<detail, late, get>> /\ ~missed
    <3>1. CASE Incr(c)
      BY <1>4, <2>0, <3>1 DEF Incr, Fumbles
    <3>2. CASE ~Incr(c)
      <4>1. missed' = missed
        BY <1>4, <3>2 DEF Writing, WriteStep, AskCreate, AskSave, AskRestore, AskDelete, Ask,
                Compare, Update, ClearTags, AddTag,
                MoreTags, AfterTags, Pick, PutBack, Number,
                Insert, Drop, ReadGone, WriteFails, history
      <4> QED
        BY <1>4, <2>0, <4>1
    <3> QED
      BY <3>1, <3>2
  <2>2. ASSUME NEW d \in Docs, NEW m, Enough(d, m) PROVE Enough(d, m)'
    BY <1>1, <1>4, <2>2, EnoughStays
  <2>3. CopyHolds'
    <3> SUFFICES ASSUME NEW d \in Docs, detail[d] # None, ~late[d]
                 PROVE  Enough(d, detail[d].rev)'
      BY <2>1 DEF CopyHolds
    <3>1. PICK m : m = detail[d].rev
      OBVIOUS
    <3>2. Enough(d, m)'
      BY <2>1, <2>2, <3>1 DEF CopyHolds
    <3> QED
      BY <2>1, <3>1, <3>2 DEF Enough
  <2>4. ReaderHolds'
    <3> SUFFICES ASSUME NEW r \in Clients, get[r].at \in {"tags", "store"}, ~get[r].crossed
                 PROVE  Enough(get[r].doc, get[r].rev)'
      BY <2>1 DEF ReaderHolds
    <3>1. get[r].doc \in Docs
      BY <1>1 DEF Types, Get
    <3>2. PICK m : m = get[r].rev
      OBVIOUS
    <3>3. PICK d \in Docs : d = get[r].doc
      BY <3>1
    <3>4. Enough(d, m)'
      BY <2>1, <2>2, <3>2, <3>3 DEF ReaderHolds
    <3> QED
      BY <2>1, <3>2, <3>3, <3>4 DEF Enough
  <2> QED
    BY <2>3, <2>4
<1> QED
  BY <1>2, <1>3, <1>4

\* Steps of others, that leave alone what writers have done.
LEMMA EnoughAside ==
    ASSUME UNCHANGED <<acked, write>>, NEW d, NEW m
    PROVE  Enough(d, m)' <=> Enough(d, m)
  BY DEF Enough

LEMMA ReadersCopies ==
    ASSUME WriteInv, CopyHolds, ReaderHolds, NEW r \in Clients, AskGet(r) \/ GetStep(r)
    PROVE  CopyHolds' /\ ReaderHolds'
<1> DEFINE e == get[r].doc
<1>1. Types /\ e \in Docs /\ get \in [Clients -> Get]
  BY DEF WriteInv, Types, Get
<1>2. UNCHANGED <<acked, write, missed, row>>
  BY DEF GetStep, AskGet, GetRow, GetTags, StoreDetail, EndGet, mysql, history
<1>3. \A x \in Clients : x # r => get'[x] = get[x]
  BY <1>1 DEF GetStep, AskGet, GetRow, GetTags, StoreDetail, EndGet, Moves
<1>4. CASE missed
  BY <1>2, <1>4 DEF CopyHolds, ReaderHolds
<1>5. CASE ~missed
  <2>1. get'[r].at \in {"tags", "store"} /\ ~get'[r].crossed
          => Enough(get'[r].doc, get'[r].rev)
    <3>1. CASE GetRow(r)
      <4>1. CASE ~row[e].live
        BY <1>1, <3>1, <4>1 DEF GetRow, Moves, NoGet
      <4>2. CASE row[e].live
        <5> DEFINE n == [get[r] EXCEPT !.at = "tags", !.text = row[e].text, !.rev = row[e].rev]
        <5>1. n.doc = e /\ n.rev = row[e].rev
          BY <1>1 DEF Get
        <5>2. get' = [get EXCEPT ![r] = n]
          BY <3>1, <4>2 DEF GetRow, Moves
        <5> HIDE DEF n
        <5>3. get'[r] = n
          BY <1>1, <5>2
        <5> QED
          BY <1>1, <5>1, <5>3, RowIsEnough
      <4> QED
        BY <4>1, <4>2
    <3>2. CASE GetTags(r)
      <4>1. /\ get'[r].doc = e /\ get'[r].rev = get[r].rev /\ get'[r].crossed = get[r].crossed
            /\ get[r].at = "tags"
        BY <1>1, <3>2 DEF GetTags, Moves, Get
      <4> QED
        BY <1>5, <4>1 DEF ReaderHolds
    <3>3. CASE AskGet(r)
      BY <1>1, <3>3 DEF AskGet, Moves, Get, NoGet
    <3>4. CASE StoreDetail(r) \/ EndGet(r)
      BY <1>1, <3>4 DEF StoreDetail, EndGet, Moves, NoGet
    <3> QED
      BY <3>1, <3>2, <3>3, <3>4 DEF GetStep
  <2>2. ASSUME NEW d \in Docs, detail'[d] # None, ~late'[d] PROVE Enough(d, detail'[d].rev)
    <3>1. CASE StoreDetail(r) /\ d = e
      <4>1. detail'[d].rev = get[r].rev /\ late'[d] = get[r].crossed /\ get[r].at = "store"
        BY <1>1, <3>1 DEF StoreDetail, Types
      <4> QED
        BY <1>5, <2>2, <3>1, <4>1 DEF ReaderHolds
    <3>2. CASE ~(StoreDetail(r) /\ d = e)
      <4>1. detail'[d] = detail[d] /\ late'[d] = late[d]
        BY <1>1, <3>2 DEF Types, GetStep, AskGet, GetRow, GetTags, StoreDetail,
                          EndGet, redis, history
      <4> QED
        BY <1>5, <2>2, <4>1 DEF CopyHolds
    <3> QED
      BY <3>1, <3>2
  <2>3. ASSUME NEW x \in Clients, get'[x].at \in {"tags", "store"}, ~get'[x].crossed
        PROVE  Enough(get'[x].doc, get'[x].rev)
    BY <1>3, <1>5, <2>1, <2>3 DEF ReaderHolds
  <2> QED
    BY <1>2, <2>2, <2>3 DEF CopyHolds, ReaderHolds, Enough
<1> QED
  BY <1>4, <1>5

\* A GET that fails takes nothing that is not enough, unless it marks what it takes.
LEMMA FailsCopies ==
    ASSUME WriteInv, CopyHolds, ReaderHolds, NEW r \in Clients, GetFails(r) \/ ListFails(r)
    PROVE  CopyHolds' /\ ReaderHolds'
<1>1. Types /\ UNCHANGED <<acked, write, detail, late>> /\ (missed => missed')
  BY FailsType DEF WriteInv
<1>2. \A d, m : Enough(d, m)' <=> Enough(d, m)
  BY <1>1 DEF Enough
<1>3. CopyHolds'
  BY <1>1, <1>2 DEF CopyHolds, Enough
<1>4. ASSUME ~missed' PROVE \A x \in Clients : get'[x] = get[x] \/ get'[x].at = "idle"
  <2>1. get' = get \/ Moves(r, NoGet)
    BY <1>4 DEF GetFails, ListFails, Fumbles
  <2> QED
    BY <1>1, <2>1 DEF Moves, NoGet, Types
<1>5. ReaderHolds'
  BY <1>1, <1>2, <1>4 DEF ReaderHolds, Enough
<1> QED
  BY <1>3, <1>5

LEMMA CopiesAside ==
    ASSUME UNCHANGED <<acked, write, missed, get>>, CopyHolds, ReaderHolds,
           \A d \in Docs : detail'[d] = None \/ (detail'[d] = detail[d] /\ late'[d] = late[d])
    PROVE  CopyHolds' /\ ReaderHolds'
  BY DEF CopyHolds, ReaderHolds, Enough

CopyInv == WriteInv /\ CopyHolds /\ ReaderHolds

LEMMA InitCopies == Init => CopyInv
<1> SUFFICES ASSUME Init PROVE CopyInv
  OBVIOUS
<1>1. \A d \in Docs : detail[d] = None
  BY DEF Init
<1>2. \A r \in Clients : get[r].at = "idle"
  BY DEF Init, NoGet
<1> QED
  BY <1>1, <1>2, InitWrite DEF CopyInv, CopyHolds, ReaderHolds

LEMMA CopyStep == CopyInv /\ [Next]_vars => CopyInv'
<1> SUFFICES ASSUME CopyInv, [Next]_vars PROVE CopyInv'
  OBVIOUS
<1>1. WriteInv' /\ Types
  BY WriteStepKeeps DEF CopyInv, WriteInv
<1>2. ASSUME NEW c \in Writers, Writing(c) PROVE CopyHolds' /\ ReaderHolds'
  BY <1>2, WritersCopies DEF CopyInv
<1>3. ASSUME NEW r \in Clients, AskGet(r) \/ GetStep(r) PROVE CopyHolds' /\ ReaderHolds'
  BY <1>3, ReadersCopies DEF CopyInv
<1>4. ASSUME NEW l \in Clients, ReadRev(l) \/ ListStep(l) PROVE CopyHolds' /\ ReaderHolds'
  <2>1. UNCHANGED <<acked, write, missed, get, detail, late>>
    BY <1>4 DEF ListStep, ReadRev, TryList, ListRows, StoreList, EndList, redis, history
  <2> QED
    BY <2>1, CopiesAside DEF CopyInv
<1>5. ASSUME NEW d \in Docs, ExpireDetail(d) PROVE CopyHolds' /\ ReaderHolds'
  <2>1. UNCHANGED <<acked, write, missed, get>>
    BY <1>5 DEF ExpireDetail
  <2>2. \A x \in Docs : detail'[x] = None \/ (detail'[x] = detail[x] /\ late'[x] = late[x])
    BY <1>1, <1>5 DEF ExpireDetail, Types
  <2> QED
    BY <2>1, <2>2, CopiesAside DEF CopyInv
<1>6. ASSUME ExpireList \/ UNCHANGED vars PROVE CopyHolds' /\ ReaderHolds'
  <2>1. UNCHANGED <<acked, write, missed, get, detail, late>>
    BY <1>6 DEF ExpireList, vars, history
  <2> QED
    BY <2>1, CopiesAside DEF CopyInv
<1>7. ASSUME NEW r \in Clients, GetFails(r) \/ ListFails(r) PROVE CopyHolds' /\ ReaderHolds'
  BY <1>7, FailsCopies DEF CopyInv
<1> QED
  BY <1>1, <1>2, <1>3, <1>4, <1>5, <1>6, <1>7 DEF Next, CopyInv

\* Unless something was missed, the copy of a document is behind what writers
\* were told only if a reader had read the row before the deletion and stored it after.
THEOREM BehindOnlyLate == Spec => []BehindOnlyIfLate
<1>1. CopyInv => BehindOnlyIfLate
  <2> SUFFICES ASSUME CopyInv, NEW d \in Docs, detail[d] # None, ~late[d], ~missed
               PROVE  detail[d].rev >= acked[d]
    BY DEF BehindOnlyIfLate
  <2>1. acked[d] <= detail[d].rev
    BY DEF CopyInv, CopyHolds, Enough
  <2>2. detail[d].rev \in Nat /\ acked[d] \in Nat
    BY DEF CopyInv, WriteInv, Types, Detail
  <2> QED
    BY <2>1, <2>2
<1> QED
  BY <1>1, InitCopies, CopyStep, PTL DEF Spec

-----------------------------------------------------------------------------
(* Copies of lists *)

AtMost(f, g) == \A d \in Docs : f[d] <= g[d]

LEMMA AtMostOrder ==
    ASSUME NEW f \in List, NEW g \in List, NEW h \in List, AtMost(f, g), AtMost(g, h)
    PROVE  AtMost(f, h)
  BY DEF AtMost, List

\* The copies that Redis has, or may still be given.
Copies == lists \cup {[key |-> listing[l].key, saw |-> listing[l].saw] :
                         l \in {c \in Clients : listing[c].at = "store"}}

Keys == /\ \A x \in Copies : x.key <= listRev
        /\ \A l \in Clients : listing[l].key <= listRev
Since == \A l \in Clients : AtMost(listing[l].since, acked)

\* Under the newest number stands what everyone was told; under the number a reader has
\* read stands what it was told; and so does what it reads.
Newest == \A x \in Copies : x.key = listRev => AtMost(acked, x.saw)
Awaited == \A l \in Clients : listing[l].at = "redis" /\ ~listing[l].blind =>
              \A x \in Copies : x.key = listing[l].key => AtMost(listing[l].since, x.saw)
Regular(x) == x.at = "store" \/ (x.at = "done" /\ ~x.blind)
Seen == \A l \in Clients : Regular(listing[l]) =>
              AtMost(listing[l].since, listing[l].saw)

ListsHold == Keys /\ Since /\ (~missed => Newest /\ Awaited /\ Seen)

LEMMA CopyType == ASSUME Types, NEW x \in Copies PROVE x.key \in Nat /\ x.saw \in List
<1>1. CASE x \in lists
  BY <1>1 DEF Types
<1>2. CASE x \notin lists
  <2>1. PICK l \in Clients : x = [key |-> listing[l].key, saw |-> listing[l].saw]
    BY <1>2 DEF Copies
  <2> QED
    BY <2>1 DEF Types, Listing
<1> QED
  BY <1>1, <1>2

\* Steps that leave the requests alone.
LEMMA ListsAside ==
    ASSUME ListsHold, UNCHANGED <<listing, listRev, acked>>, lists' \subseteq lists,
           missed => missed'
    PROVE  ListsHold'
<1>1. Copies' \subseteq Copies
  BY DEF Copies
<1>2. Keys' /\ Since'
  BY <1>1 DEF ListsHold, Keys, Since, AtMost
<1>3. ASSUME ~missed' PROVE Newest' /\ Awaited' /\ Seen'
  <2>1. ~missed /\ Newest /\ Awaited /\ Seen
    BY <1>3 DEF ListsHold
  <2>2. Newest'
    BY <1>1, <2>1 DEF Newest, AtMost
  <2>3. Awaited'
    BY <1>1, <2>1 DEF Awaited, AtMost
  <2>4. Seen'
    BY <2>1 DEF Seen, AtMost
  <2> QED
    BY <2>2, <2>3, <2>4
<1> QED
  BY <1>2, <1>3 DEF ListsHold

\* A writer who raises the number leaves no copy under the new one.
LEMMA IncrLists ==
    ASSUME WriteInv, Types', ListsHold, NEW c \in Writers, Incr(c)
    PROVE  ListsHold'
<1>1. Types
  BY DEF WriteInv
<1>2. UNCHANGED <<lists, listing>>
  BY DEF Incr
<1>3. Copies' = Copies
  BY <1>2 DEF Copies
<1>4. listRev \in Nat /\ listRev <= listRev' /\ acked \in List /\ acked' \in List
  <2>1. listRev \in Nat /\ (listRev' = listRev + 1 \/ listRev' = listRev)
    BY <1>1 DEF Incr, Types
  <2> QED
    BY <1>1, <2>1 DEF Types, List
<1>5. AtMost(acked, acked')
  <2> DEFINE e == write[c].doc
             n == write[c].made
  <2>1. e \in Docs /\ n \in Nat
    BY <1>1 DEF Types, Write
  <2>2. acked' = [acked EXCEPT ![e] = IF acked[e] > n THEN acked[e] ELSE n]
    BY DEF Incr
  <2> HIDE DEF e, n
  <2> QED
    BY <1>4, <2>1, <2>2 DEF AtMost, List
<1>6. Keys'
  <2>1. ASSUME NEW x \in Copies PROVE x.key <= listRev'
    <3>1. x.key \in Nat /\ x.key <= listRev
      BY <1>1, CopyType DEF ListsHold, Keys
    <3>2. listRev' \in Nat
      BY DEF Types
    <3> QED
      BY <1>4, <3>1, <3>2
  <2>2. ASSUME NEW l \in Clients PROVE listing[l].key <= listRev'
    <3>1. listing[l].key \in Nat /\ listing[l].key <= listRev
      BY <1>1 DEF ListsHold, Keys, Types, Listing
    <3>2. listRev' \in Nat
      BY DEF Types
    <3> QED
      BY <1>4, <3>1, <3>2
  <2> QED
    BY <1>2, <1>3, <2>1, <2>2 DEF Keys
<1>7. Since'
  <2>1. ASSUME NEW l \in Clients PROVE AtMost(listing[l].since, acked')
    <3>1. listing[l].since \in List /\ AtMost(listing[l].since, acked)
      BY <1>1 DEF ListsHold, Since, Types, Listing
    <3> QED
      BY <1>4, <1>5, <3>1, AtMostOrder
  <2> QED
    BY <1>2, <2>1 DEF Since, AtMost
<1>8. ASSUME ~missed' PROVE Newest' /\ Awaited' /\ Seen'
  <2>1. ~missed /\ listRev' = listRev + 1
    BY <1>8 DEF Incr, Fumbles
  <2>2. Awaited /\ Seen
    BY <2>1 DEF ListsHold
  <2>3. \A x \in Copies : x.key # listRev'
    <3> SUFFICES ASSUME NEW x \in Copies PROVE x.key # listRev + 1
      BY <2>1
    <3>1. x.key \in Nat /\ x.key <= listRev
      BY <1>1, CopyType DEF ListsHold, Keys
    <3> QED
      BY <1>4, <3>1
  <2> QED
    BY <1>2, <1>3, <2>2, <2>3 DEF Newest, Awaited, Seen, AtMost
<1> QED
  BY <1>6, <1>7, <1>8 DEF ListsHold

\* What each step makes of the reader's own request.
LEMMA TurnFields ==
    ASSUME Types, NEW l \in Clients, ReadRev(l) \/ ListStep(l)
    PROVE  LET n == listing'[l]
           IN  /\ n.key = listing[l].key \/ n.key = 0 \/ n.key = listRev
               /\ n.since = listing[l].since \/ n.since = acked \/ n.since = Nowhere
               /\ n.at = "redis" => /\ ReadRev(l) /\ n.since = acked
                                    /\ n.blind \/ n.key = listRev
               /\ n.at = "store" => ListRows(l)
               /\ n.at = "done" => TryList(l) /\ n.blind = listing[l].blind
<1> DEFINE n == listing'[l]
           m == listing[l]
<1>1. m \in Listing /\ listing \in [Clients -> Listing]
  BY DEF Types
<1>2. ASSUME NEW x, listing' = [listing EXCEPT ![l] = x] PROVE n = x
  BY <1>1, <1>2
<1>4. CASE ReadRev(l)
  <2>1. PICK k \in {0, listRev} :
          n = [NoListing EXCEPT !.at = "redis", !.key = k, !.blind = k # listRev,
                                !.since = acked]
    BY <1>2, <1>4 DEF ReadRev, Turns
  <2>2. n.at = "redis" /\ n.key = k /\ n.since = acked /\ n.blind = (k # listRev)
    BY <2>1 DEF NoListing
  <2> QED
    BY <1>4, <2>2, Zenon
<1>5. CASE ListRows(l)
  <2>1. n = [m EXCEPT !.at = "store", !.saw = [d \in Docs |-> row[d].rev]]
    BY <1>2, <1>5 DEF ListRows, Turns
  <2> HIDE DEF m
  <2>2. n.at = "store" /\ n.key = m.key /\ n.since = m.since
    BY <1>1, <2>1 DEF Listing
  <2> QED
    BY <1>5, <2>2 DEF m
<1>6. CASE TryList(l)
  <2>1. (\E x \in lists : n = [m EXCEPT !.at = "done", !.saw = x.saw])
          \/ n = [m EXCEPT !.at = "rows"]
    BY <1>2, <1>6 DEF TryList, Turns
  <2> HIDE DEF m
  <2>2. (n.at = "done" \/ n.at = "rows") /\ n.key = m.key /\ n.since = m.since
        /\ n.blind = m.blind
    BY <1>1, <2>1 DEF Listing
  <2> QED
    BY <1>6, <2>2 DEF m
<1>7. CASE StoreList(l) \/ EndList(l)
  <2>1. n = NoListing
    BY <1>2, <1>7 DEF StoreList, EndList, Turns
  <2> QED
    BY <2>1 DEF NoListing
<1> QED
  BY <1>4, <1>5, <1>6, <1>7 DEF ListStep

\* A reader adds at most the copy it has just read to those there are.
LEMMA NewCopies ==
    ASSUME Types, NEW l \in Clients, ReadRev(l) \/ ListStep(l), NEW x \in Copies'
    PROVE  \/ x \in Copies
           \/ /\ ListRows(l)
              /\ x = [key |-> listing[l].key, saw |-> [d \in Docs |-> row[d].rev]]
<1>1. listing \in [Clients -> Listing]
  BY DEF Types
<1>2. CASE x \in lists'
  <2>1. CASE StoreList(l)
    BY <1>2, <2>1 DEF StoreList, Copies
  <2>2. CASE ~StoreList(l)
    BY <1>2, <2>2 DEF ListStep, ReadRev, TryList, ListRows, EndList, redis, Copies
  <2> QED
    BY <2>1, <2>2
<1>3. CASE x \notin lists'
  <2>1. PICK c \in Clients : /\ x = [key |-> listing'[c].key, saw |-> listing'[c].saw]
                             /\ listing'[c].at = "store"
    BY <1>3 DEF Copies
  <2>2. CASE c # l
    <3>1. listing'[c] = listing[c]
      BY <1>1, <2>2 DEF ListStep, ReadRev, TryList, ListRows, StoreList, EndList, Turns
    <3> QED
      BY <2>1, <3>1 DEF Copies
  <2>3. CASE c = l
    <3>1. CASE ListRows(l)
      <4> DEFINE s == [d \in Docs |-> row[d].rev]
                 n == [listing[l] EXCEPT !.at = "store", !.saw = s]
      <4>1. n.key = listing[l].key /\ n.saw = s
        BY <1>1 DEF Listing
      <4>2. listing'[l] = n
        BY <1>1, <3>1 DEF ListRows, Turns
      <4> HIDE DEF n
      <4> QED
        BY <2>1, <2>3, <3>1, <4>1, <4>2
    <3>2. CASE ~ListRows(l)
      <4>1. listing'[l].at # "store"
        BY <3>2, TurnFields
      <4> QED
        BY <2>1, <2>3, <4>1
    <3> QED
      BY <3>1, <3>2
  <2> QED
    BY <2>2, <2>3
<1> QED
  BY <1>2, <1>3

LEMMA ReaderLists ==
    ASSUME WriteInv, ListsHold, NEW l \in Clients, ReadRev(l) \/ ListStep(l)
    PROVE  ListsHold'
<1> DEFINE s == [d \in Docs |-> row[d].rev]
           n == listing'[l]
<1>1. Types /\ listing \in [Clients -> Listing] /\ acked \in List /\ listRev \in Nat
  BY DEF WriteInv, Types, List
<1>2. UNCHANGED <<listRev, acked, missed>>
  BY DEF ListStep, ReadRev, TryList, ListRows, StoreList, EndList, redis, history
<1>3. \A x \in Clients : x # l => listing'[x] = listing[x]
  BY <1>1 DEF ListStep, ReadRev, TryList, ListRows, StoreList, EndList, Turns
<1>4. s \in List /\ AtMost(acked, s)
  BY <1>1 DEF Types, Row, List, AtMost, WriteInv
<1>5. listing[l] \in Listing /\ listing[l].since \in List /\ listing[l].key \in Nat
  BY <1>1 DEF Listing
<1>6. /\ n.key = listing[l].key \/ n.key = 0 \/ n.key = listRev
      /\ n.since = listing[l].since \/ n.since = acked \/ n.since = Nowhere
  BY <1>1, TurnFields
<1>7. Keys'
  <2>1. ASSUME NEW x \in Copies' PROVE x.key <= listRev
    BY <1>1, <2>1, NewCopies DEF ListsHold, Keys
  <2>2. n.key <= listRev
    BY <1>1, <1>6 DEF ListsHold, Keys
  <2> QED
    BY <1>2, <1>3, <2>1, <2>2 DEF ListsHold, Keys
<1>8. Since'
  <2>1. AtMost(acked, acked) /\ AtMost(Nowhere, acked)
    BY <1>1 DEF AtMost, Nowhere, List
  <2>2. AtMost(n.since, acked)
    BY <1>6, <2>1 DEF ListsHold, Since
  <2> QED
    BY <1>2, <1>3, <2>2 DEF ListsHold, Since, AtMost
<1>9. ASSUME ~missed' PROVE Newest' /\ Awaited' /\ Seen'
  <2>1. ~missed /\ Newest /\ Awaited /\ Seen
    BY <1>2, <1>9 DEF ListsHold
  <2>2. Newest'
    <3>1. ASSUME NEW x \in Copies', x.key = listRev PROVE AtMost(acked, x.saw)
      BY <1>1, <1>4, <2>1, <3>1, NewCopies DEF Newest
    <3> QED
      BY <1>2, <3>1 DEF Newest, AtMost
  <2>3. ASSUME NEW c \in Clients, NEW x \in Copies', listing'[c].at = "redis",
               ~listing'[c].blind, x.key = listing'[c].key
        PROVE  AtMost(listing'[c].since, x.saw)
    <3>1. CASE c = l
      <4>1. ReadRev(l)
        BY <1>1, <2>3, <3>1, TurnFields
      <4>2. n.key = listRev /\ n.since = acked
        BY <1>1, <2>3, <3>1, TurnFields
      <4>3. x \in Copies
        BY <1>1, <4>1, NewCopies DEF ReadRev, ListRows
      <4> QED
        BY <2>1, <2>3, <3>1, <4>2, <4>3 DEF Newest
    <3>2. CASE c # l
      <4>1. listing'[c] = listing[c] /\ listing[c].since \in List
        BY <1>1, <1>3, <3>2 DEF Listing
      <4>2. CASE x \in Copies
        BY <2>1, <2>3, <4>1, <4>2 DEF Awaited
      <4>3. CASE x \notin Copies
        <5>1. x.saw = s
          BY <1>1, <4>3, NewCopies
        <5>2. AtMost(listing[c].since, acked)
          BY DEF ListsHold, Since
        <5> QED
          BY <1>1, <1>4, <4>1, <5>1, <5>2, AtMostOrder
      <4> QED
        BY <4>2, <4>3
    <3> QED
      BY <3>1, <3>2
  <2>4. ASSUME Regular(n) PROVE AtMost(n.since, n.saw)
    <3>1. CASE ListRows(l)
      <4>1. n = [listing[l] EXCEPT !.at = "store", !.saw = s]
        BY <1>1, <3>1 DEF ListRows, Turns
      <4>2. n.since = listing[l].since /\ n.saw = s
        BY <1>1, <4>1 DEF Listing
      <4>3. AtMost(listing[l].since, acked)
        BY DEF ListsHold, Since
      <4> QED
        BY <1>1, <1>4, <1>5, <4>2, <4>3, AtMostOrder
    <3>2. CASE TryList(l)
      <4>1. PICK x \in lists : /\ x.key = listing[l].key
                               /\ n = [listing[l] EXCEPT !.at = "done", !.saw = x.saw]
        BY <1>1, <2>4, <3>2 DEF Regular, TryList, Turns, Listing
      <4>2. n.since = listing[l].since /\ n.saw = x.saw /\ listing[l].at = "redis"
        BY <1>1, <3>2, <4>1 DEF TryList, Listing
      <4>4. ~listing[l].blind
        <5>1. n.at = "done"
          BY <1>5, <4>1 DEF Listing
        <5> QED
          BY <1>1, <2>4, <5>1, TurnFields DEF Regular
      <4>3. x \in Copies
        BY DEF Copies
      <4> QED
        BY <2>1, <4>1, <4>2, <4>3, <4>4 DEF Awaited
    <3>3. CASE ~ListRows(l) /\ ~TryList(l)
      BY <1>1, <2>4, <3>3, TurnFields DEF Regular
    <3> QED
      BY <3>1, <3>2, <3>3
  <2>5. Awaited'
    BY <2>3 DEF Awaited, AtMost
  <2>6. Seen'
    <3>1. ASSUME NEW c \in Clients, Regular(listing'[c])
          PROVE  AtMost(listing'[c].since, listing'[c].saw)
      <4>1. CASE c = l
        BY <2>4, <3>1, <4>1
      <4>2. CASE c # l
        BY <1>3, <2>1, <3>1, <4>2 DEF Seen
      <4> QED
        BY <4>1, <4>2
    <3> QED
      BY <3>1 DEF Seen, Regular, AtMost
  <2> QED
    BY <2>2, <2>5, <2>6
<1> QED
  BY <1>7, <1>8, <1>9 DEF ListsHold

\* A request for the list that fails leaves no copy; one that ends early is marked as missed.
LEMMA FailsLists ==
    ASSUME WriteInv, ListsHold, NEW l \in Clients, GetFails(l) \/ ListFails(l)
    PROVE  ListsHold'
<1>1. /\ Types /\ UNCHANGED <<listRev, acked, lists>> /\ (missed => missed')
      /\ listing \in [Clients -> Listing]
  BY FailsType DEF WriteInv, Types
<1>2. CASE UNCHANGED listing
  BY <1>1, <1>2, ListsAside
<1>3. CASE Turns(l, NoListing)
  <2>1. \A c \in Clients : listing'[c] = listing[c] \/ listing'[c] = NoListing
    BY <1>1, <1>3 DEF Turns
  <2>2. Copies' \subseteq Copies
    BY <1>1, <2>1 DEF Copies, NoListing
  <2>3. AtMost(Nowhere, acked) /\ listRev \in Nat
    BY <1>1 DEF AtMost, Nowhere, Types
  <2>4. NoListing.key = 0 /\ NoListing.since = Nowhere /\ NoListing.at = "idle"
    BY DEF NoListing
  <2> HIDE DEF NoListing
  <2>5. Keys'
    BY <1>1, <2>1, <2>2, <2>3, <2>4 DEF ListsHold, Keys
  <2>6. \A c \in Clients : AtMost(listing'[c].since, acked)
    BY <2>1, <2>3, <2>4 DEF ListsHold, Since
  <2>7. Since'
    BY <1>1, <2>6 DEF Since, AtMost
  <2>8. ASSUME ~missed' PROVE Newest' /\ Awaited' /\ Seen'
    <3>1. ~missed /\ Newest /\ Awaited /\ Seen
      BY <1>1, <2>8 DEF ListsHold
    <3>2. Newest'
      BY <1>1, <2>2, <3>1 DEF Newest, AtMost
    <3>3. Awaited'
      BY <1>1, <2>1, <2>2, <2>4, <3>1 DEF Awaited, AtMost
    <3>4. Seen'
      BY <2>1, <2>4, <3>1 DEF Seen, Regular, AtMost
    <3> QED
      BY <3>2, <3>3, <3>4
  <2> QED
    BY <2>5, <2>7, <2>8 DEF ListsHold
<1>4. ASSUME missed', NEW s,
             Turns(l, [listing[l] EXCEPT !.at = "store", !.saw = s])
      PROVE  ListsHold'
  <2>1. /\ \A c \in Clients : c # l => listing'[c] = listing[c]
        /\ listing'[l].key = listing[l].key /\ listing'[l].since = listing[l].since
    BY <1>1, <1>4 DEF Turns, Types, Listing
  <2>2. \A c \in Clients : listing'[c].key = listing[c].key /\ listing'[c].since = listing[c].since
    BY <2>1
  <2>3. Since'
    BY <1>1, <2>2 DEF ListsHold, Since, AtMost
  <2>4. ASSUME NEW x \in Copies' PROVE x.key <= listRev
    <3>1. x \in lists \/ \E c \in Clients : x.key = listing'[c].key
      BY <1>1 DEF Copies
    <3>2. CASE x \in lists
      BY <3>2 DEF ListsHold, Keys, Copies
    <3> QED
      BY <2>2, <3>1, <3>2 DEF ListsHold, Keys
  <2>5. Keys'
    BY <1>1, <2>2, <2>4 DEF ListsHold, Keys
  <2> QED
    BY <1>4, <2>3, <2>5 DEF ListsHold
<1> QED
  BY <1>2, <1>3, <1>4 DEF GetFails, ListFails, Fumbles

LEMMA InitLists == Init => WriteInv /\ ListsHold
<1> SUFFICES ASSUME Init PROVE ListsHold
  BY InitWrite
<1>1. /\ lists = {} /\ listRev = 0 /\ acked = Nowhere
      /\ \A l \in Clients : listing[l] = NoListing
  BY DEF Init
<1>2. Copies = {}
  BY <1>1 DEF Copies, NoListing
<1>3. AtMost(Nowhere, Nowhere)
  BY DEF AtMost, Nowhere
<1> QED
  BY <1>1, <1>2, <1>3 DEF ListsHold, Keys, Since, Newest, Awaited, Seen, Regular,
     NoListing

LEMMA ListsStep == WriteInv /\ ListsHold /\ [Next]_vars => WriteInv' /\ ListsHold'
<1> SUFFICES ASSUME WriteInv, ListsHold, [Next]_vars PROVE ListsHold'
  BY WriteStepKeeps
<1>1. Types /\ Types'
  BY WriteStepKeeps DEF WriteInv
<1>2. ASSUME NEW c \in Writers, Writing(c) PROVE ListsHold'
  <2>1. CASE Incr(c)
    BY <1>1, <2>1, IncrLists
  <2>2. CASE ~Incr(c)
    <3>1. UNCHANGED <<listing, listRev, acked, lists>>
      BY <1>2, <2>2 DEF Writing, WriteStep, AskCreate, AskSave, AskRestore, AskDelete, Ask,
                Compare, Update, ClearTags, AddTag,
                MoreTags, AfterTags, Pick, PutBack, Number,
                Insert, Drop, Del, ReadGone, WriteFails, redis, history
    <3>2. missed => missed'
      <4>1. CASE Del(c)
        BY <4>1 DEF Del, Fumbles
      <4>2. CASE ~Del(c)
        BY <1>2, <2>2, <4>2 DEF Writing, WriteStep, AskCreate, AskSave, AskRestore, AskDelete,
                Ask, Compare, Update, ClearTags, AddTag,
                MoreTags, AfterTags, Pick, PutBack, Number,
                Insert, Drop, ReadGone, WriteFails, history
      <4> QED
        BY <4>1, <4>2
    <3> QED
      BY <3>1, <3>2, ListsAside
  <2> QED
    BY <2>1, <2>2
<1>3. ASSUME NEW r \in Clients, AskGet(r) \/ GetStep(r) PROVE ListsHold'
  <2>1. UNCHANGED <<listing, listRev, acked, lists, missed>>
    BY <1>3 DEF GetStep, AskGet, GetRow, GetTags, StoreDetail, EndGet, redis, history
  <2> QED
    BY <2>1, ListsAside
<1>4. ASSUME NEW l \in Clients, ReadRev(l) \/ ListStep(l) PROVE ListsHold'
  BY <1>4, ReaderLists
<1>5. ASSUME (\E d \in Docs : ExpireDetail(d)) \/ ExpireList \/ UNCHANGED vars PROVE ListsHold'
  <2>1. /\ UNCHANGED <<listing, listRev, acked, missed>>
        /\ lists' \subseteq lists
    BY <1>5 DEF ExpireDetail, ExpireList, vars, history
  <2> QED
    BY <2>1, ListsAside
<1>6. ASSUME NEW l \in Clients, GetFails(l) \/ ListFails(l) PROVE ListsHold'
  BY <1>6, FailsLists
<1> QED
  BY <1>2, <1>3, <1>4, <1>5, <1>6 DEF Next

\* A list shows at least what its reader, and anyone else, was told before the request read
\* the number, whichever copy it comes from, unless Redis missed a deletion or an increment, a
\* list broke off, or the number could not be read and a copy is the answer.
THEOREM ListNotBehind == Spec => []ListNeverBehind
<1>1. WriteInv /\ ListsHold => ListNeverBehind
  <2> SUFFICES ASSUME WriteInv, ListsHold, NEW l \in Clients,
                      ~missed, Regular(listing[l]), NEW d \in Docs
               PROVE  listing[l].saw[d] >= listing[l].since[d]
    BY DEF ListNeverBehind, Regular
  <2>1. listing[l].since[d] <= listing[l].saw[d]
    BY DEF ListsHold, Seen, AtMost
  <2>2. listing[l].since[d] \in Nat /\ listing[l].saw[d] \in Nat
    BY DEF WriteInv, Types, Listing, List
  <2> QED
    BY <2>1, <2>2
<1> QED
  BY <1>1, InitLists, ListsStep, PTL DEF Spec

-----------------------------------------------------------------------------
(* What copies say *)

\* What was read of a document is of some earlier state of it, or is how it still is; the
\* tags are read after the text, and may break off.
TextOf(d, n, text) ==
    n <= row[d].rev /\ (n = row[d].rev => row[d].live /\ text = row[d].text)

TagsOf(d, n, tags) == n = row[d].rev => tags = row[d].tags

CopiesWhole ==
    \A d \in Docs : detail[d] # None =>
        /\ TextOf(d, detail[d].rev, detail[d].text)
        /\ ~missed => TagsOf(d, detail[d].rev, detail[d].tags)

ReadersWhole ==
    \A r \in Clients :
        /\ get[r].at \in {"tags", "store"} => TextOf(get[r].doc, get[r].rev, get[r].text)
        /\ get[r].at = "store" /\ ~missed => TagsOf(get[r].doc, get[r].rev, get[r].tags)

WholeInv == Types /\ CopiesWhole /\ ReadersWhole

\* A change of the document only makes what was read older.
LEMMA WholeStays ==
    ASSUME Types, [Next]_vars, NEW d \in Docs, NEW n \in Nat, NEW text, NEW tags,
           TextOf(d, n, text)
    PROVE  TextOf(d, n, text)' /\ (TagsOf(d, n, tags) => TagsOf(d, n, tags)')
<1>1. row[d].rev \in Nat /\ row'[d].rev \in Nat
  BY TypeStep DEF Types, Row
<1>2. row'[d] = row[d] \/ row'[d].rev > row[d].rev
  BY Growth DEF Grows
<1>3. CASE row'[d] = row[d]
  BY <1>3 DEF TextOf, TagsOf
<1>4. CASE row'[d].rev > row[d].rev
  <2>1. n < row'[d].rev
    BY <1>1, <1>4 DEF TextOf
  <2> QED
    BY <1>1, <2>1 DEF TextOf, TagsOf
<1> QED
  BY <1>2, <1>3, <1>4

\* Whoever reads finds the document as it is; whoever stores has read it.
LEMMA ReadersAreWhole ==
    ASSUME WholeInv, NEW r \in Clients, AskGet(r) \/ GetStep(r)
    PROVE  CopiesWhole' /\ ReadersWhole'
<1> DEFINE e == get[r].doc
<1>1. /\ Types /\ e \in Docs /\ get \in [Clients -> Get] /\ row[e].rev \in Nat
      /\ detail \in [Docs -> Detail \cup {None}]
  BY DEF WholeInv, Types, Get, Row
<1>2. row' = row /\ missed' = missed
  BY DEF GetStep, AskGet, GetRow, GetTags, StoreDetail, EndGet, mysql, history
<1>3. \A x \in Clients : x # r => get'[x] = get[x]
  BY <1>1 DEF GetStep, AskGet, GetRow, GetTags, StoreDetail, EndGet, Moves
<1>4. \A d, n, x : (TextOf(d, n, x)' <=> TextOf(d, n, x)) /\ (TagsOf(d, n, x)' <=> TagsOf(d, n, x))
  BY <1>2 DEF TextOf, TagsOf
<1>5. /\ get'[r].at \in {"tags", "store"} => TextOf(get'[r].doc, get'[r].rev, get'[r].text)
      /\ get'[r].at = "store" /\ ~missed => TagsOf(get'[r].doc, get'[r].rev, get'[r].tags)
  <2>1. CASE GetRow(r)
    <3>1. CASE ~row[e].live
      BY <1>1, <2>1, <3>1 DEF GetRow, Moves, NoGet
    <3>2. CASE row[e].live
      <4> DEFINE n == [get[r] EXCEPT !.at = "tags", !.text = row[e].text, !.rev = row[e].rev]
      <4>1. n.doc = e /\ n.rev = row[e].rev /\ n.text = row[e].text /\ n.at = "tags"
        BY <1>1 DEF Get
      <4>2. get' = [get EXCEPT ![r] = n]
        BY <2>1, <3>2 DEF GetRow, Moves
      <4> HIDE DEF n
      <4>3. get'[r] = n
        BY <1>1, <4>2
      <4> QED
        BY <1>1, <3>2, <4>1, <4>3 DEF TextOf
    <3> QED
      BY <3>1, <3>2
  <2>2. CASE GetTags(r)
    <3>1. /\ get'[r].doc = e /\ get'[r].rev = get[r].rev /\ get'[r].text = get[r].text
          /\ get'[r].tags = row[e].tags /\ get[r].at = "tags"
      BY <1>1, <2>2 DEF GetTags, Moves, Get
    <3> QED
      BY <3>1 DEF WholeInv, ReadersWhole, TagsOf
  <2>3. CASE AskGet(r)
    BY <1>1, <2>3 DEF AskGet, Moves, Get, NoGet
  <2>4. CASE StoreDetail(r) \/ EndGet(r)
    BY <1>1, <2>4 DEF StoreDetail, EndGet, Moves, NoGet
  <2> QED
    BY <2>1, <2>2, <2>3, <2>4 DEF GetStep
<1>6. ASSUME NEW d \in Docs, detail'[d] # None
      PROVE  /\ TextOf(d, detail'[d].rev, detail'[d].text)
             /\ ~missed => TagsOf(d, detail'[d].rev, detail'[d].tags)
  <2>1. CASE StoreDetail(r) /\ d = e
    <3>1. /\ detail'[d] = [text |-> get[r].text, tags |-> get[r].tags, rev |-> get[r].rev]
          /\ get[r].at = "store"
      BY <1>1, <2>1 DEF StoreDetail
    <3> QED
      BY <2>1, <3>1 DEF WholeInv, ReadersWhole
  <2>2. CASE ~(StoreDetail(r) /\ d = e)
    <3>1. detail'[d] = detail[d]
      BY <1>1, <2>2 DEF GetStep, AskGet, GetRow, GetTags, StoreDetail, EndGet, redis
    <3> QED
      BY <1>6, <3>1 DEF WholeInv, CopiesWhole
  <2> QED
    BY <2>1, <2>2
<1>7. CopiesWhole'
  BY <1>2, <1>4, <1>6 DEF CopiesWhole
<1>8. ReadersWhole'
  <2> SUFFICES ASSUME NEW x \in Clients
               PROVE  /\ get'[x].at \in {"tags", "store"}
                            => TextOf(get'[x].doc, get'[x].rev, get'[x].text)
                      /\ get'[x].at = "store" /\ ~missed
                            => TagsOf(get'[x].doc, get'[x].rev, get'[x].tags)
    BY <1>2, <1>4 DEF ReadersWhole
  <2>1. CASE x = r
    BY <1>5, <2>1
  <2>2. CASE x # r
    BY <1>3, <2>2 DEF WholeInv, ReadersWhole
  <2> QED
    BY <2>1, <2>2
<1> QED
  BY <1>7, <1>8

\* All other steps leave copies and readers alone, or end or mark them.
LEMMA OthersAreWhole ==
    ASSUME WholeInv, [Next]_vars, missed => missed',
           \A d \in Docs : detail'[d] \in {detail[d], None},
           \A r \in Clients : /\ get'[r].at = get[r].at /\ get'[r].doc = get[r].doc
                              /\ get'[r].rev = get[r].rev /\ get'[r].text = get[r].text
                              /\ get'[r].tags = get[r].tags
    PROVE  CopiesWhole' /\ ReadersWhole'
<1>1. Types
  BY DEF WholeInv
<1>2. CopiesWhole'
  <2> SUFFICES ASSUME NEW d \in Docs, detail'[d] # None
               PROVE  /\ TextOf(d, detail[d].rev, detail[d].text)'
                      /\ ~missed' => TagsOf(d, detail[d].rev, detail[d].tags)'
    BY DEF CopiesWhole
  <2>1. detail'[d] = detail[d] /\ detail[d].rev \in Nat
    BY <1>1 DEF Types, Detail
  <2>2. PICK n, text, tags :
           n \in Nat /\ n = detail[d].rev /\ text = detail[d].text /\ tags = detail[d].tags
    BY <2>1
  <2>3. TextOf(d, n, text) /\ (~missed => TagsOf(d, n, tags))
    BY <2>1, <2>2 DEF WholeInv, CopiesWhole
  <2>4. TextOf(d, n, text)' /\ (~missed' => TagsOf(d, n, tags)')
    BY <1>1, <2>2, <2>3, WholeStays
  <2> QED
    BY <2>1, <2>2, <2>4 DEF TextOf, TagsOf
<1>3. ReadersWhole'
  <2> SUFFICES ASSUME NEW r \in Clients, get[r].at \in {"tags", "store"}
               PROVE  /\ TextOf(get[r].doc, get[r].rev, get[r].text)'
                      /\ get[r].at = "store" /\ ~missed'
                            => TagsOf(get[r].doc, get[r].rev, get[r].tags)'
    BY DEF ReadersWhole
  <2>1. get[r].doc \in Docs /\ get[r].rev \in Nat
    BY <1>1 DEF Types, Get
  <2>2. PICK d, n, text, tags :
           /\ d \in Docs /\ n \in Nat /\ d = get[r].doc /\ n = get[r].rev
           /\ text = get[r].text /\ tags = get[r].tags
    BY <2>1
  <2>3. TextOf(d, n, text) /\ (get[r].at = "store" /\ ~missed => TagsOf(d, n, tags))
    BY <2>2 DEF WholeInv, ReadersWhole
  <2>4. TextOf(d, n, text)' /\ (get[r].at = "store" /\ ~missed' => TagsOf(d, n, tags)')
    BY <1>1, <2>2, <2>3, WholeStays
  <2> QED
    BY <2>2, <2>4 DEF TextOf, TagsOf
<1> QED
  BY <1>2, <1>3

\* A GET that fails may take fewer tags, which is marked as missed; its text is the one it had.
LEMMA FailsAreWhole ==
    ASSUME WholeInv, NEW r \in Clients, GetFails(r) \/ ListFails(r)
    PROVE  CopiesWhole' /\ ReadersWhole'
<1>1. /\ Types /\ UNCHANGED <<row, detail>> /\ (missed => missed')
      /\ get \in [Clients -> Get]
  BY FailsType DEF WholeInv, Types
<1>2. \A d, n, x : (TextOf(d, n, x)' <=> TextOf(d, n, x)) /\ (TagsOf(d, n, x)' <=> TagsOf(d, n, x))
  BY <1>1 DEF TextOf, TagsOf
<1>3. CopiesWhole'
  BY <1>1, <1>2 DEF WholeInv, CopiesWhole
<1>4. ASSUME NEW x \in Clients
      PROVE  \/ get'[x] = get[x]
             \/ get'[x].at = "idle"
             \/ /\ missed' /\ get[x].at = "tags"
                /\ get'[x].doc = get[x].doc /\ get'[x].rev = get[x].rev
                /\ get'[x].text = get[x].text
  <2>1. CASE get' = get
    BY <2>1
  <2>2. CASE Moves(r, NoGet)
    BY <1>1, <2>2 DEF Moves, NoGet
  <2>3. ASSUME missed', get[r].at = "tags", NEW tags,
               Moves(r, [get[r] EXCEPT !.at = "store", !.tags = tags])
        PROVE  \/ get'[x] = get[x]
               \/ /\ missed' /\ get[x].at = "tags"
                  /\ get'[x].doc = get[x].doc /\ get'[x].rev = get[x].rev
                  /\ get'[x].text = get[x].text
    BY <1>1, <2>3 DEF Moves, Get
  <2> QED
    BY <2>1, <2>2, <2>3 DEF GetFails, ListFails, Fumbles
<1>5. ReadersWhole'
  BY <1>1, <1>2, <1>4 DEF WholeInv, ReadersWhole
<1> QED
  BY <1>3, <1>5

LEMMA WholeStep == WholeInv /\ [Next]_vars => WholeInv'
<1> SUFFICES ASSUME WholeInv, [Next]_vars PROVE WholeInv'
  OBVIOUS
<1>1. Types /\ Types'
  BY TypeStep DEF WholeInv
<1>2. ASSUME UNCHANGED <<detail, get>>, missed => missed' PROVE CopiesWhole' /\ ReadersWhole'
  BY <1>2, OthersAreWhole
<1>3. ASSUME NEW c \in Writers, Writing(c) PROVE CopiesWhole' /\ ReadersWhole'
  <2>1. CASE Del(c)
    <3>1. \A d \in Docs : detail'[d] \in {detail[d], None}
      BY <1>1, <2>1 DEF Del, Types
    <3>2. \A r \in Clients : /\ get'[r].at = get[r].at /\ get'[r].doc = get[r].doc
                             /\ get'[r].rev = get[r].rev /\ get'[r].text = get[r].text
                             /\ get'[r].tags = get[r].tags
      BY <1>1, <2>1 DEF Del, Types, Get
    <3>3. missed => missed'
      BY <2>1 DEF Del, Fumbles
    <3> QED
      BY <3>1, <3>2, <3>3, OthersAreWhole
  <2>2. CASE ~Del(c)
    <3>1. UNCHANGED <<detail, get>>
      BY <1>3, <2>2 DEF Writing, WriteStep, AskCreate, AskSave, AskRestore, AskDelete, Ask,
                Compare, Update, ClearTags, AddTag,
                MoreTags, AfterTags, Pick, PutBack, Number,
                Insert, Drop, Incr, ReadGone, WriteFails, redis
    <3>2. missed => missed'
      <4>1. CASE Incr(c)
        BY <4>1 DEF Incr, Fumbles
      <4>2. CASE ~Incr(c)
        BY <1>3, <2>2, <4>2 DEF Writing, WriteStep, AskCreate, AskSave, AskRestore, AskDelete,
                Ask, Compare, Update, ClearTags, AddTag,
                MoreTags, AfterTags, Pick, PutBack, Number,
                Insert, Drop, ReadGone, WriteFails, history
      <4> QED
        BY <4>1, <4>2
    <3> QED
      BY <1>2, <3>1, <3>2
  <2> QED
    BY <2>1, <2>2
<1>4. ASSUME NEW r \in Clients, AskGet(r) \/ GetStep(r) PROVE CopiesWhole' /\ ReadersWhole'
  BY <1>4, ReadersAreWhole
<1>5. ASSUME NEW l \in Clients, ReadRev(l) \/ ListStep(l) PROVE CopiesWhole' /\ ReadersWhole'
  <2>1. UNCHANGED <<detail, get, missed>>
    BY <1>5 DEF ListStep, ReadRev, TryList, ListRows, StoreList, EndList, redis, history
  <2> QED
    BY <1>2, <2>1
<1>6. ASSUME NEW d \in Docs, ExpireDetail(d) PROVE CopiesWhole' /\ ReadersWhole'
  <2>1. (\A x \in Docs : detail'[x] \in {detail[x], None}) /\ UNCHANGED <<get, missed>>
    BY <1>1, <1>6 DEF ExpireDetail, Types
  <2> QED
    BY <2>1, OthersAreWhole
<1>7. ASSUME ExpireList \/ UNCHANGED vars PROVE CopiesWhole' /\ ReadersWhole'
  BY <1>2, <1>7 DEF ExpireList, vars, history
<1>8. ASSUME NEW r \in Clients, GetFails(r) \/ ListFails(r) PROVE CopiesWhole' /\ ReadersWhole'
  BY <1>8, FailsAreWhole
<1> QED
  BY <1>1, <1>3, <1>4, <1>5, <1>6, <1>7, <1>8 DEF Next, WholeInv

\* A copy is the document as it is, text and tags of one moment, once its last change has
\* been told to its writer, unless the copy was stored late or something was missed.
THEOREM CopiesAreRows == Spec => []CopyIsRow
<1>1. Init => WholeInv
  <2> SUFFICES ASSUME Init PROVE WholeInv
    OBVIOUS
  <2>1. \A d \in Docs : detail[d] = None
    BY DEF Init
  <2>2. \A r \in Clients : get[r].at = "idle"
    BY DEF Init, NoGet
  <2>3. Types
    BY InitType
  <2> QED
    BY <2>1, <2>2, <2>3 DEF WholeInv, CopiesWhole, ReadersWhole
<1>2. WholeInv /\ CopyInv => CopyIsRow
  <2> SUFFICES ASSUME WholeInv, CopyInv, NEW d \in Docs,
                      detail[d] # None, ~late[d], ~missed, acked[d] = row[d].rev
               PROVE  /\ row[d].live
                      /\ detail[d] = [text |-> row[d].text, tags |-> row[d].tags,
                                      rev |-> row[d].rev]
    BY DEF CopyIsRow
  <2>1. detail[d] \in Detail /\ row[d].rev \in Nat
    BY DEF WholeInv, Types, Row
  <2>2. row[d].rev <= detail[d].rev
    BY DEF CopyInv, CopyHolds, Enough
  <2>3. detail[d].rev <= row[d].rev
    BY DEF WholeInv, CopiesWhole, TextOf
  <2>4. detail[d].rev = row[d].rev
    BY <2>1, <2>2, <2>3 DEF Detail
  <2>5. row[d].live /\ detail[d].text = row[d].text /\ detail[d].tags = row[d].tags
    BY <2>4 DEF WholeInv, CopiesWhole, TextOf, TagsOf
  <2> QED
    BY <2>1, <2>4, <2>5 DEF Detail
<1> QED
  BY <1>1, <1>2, WholeStep, InitCopies, CopyStep, PTL DEF Spec
=============================================================================
