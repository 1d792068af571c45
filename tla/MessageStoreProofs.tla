------------------------- MODULE MessageStoreProofs -------------------------
(***************************************************************************)
(* Theorems about MessageStore, for every number of users, sessions,       *)
(* requests and messages.                                                  *)
(*                                                                         *)
(* The argument is about databases and transactions, apart from sessions:  *)
(* TxInv says what a transaction t has written over a database db, and     *)
(* that what it found there still holds.  What another's commit may change *)
(* of db (Frame) leaves that true: cells that t wrote are locked, rows     *)
(* stay what they are but for their publication and deletion, and the      *)
(* messages of the main timeline change only under the lock of the unread  *)
(* revision.  A statement is a write to what its transaction has written   *)
(* (Wrote, Edits), and a commit keeps the counts of whole threads and the  *)
(* last message because the transaction has seen them right (Counted,      *)
(* Names).                                                                 *)
(***************************************************************************)
EXTENDS MessageStore, FiniteSetTheorems, WellFoundedInduction, TLAPS

-----------------------------------------------------------------------------
(* Numbers: sets of them have a smallest and, when bounded, a largest one.  *)

\* A set of natural numbers that is not empty has a smallest element.
LEMMA Smallest ==
    ASSUME NEW S \in SUBSET Nat, S # {}
    PROVE  \E m \in S : \A k \in S : m <= k
<1> DEFINE R == OpToRel(<, Nat)
<1>1. IsWellFoundedOn(R, Nat)
  BY NatLessThanWellFounded
<1>2. R = {ss \in Nat \X Nat : ss[1] < ss[2]}
  BY Zenon DEF OpToRel
<1> HIDE DEF R
<1>3. \A x, y \in Nat : y < x => <<y, x>> \in R
  BY <1>2
<1>4. PICK m \in S : \A k \in S : ~(<<k, m>> \in R)
  <2>1. S \subseteq Nat /\ S # {}
    OBVIOUS
  <2> QED
    BY <1>1, <2>1, WFMin
<1>5. ASSUME NEW k \in S PROVE m <= k
  <2>1. k \in Nat /\ m \in Nat
    OBVIOUS
  <2>2. ~(k < m)
    BY <1>3, <1>4, <2>1
  <2> QED
    BY <2>1, <2>2
<1> QED
  BY <1>5

\* A set of natural numbers up to n that is not empty has a largest element.
LEMMA Largest ==
    ASSUME NEW n \in Nat, NEW S \in SUBSET (0..n), S # {}
    PROVE  \E m \in S : \A k \in S : k <= m
<1> DEFINE T == {n - k : k \in S}
<1>1. \A k \in S : n - k \in Nat /\ k \in Nat
  OBVIOUS
<1>2. T \in SUBSET Nat
  BY <1>1
<1>3. T # {}
  OBVIOUS
<1>4. (\A k \in S : n - k \in T) /\ \A m \in T : \E l \in S : m = n - l
  OBVIOUS
<1> HIDE DEF T
<1>5. PICK m \in T : \A k \in T : m <= k
  BY <1>2, <1>3, Smallest
<1>6. PICK l \in S : m = n - l
  BY <1>4
<1>7. ASSUME NEW k \in S PROVE k <= l
  <2>1. n - l <= n - k
    BY <1>4, <1>5, <1>6
  <2> QED
    BY <1>1, <2>1
<1> QED
  BY <1>7

\* Ids are numbers, and no id is none.
LEMMA IdNumbers ==
    /\ MaxId \in Nat /\ Ids \in SUBSET Nat /\ Scopes \in SUBSET Nat /\ 1 \in Ids
    /\ \A i \in Ids : i # NoId /\ i \in Scopes /\ i \in 0..MaxId
    /\ NoId \in Scopes /\ NoId \notin Ids /\ IsFiniteSet(Ids)
    /\ \A i \in Scopes : i \in Ids \/ i = NoId
<1>1. IsFiniteSet(1..MaxId)
  BY BoundsAssumption, FS_Interval
<1> QED
  BY <1>1, BoundsAssumption DEF Ids, Scopes, NoId

\* The newest message below a bound is one of those asked for, if there is one.
LEMMA NewestIsOne ==
    ASSUME NEW ids \in SUBSET Ids, NEW i \in Nat
    PROVE  /\ NewestBelow(ids, i) \in Scopes
           /\ NewestBelow(ids, i) = NoId => \A j \in ids : ~(j < i)
           /\ NewestBelow(ids, i) # NoId => NewestBelow(ids, i) \in ids
<1> DEFINE older == {j \in ids : j < i}
           newest == CHOOSE j \in older : \A k \in older : k <= j
<1>1. NewestBelow(ids, i) = IF older = {} THEN NoId ELSE newest
  BY Zenon DEF NewestBelow
<1>2. CASE older = {}
  BY <1>1, <1>2, IdNumbers
<1>3. CASE older # {}
  <2>1. older \in SUBSET (0..MaxId)
    BY IdNumbers
  <2>2. \E j \in older : \A k \in older : k <= j
    <3> HIDE DEF older
    <3> QED
      BY <1>3, <2>1, IdNumbers, Largest
  <2>3. newest \in older
    <3> HIDE DEF older
    <3> QED
      BY <2>2, Zenon
  <2>4. newest \in ids
    BY <2>3
  <2> HIDE DEF newest
  <2> QED
    BY <1>1, <1>3, <2>4, IdNumbers
<1> QED
  BY <1>2, <1>3

\* The root that is reconciled next is one of those to be reconciled.
LEMMA FirstRootIsOne ==
    ASSUME NEW s \in Sessions, tx[s].roots \in SUBSET Ids, tx[s].roots # {}
    PROVE  FirstRoot(s) \in tx[s].roots
<1>1. \E r \in tx[s].roots : \A q \in tx[s].roots : r <= q
  BY IdNumbers, Smallest
<1> QED
  BY <1>1, Zenon DEF FirstRoot

-----------------------------------------------------------------------------
(* Cells and what is written to them.                                      *)

\* Cells of different things are different.
LEMMA CellsDiffer ==
    /\ \A i, j : RowOf(i) = RowOf(j) <=> i = j
    /\ \A i, j : CountOf(i) = CountOf(j) <=> i = j
    /\ \A u, v, p, q : ReaderOf(u, p) = ReaderOf(v, q) <=> u = v /\ p = q
    /\ \A i, j : RowOf(i) # CountOf(j)
    /\ \A i, u, p : RowOf(i) # ReaderOf(u, p) /\ CountOf(i) # ReaderOf(u, p)
    /\ \A i : /\ RowOf(i) # LastMessage /\ RowOf(i) # Revision
              /\ CountOf(i) # LastMessage /\ CountOf(i) # Revision
    /\ \A u, p : ReaderOf(u, p) # LastMessage /\ ReaderOf(u, p) # Revision
    /\ LastMessage # Revision
BY DEF RowOf, CountOf, ReaderOf, LastMessage, Revision

\* The cells of every message, thread and reader are there.
LEMMA CellsAre ==
    /\ \A i \in Ids : RowOf(i) \in Cells /\ CountOf(i) \in Cells
    /\ \A u \in Users, p \in Scopes : ReaderOf(u, p) \in Cells
    /\ LastMessage \in Cells /\ Revision \in Cells
<1>1. ASSUME NEW u \in Users, NEW p \in Scopes
      PROVE  ReaderOf(u, p) \in {ReaderOf(v, c) : v \in Users, c \in Scopes}
  OBVIOUS
<1> QED
  BY <1>1 DEF Cells

\* Writing one cell, and writing over what is there.
LEMMA Writing ==
    /\ \A c, v : DOMAIN Cell(c, v) = {c} /\ Cell(c, v)[c] = v
    /\ DOMAIN Nothing = {}
    /\ \A f, g : DOMAIN Over(f, g) = DOMAIN f \cup DOMAIN g
    /\ \A f, g : \A c \in DOMAIN f : Over(f, g)[c] = f[c]
    /\ \A f, g : \A c \in DOMAIN g : c \notin DOMAIN f => Over(f, g)[c] = g[c]
BY DEF Cell, Nothing, Over

-----------------------------------------------------------------------------
(* The invariant, over a database db and a transaction t.                  *)

Kinds == {"none", "send", "publish", "delete", "recall", "cleanup"}
Deleting == {"delete", "recall", "cleanup"}

Places ==
    {"idle", "insert", "last", "mark", "count", "flag", "publish", "delete", "recount",
     "store", "unflag", "shift", "hide", "move", "peek", "newest", "relast"}

Rows == [request : AnyRequest, published : BOOLEAN, attached : BOOLEAN, deleted : BOOLEAN,
         has_thread : BOOLEAN]
Readers == [read : Scopes, receipt : Scopes]

\* The cells of f hold what they are for.
Fits(f) ==
    /\ DOMAIN f \subseteq Cells
    /\ \A i \in Ids : RowOf(i) \in DOMAIN f => f[RowOf(i)] \in Rows
    /\ \A i \in Ids : CountOf(i) \in DOMAIN f => f[CountOf(i)] \in Nat
    /\ \A u \in Users, p \in Scopes :
            ReaderOf(u, p) \in DOMAIN f => f[ReaderOf(u, p)] \in Readers
    /\ LastMessage \in DOMAIN f => f[LastMessage] \in Scopes

TxShape(t) ==
    t \in [kind : Kinds, pc : Places, user : Users, request : AnyRequest, id : Scopes,
           targets : SUBSET Ids, roots : SUBSET Ids, hidden : SUBSET Ids, seen : Nat,
           writes : {t.writes}]

\* What t reads, as View.
Val(db, t, c) == IF c \in DOMAIN t.writes THEN t.writes[c] ELSE db[c]
RowAt(db, t, i) == Val(db, t, RowOf(i))
RootAt(db, t) == RowAt(db, t, t.id).request.root

\* The statements of each kind of transaction.
PlaceInv(t) ==
    /\ t.kind = "none" => t = Idle
    /\ t.pc = "idle" => t.kind = "none"
    /\ t.kind = "send" => t.pc \in {"insert", "last", "mark", "count", "flag"}
    /\ t.kind = "publish" => t.pc \in {"publish", "count", "flag", "newest", "relast"}
    /\ t.kind = "delete" =>
          t.pc \in {"delete", "recount", "store", "unflag", "peek", "newest", "relast", "move"}
    /\ t.kind = "recall" =>
          t.pc \in {"recount", "store", "unflag", "shift", "hide", "move", "peek", "newest",
                    "relast"}
    /\ t.kind = "cleanup" =>
          t.pc \in {"delete", "recount", "store", "unflag", "shift", "hide", "move", "peek",
                    "newest", "relast"}
    /\ t.pc \in {"recount", "store", "unflag", "shift"} => t.roots # {}
    /\ t.pc \in {"insert", "publish", "delete"} => t.writes = Nothing
    /\ t.pc = "relast" => t.seen \in Scopes

\* The message that is being sent is stored nowhere else; its root is stored.
SendInv(db, t) ==
    t.kind = "send" =>
        /\ t.id \in Ids /\ t.request \in Requests /\ db[RowOf(t.id)] = NoRow
        /\ t.request.root # NoId => db[RowOf(t.request.root)] # NoRow
        /\ t.pc # "insert" =>
              /\ RowOf(t.id) \in DOMAIN t.writes
              /\ t.writes[RowOf(t.id)] = Row(t.request, Publishes(t.request))
              /\ \A i \in Ids : db[RowOf(i)] # NoRow =>
                                    db[RowOf(i)].request.key # t.request.key
        /\ t.pc = "last" => Publishes(t.request) /\ t.request.root = NoId
        /\ t.pc \in {"count", "flag"} => CountsNow(t.request)
        /\ t.pc = "mark" /\ Publishes(t.request) /\ t.request.root = NoId =>
              LastMessage \in DOMAIN t.writes /\ t.writes[LastMessage] = t.id

\* The message that is being published is stored and not yet published.
PublishInv(db, t) ==
    t.kind = "publish" =>
        /\ t.id \in Ids /\ db[RowOf(t.id)] # NoRow /\ ~db[RowOf(t.id)].published
        /\ t.pc # "publish" =>
              RowOf(t.id) \in DOMAIN t.writes /\ t.writes[RowOf(t.id)].published
        /\ t.pc \in {"count", "flag"} => db[RowOf(t.id)].request.root # NoId
        /\ t.pc \in {"newest", "relast"} => db[RowOf(t.id)].request.root = NoId

\* Only published messages are deleted or recalled, all of them at once.
TargetsInv(db, t) ==
    t.kind \in {"delete", "recall"} => \A i \in t.targets :
        /\ db[RowOf(i)].published
        /\ t.pc # "delete" => RowOf(i) \in DOMAIN t.writes /\ t.writes[RowOf(i)].deleted

\* A row that is stored keeps its request and what has happened to it.
Kept(r, w) ==
    /\ r # NoRow /\ w # NoRow /\ w.request = r.request
    /\ r.published => w.published
    /\ r.deleted => w.deleted

\* The row that a send inserts.
Brings(t, i) == t.kind = "send" /\ i = t.id

\* What a transaction does to the rows that are there.
RowsInv(db, t) ==
    \A i \in Ids : RowOf(i) \in DOMAIN t.writes /\ ~Brings(t, i) =>
        /\ Kept(db[RowOf(i)], t.writes[RowOf(i)])
        /\ t.writes[RowOf(i)].published # db[RowOf(i)].published =>
              t.kind = "publish" /\ i = t.id

DeletedInv(db, t) ==
    \A i \in Ids : RowOf(i) \in DOMAIN t.writes /\ ~Brings(t, i) =>
        (t.writes[RowOf(i)].deleted # db[RowOf(i)].deleted =>
            t.kind \in {"delete", "recall"} /\ i \in t.targets)

\* A reply of the thread of r is deleted, as t sees it.
Lost(db, t, r) ==
    \E j \in Ids : RowAt(db, t, j).request.root = r /\ RowAt(db, t, j).deleted

FlagsInv(db, t) ==
    \A i \in Ids : RowOf(i) \in DOMAIN t.writes /\ ~Brings(t, i) =>
        (t.writes[RowOf(i)].has_thread # db[RowOf(i)].has_thread => Lost(db, t, i))

\* Receipts only grow.
ReadersInv(db, t) ==
    \A u \in Users, p \in Scopes :
        ReaderOf(u, p) \in DOMAIN t.writes =>
            t.writes[ReaderOf(u, p)].receipt >= db[ReaderOf(u, p)].receipt

\* Who changes what the main timeline shows has the lock of the revision.
RevisionInv(db, t) ==
    \A i \in Ids :
        RowOf(i) \in DOMAIN t.writes /\ VisibleTop(t.writes[RowOf(i)]) # VisibleTop(db[RowOf(i)])
            => Revision \in DOMAIN t.writes

\* Counts that t changes: of the reply it brings, or of threads that lost one.
CountInv(db, t) ==
    /\ t.kind \in {"send", "publish"} =>
          /\ \A r \in Ids : CountOf(r) \in DOMAIN t.writes => t.pc = "flag" /\ r = RootAt(db, t)
          /\ t.pc = "flag" =>
                /\ CountOf(RootAt(db, t)) \in DOMAIN t.writes
                /\ t.writes[CountOf(RootAt(db, t))] = db[CountOf(RootAt(db, t))] + 1
    /\ t.kind \in Deleting =>
          \A r \in Ids : CountOf(r) \in DOMAIN t.writes \/ r \in t.roots => Lost(db, t, r)

\* last names a message that is there, if there is one, as t sees it.
Names(db, t, last) ==
    IF last = NoId THEN \A i \in Ids : ~VisibleTop(RowAt(db, t, i))
    ELSE last \in Ids /\ VisibleTop(RowAt(db, t, last))

\* Who changes the last message has the lock of the revision, and has found
\* what it is to be.
LastInv(db, t) ==
    /\ LastMessage \in DOMAIN t.writes =>
          /\ Revision \in DOMAIN t.writes
          /\ \/ /\ t.kind = "send" /\ t.pc = "mark"
                /\ t.request.root = NoId /\ Publishes(t.request)
             \/ t.kind = "delete" /\ t.pc = "move"
    /\ t.pc \in {"newest", "relast"} => Revision \in DOMAIN t.writes
    /\ t.pc = "relast" => Names(db, t, t.seen)
    /\ t.kind = "delete" /\ t.pc = "move" /\ Revision \in DOMAIN t.writes =>
          Names(db, t, Val(db, t, LastMessage))

\* Of a database: message 1 is the first, every request is stored once, and
\* the root of a reply is stored.
RowSound(i, r) ==
    \/ r = NoRow /\ i # 1
    \/ r.request \in Requests /\ i # 1
    \/ r.request = FirstRequest /\ r.published /\ i = 1

StoredIn(db) == {i \in Ids : db[RowOf(i)] # NoRow}

DbInv(db) ==
    /\ DOMAIN db = Cells /\ Fits(db)
    /\ \A i \in Ids : RowSound(i, db[RowOf(i)])
    /\ \A i, j \in StoredIn(db) : db[RowOf(i)].request.key = db[RowOf(j)].request.key => i = j
    /\ \A i \in StoredIn(db) :
            db[RowOf(i)].request.root # NoId => db[RowOf(i)].request.root \in StoredIn(db)

\* What t has done to rows, and what it may do to them at all.
RowInvs(db, t) ==
    /\ TargetsInv(db, t) /\ RowsInv(db, t) /\ DeletedInv(db, t) /\ FlagsInv(db, t)
    /\ RevisionInv(db, t)

TxInv(db, t) ==
    /\ TxShape(t) /\ Fits(t.writes) /\ PlaceInv(t)
    /\ SendInv(db, t) /\ PublishInv(db, t)
    /\ RowInvs(db, t) /\ ReadersInv(db, t) /\ CountInv(db, t)

\* Transactions beside each other.
Apart(t, o) ==
    /\ DOMAIN t.writes \cap DOMAIN o.writes = {}
    /\ t.kind = "send" /\ o.kind = "send" =>
          /\ t.id # o.id
          /\ t.pc # "insert" /\ o.pc # "insert" => t.request.key # o.request.key
    /\ ~(t.kind = "publish" /\ o.kind = "publish")

\* Until a cleanup has run: messages that wait for publication are there, and
\* the last message is looked after.
TidyInv(db, t) == t.kind # "cleanup" /\ LastInv(db, t)
PendingStay(db) == \A i \in Ids : db[RowOf(i)].deleted => db[RowOf(i)].published

\* The last message of db names what is there.
LastNamed(db) == Names(db, Idle, db[LastMessage])

\* The published replies of a thread that are there.
Shown(db, r) == {i \in Ids : db[RowOf(i)].request.root = r /\ Visible(db[RowOf(i)])}

\* No reply of the thread is deleted.
Whole(db, r) == \A i \in Ids : db[RowOf(i)].request.root = r => ~db[RowOf(i)].deleted

CountedIn(db, r) ==
    /\ db[CountOf(r)] = Cardinality(Shown(db, r))
    /\ db[RowOf(r)].has_thread <=> Shown(db, r) # {}

CountsRight(db) == \A r \in Ids : Whole(db, r) => CountedIn(db, r)

StoreInv ==
    /\ DbInv(committed) /\ CountsRight(committed) /\ DOMAIN tx = Sessions
    /\ \A s \in Sessions : TxInv(committed, tx[s])
    /\ \A s, o \in Sessions : s # o => Apart(tx[s], tx[o])
    /\ ~cleaned => /\ PendingStay(committed) /\ LastNamed(committed)
                   /\ \A s \in Sessions : TidyInv(committed, tx[s])

-----------------------------------------------------------------------------
(* Types.                                                                  *)

\* Requests are of users, for the chat or one of its messages.
LEMMA RequestType ==
    /\ \A q \in AnyRequest : q.user \in Users /\ q.root \in Scopes /\ q.audio \in BOOLEAN
    /\ \A q \in Requests : q \in AnyRequest /\ q.key # FirstRequest.key /\ q.audio \in BOOLEAN
    /\ FirstRequest \in AnyRequest /\ FirstRequest.root = NoId
BY RequestsAssumption, FirstRequestAssumption, IdNumbers DEF AnyRequest, Scopes

\* Rows have requests; no row is neither published nor deleted.
LEMMA RowType ==
    /\ \A q \in AnyRequest, p \in BOOLEAN :
          /\ Row(q, p) \in Rows
          /\ Row(q, p).request = q /\ Row(q, p).published = p
          /\ Row(q, p).deleted = FALSE /\ Row(q, p).has_thread = FALSE
    /\ NoRow \in Rows /\ NoRow.request = FirstRequest /\ NoRow.published = FALSE
    /\ NoRow.deleted = FALSE /\ NoRow.has_thread = FALSE
BY RequestType DEF Row, Rows, NoRow

\* A row's fields.
LEMMA RowFields ==
    ASSUME NEW r \in Rows
    PROVE  /\ r.request \in AnyRequest /\ r.request.root \in Scopes /\ r.request.user \in Users
           /\ r.published \in BOOLEAN /\ r.deleted \in BOOLEAN /\ r.has_thread \in BOOLEAN
           /\ VisibleTop(r) \in BOOLEAN /\ Visible(r) \in BOOLEAN
BY RequestType DEF Rows, VisibleTop, Visible, IsReply

\* No transaction is idle and fits.
LEMMA IdleFits ==
    /\ TxShape(Idle) /\ Idle.kind = "none" /\ Idle.pc = "idle" /\ Idle.writes = Nothing
    /\ Idle.targets = {} /\ Idle.roots = {} /\ Idle.id = NoId
<1>1. (CHOOSE u \in Users : TRUE) \in Users
  <2>1. \E u \in Users : TRUE
    BY FirstRequestAssumption
  <2> QED
    BY <2>1, Zenon
<1> DEFINE u == CHOOSE v \in Users : TRUE
<1>2. Idle = [kind |-> "none", pc |-> "idle", user |-> u, request |-> FirstRequest,
              id |-> NoId, targets |-> {}, roots |-> {}, hidden |-> {}, seen |-> 0,
              writes |-> Nothing]
  BY Zenon DEF Idle
<1>3. u \in Users
  BY <1>1
<1> HIDE DEF u
<1> QED
  BY <1>2, <1>3, RequestType, IdNumbers DEF TxShape, Kinds, Places

\* The fields of a transaction.
LEMMA TxFields ==
    ASSUME NEW t, TxShape(t)
    PROVE  /\ t.kind \in Kinds /\ t.pc \in Places /\ t.user \in Users
           /\ t.request \in AnyRequest /\ t.id \in Scopes /\ t.targets \in SUBSET Ids
           /\ t.roots \in SUBSET Ids /\ t.hidden \in SUBSET Ids /\ t.seen \in Nat
BY DEF TxShape

\* The cells of what is written over something that fits.
LEMMA FitsOver ==
    ASSUME NEW f, NEW g, Fits(f), Fits(g)
    PROVE  Fits(Over(f, g))
<1> DEFINE h == Over(f, g)
<1>1. \A c \in DOMAIN h : (c \in DOMAIN f /\ h[c] = f[c]) \/ (c \in DOMAIN g /\ h[c] = g[c])
  <2>1. DOMAIN h = DOMAIN f \cup DOMAIN g
    BY DEF Over
  <2>2. ASSUME NEW c \in DOMAIN f PROVE h[c] = f[c]
    BY DEF Over
  <2>3. ASSUME NEW c \in DOMAIN g, c \notin DOMAIN f PROVE h[c] = g[c]
    BY <2>3 DEF Over
  <2> QED
    BY <2>1, <2>2, <2>3
<1> HIDE DEF h
<1>2. \A i \in Ids : RowOf(i) \in DOMAIN h => h[RowOf(i)] \in Rows
  BY <1>1 DEF Fits
<1>3. \A i \in Ids : CountOf(i) \in DOMAIN h => h[CountOf(i)] \in Nat
  BY <1>1 DEF Fits
<1>4. \A u \in Users, p \in Scopes :
          ReaderOf(u, p) \in DOMAIN h => h[ReaderOf(u, p)] \in Readers
  BY <1>1 DEF Fits
<1>5. LastMessage \in DOMAIN h => h[LastMessage] \in Scopes
  BY <1>1 DEF Fits
<1>6. DOMAIN h \subseteq Cells
  BY <1>1 DEF Fits
<1>7. Fits(h)
  BY <1>2, <1>3, <1>4, <1>5, <1>6 DEF Fits
<1> QED
  BY <1>7 DEF h

\* Nothing fits, and so does one cell with what it is for.
LEMMA FitsCell ==
    /\ Fits(Nothing) /\ Fits(Cell(Revision, 0))
    /\ \A i \in Ids, r \in Rows : Fits(Cell(RowOf(i), r))
    /\ \A i \in Ids, n \in Nat : Fits(Cell(CountOf(i), n))
    /\ \A u \in Users, p \in Scopes, v \in Readers : Fits(Cell(ReaderOf(u, p), v))
    /\ \A i \in Scopes : Fits(Cell(LastMessage, i))
<1>1. Fits(Nothing)
  BY Writing DEF Fits
<1>2. Fits(Cell(Revision, 0))
  <2> DEFINE f == Cell(Revision, 0)
  <2>1. DOMAIN f = {Revision} /\ f[Revision] = 0
    BY Writing
  <2> HIDE DEF f
  <2>2. Fits(f)
    BY <2>1, CellsAre, CellsDiffer DEF Fits
  <2> QED
    BY <2>2 DEF f
<1>3. ASSUME NEW i \in Ids, NEW r \in Rows
      PROVE  Fits(Cell(RowOf(i), r))
  <2> DEFINE f == Cell(RowOf(i), r)
  <2>1. DOMAIN f = {RowOf(i)} /\ f[RowOf(i)] = r
    BY Writing
  <2> HIDE DEF f
  <2>2. Fits(f)
    BY <2>1, CellsAre, CellsDiffer DEF Fits
  <2> QED
    BY <2>2 DEF f
<1>4. ASSUME NEW i \in Ids, NEW n \in Nat
      PROVE  Fits(Cell(CountOf(i), n))
  <2> DEFINE f == Cell(CountOf(i), n)
  <2>1. DOMAIN f = {CountOf(i)} /\ f[CountOf(i)] = n
    BY Writing
  <2> HIDE DEF f
  <2>2. Fits(f)
    BY <2>1, CellsAre, CellsDiffer DEF Fits
  <2> QED
    BY <2>2 DEF f
<1>5. ASSUME NEW u \in Users, NEW p \in Scopes, NEW v \in Readers
      PROVE  Fits(Cell(ReaderOf(u, p), v))
  <2> DEFINE f == Cell(ReaderOf(u, p), v)
  <2>1. DOMAIN f = {ReaderOf(u, p)} /\ f[ReaderOf(u, p)] = v
    BY Writing
  <2> HIDE DEF f
  <2>2. Fits(f)
    BY <2>1, CellsAre, CellsDiffer DEF Fits
  <2> QED
    BY <2>2 DEF f
<1>6. ASSUME NEW i \in Scopes
      PROVE  Fits(Cell(LastMessage, i))
  <2> DEFINE f == Cell(LastMessage, i)
  <2>1. DOMAIN f = {LastMessage} /\ f[LastMessage] = i
    BY Writing
  <2> HIDE DEF f
  <2>2. Fits(f)
    BY <2>1, CellsAre, CellsDiffer DEF Fits
  <2> QED
    BY <2>2 DEF f
<1> QED
  BY <1>1, <1>2, <1>3, <1>4, <1>5, <1>6

\* What a transaction reads fits.
LEMMA ValFits ==
    ASSUME NEW db, NEW t, DOMAIN db = Cells, Fits(db), Fits(t.writes)
    PROVE  /\ \A i \in Ids : RowAt(db, t, i) \in Rows /\ db[RowOf(i)] \in Rows
           /\ \A i \in Ids : Val(db, t, CountOf(i)) \in Nat /\ db[CountOf(i)] \in Nat
           /\ \A u \in Users, p \in Scopes :
                Val(db, t, ReaderOf(u, p)) \in Readers /\ db[ReaderOf(u, p)] \in Readers
           /\ Val(db, t, LastMessage) \in Scopes /\ db[LastMessage] \in Scopes
BY CellsAre DEF Fits, RowAt, Val

\* An idle transaction keeps the invariant.
LEMMA IdleInv ==
    ASSUME NEW db
    PROVE  TxInv(db, Idle) /\ TidyInv(db, Idle)
<1>1. Fits(Idle.writes) /\ DOMAIN Idle.writes = {}
  BY IdleFits, FitsCell, Writing
<1>2. PlaceInv(Idle) /\ SendInv(db, Idle) /\ PublishInv(db, Idle)
  BY IdleFits DEF PlaceInv, SendInv, PublishInv
<1>3. RowInvs(db, Idle)
  BY <1>1, IdleFits DEF RowInvs, TargetsInv, RowsInv, DeletedInv, FlagsInv, RevisionInv
<1>4. ReadersInv(db, Idle) /\ CountInv(db, Idle)
  BY <1>1, IdleFits DEF ReadersInv, CountInv, Deleting
<1>5. TidyInv(db, Idle)
  BY <1>1, IdleFits DEF TidyInv, LastInv
<1> QED
  BY <1>1, <1>2, <1>3, <1>4, <1>5, IdleFits DEF TxInv

\* Beside an idle transaction any other may run.
LEMMA IdleApart ==
    ASSUME NEW t
    PROVE  Apart(Idle, t) /\ Apart(t, Idle)
BY IdleFits, Writing DEF Apart

\* Two transactions are apart from each other.
LEMMA ApartBoth ==
    ASSUME NEW t, NEW o, Apart(t, o)
    PROVE  Apart(o, t)
BY DEF Apart

\* A row that is there stays there when it keeps its request and is not
\* taken back.
LEMMA KeptIs ==
    ASSUME NEW i, NEW r \in Rows, NEW w \in Rows, RowSound(i, r), r # NoRow,
           w.request = r.request, r.published => w.published, r.deleted => w.deleted
    PROVE  Kept(r, w) /\ RowSound(i, w)
<1>1. NoRow.request = FirstRequest /\ ~NoRow.published
  BY RowType
<1>2. CASE r.request \in Requests /\ i # 1
  <2>1. w.request # FirstRequest
    BY <1>2, RequestType
  <2> QED
    BY <1>1, <1>2, <2>1 DEF Kept, RowSound
<1>3. CASE r.request = FirstRequest /\ r.published /\ i = 1
  BY <1>1, <1>3 DEF Kept, RowSound
<1> QED
  BY <1>2, <1>3 DEF RowSound

-----------------------------------------------------------------------------
(* What a commit leaves to the transactions beside it.                     *)

\* A transaction that may commit.
Commits(db, t) ==
    /\ Fits(t.writes) /\ RowsInv(db, t) /\ RevisionInv(db, t)
    /\ SendInv(db, t) /\ (t.kind = "send" => t.pc # "insert")

\* What another's commit changes of the database that t has read.
Frame(db, db2, t) ==
    /\ \A c \in DOMAIN t.writes : db2[c] = db[c]
    /\ \A i \in Ids : db[RowOf(i)] # NoRow => Kept(db[RowOf(i)], db2[RowOf(i)])
    /\ t.kind = "publish" => db2[RowOf(t.id)].published = db[RowOf(t.id)].published
    /\ t.kind = "send" =>
          /\ db2[RowOf(t.id)] = NoRow
          /\ t.pc # "insert" => \A i \in Ids : db2[RowOf(i)] # NoRow =>
                                    db2[RowOf(i)].request.key # t.request.key
    /\ Revision \in DOMAIN t.writes =>
          \A i \in Ids : VisibleTop(db2[RowOf(i)]) = VisibleTop(db[RowOf(i)])

\* A commit keeps the rows that are there, and adds the one it brings.
LEMMA CommitRows ==
    ASSUME NEW db, NEW t, NEW db2, DbInv(db), Commits(db, t), db2 = Over(t.writes, db),
           NEW i \in Ids
    PROVE  /\ db[RowOf(i)] # NoRow => Kept(db[RowOf(i)], db2[RowOf(i)])
           /\ db[RowOf(i)] = NoRow =>
                \/ db2[RowOf(i)] = NoRow
                \/ Brings(t, i) /\ db2[RowOf(i)] = Row(t.request, Publishes(t.request))
           /\ Brings(t, i) => /\ db2[RowOf(i)] = Row(t.request, Publishes(t.request))
                              /\ db[RowOf(i)] = NoRow
           /\ db2[RowOf(i)] = RowAt(db, t, i)
           /\ RowOf(i) \in DOMAIN t.writes \/ db2[RowOf(i)] = db[RowOf(i)]
<1>1. RowOf(i) \in DOMAIN db
  BY CellsAre DEF DbInv
<1>2. CASE RowOf(i) \in DOMAIN t.writes /\ Brings(t, i)
  <2>1. t.writes[RowOf(i)] = Row(t.request, Publishes(t.request)) /\ db[RowOf(i)] = NoRow
    BY <1>2 DEF Brings, Commits, SendInv
  <2>2. db2[RowOf(i)] = t.writes[RowOf(i)]
    BY <1>2 DEF Over
  <2> QED
    BY <1>2, <2>1, <2>2 DEF RowAt, Val
<1>3. CASE RowOf(i) \in DOMAIN t.writes /\ ~Brings(t, i)
  <2>1. Kept(db[RowOf(i)], t.writes[RowOf(i)])
    BY <1>3 DEF Commits, RowsInv
  <2>2. db2[RowOf(i)] = t.writes[RowOf(i)]
    BY <1>3 DEF Over
  <2>3. db[RowOf(i)] # NoRow
    BY <2>1 DEF Kept
  <2> QED
    BY <1>3, <2>1, <2>2, <2>3 DEF RowAt, Val
<1>4. CASE RowOf(i) \notin DOMAIN t.writes
  <2>1. db2[RowOf(i)] = db[RowOf(i)]
    BY <1>1, <1>4 DEF Over
  <2>2. db[RowOf(i)] # NoRow => Kept(db[RowOf(i)], db2[RowOf(i)])
    BY <2>1 DEF Kept
  <2>3. ~Brings(t, i)
    BY <1>4 DEF Brings, Commits, SendInv
  <2> QED
    BY <1>4, <2>1, <2>2, <2>3 DEF RowAt, Val
<1> QED
  BY <1>2, <1>3, <1>4

\* Another's commit leaves a transaction what it has written and has found.
LEMMA CommitFrame ==
    ASSUME NEW db, NEW t, NEW o, NEW db2, DbInv(db), Commits(db, t), TxInv(db, o),
           Apart(t, o), db2 = Over(t.writes, db)
    PROVE  Frame(db, db2, o)
<1>1. ASSUME NEW c \in DOMAIN o.writes PROVE db2[c] = db[c]
  <2>1. c \in DOMAIN db /\ c \notin DOMAIN t.writes
    BY DEF DbInv, TxInv, Fits, Apart
  <2> QED
    BY <2>1 DEF Over
<1>2. \A i \in Ids : db[RowOf(i)] # NoRow => Kept(db[RowOf(i)], db2[RowOf(i)])
  BY CommitRows
<1>3. ASSUME o.kind = "publish"
      PROVE  db2[RowOf(o.id)].published = db[RowOf(o.id)].published
  <2>1. o.id \in Ids /\ db[RowOf(o.id)] # NoRow
    BY <1>3 DEF TxInv, PublishInv
  <2>2. t.kind # "publish"
    BY <1>3 DEF Apart
  <2>3. CASE RowOf(o.id) \notin DOMAIN t.writes
    BY <2>1, <2>3, CommitRows
  <2>4. CASE RowOf(o.id) \in DOMAIN t.writes
    <3>1. ~Brings(t, o.id)
      BY <2>1, CommitRows
    <3>2. t.writes[RowOf(o.id)].published = db[RowOf(o.id)].published
      BY <2>1, <2>2, <2>4, <3>1 DEF Commits, RowsInv
    <3> QED
      BY <2>4, <3>2 DEF Over
  <2> QED
    BY <2>3, <2>4
<1>4. ASSUME o.kind = "send" PROVE db2[RowOf(o.id)] = NoRow
  <2>1. o.id \in Ids /\ db[RowOf(o.id)] = NoRow
    BY <1>4 DEF TxInv, SendInv
  <2>2. ~Brings(t, o.id)
    BY <1>4 DEF Brings, Apart
  <2> QED
    BY <2>1, <2>2, CommitRows
<1>5. ASSUME o.kind = "send", o.pc # "insert", NEW i \in Ids, db2[RowOf(i)] # NoRow
      PROVE  db2[RowOf(i)].request.key # o.request.key
  <2>1. CASE db[RowOf(i)] # NoRow
    <3>1. db2[RowOf(i)].request = db[RowOf(i)].request
      BY <2>1, <1>2 DEF Kept
    <3> QED
      BY <1>5, <2>1, <3>1 DEF TxInv, SendInv
  <2>2. CASE db[RowOf(i)] = NoRow
    <3>1. Brings(t, i) /\ db2[RowOf(i)] = Row(t.request, Publishes(t.request))
      BY <1>5, <2>2, CommitRows
    <3>2. db2[RowOf(i)].request = t.request
      BY <3>1 DEF Row
    <3>3. t.request.key # o.request.key
      BY <1>5, <3>1 DEF Brings, Apart, Commits
    <3> QED
      BY <3>2, <3>3
  <2> QED
    BY <2>1, <2>2
<1>6. ASSUME Revision \in DOMAIN o.writes, NEW i \in Ids
      PROVE  VisibleTop(db2[RowOf(i)]) = VisibleTop(db[RowOf(i)])
  <2>1. Revision \notin DOMAIN t.writes
    BY <1>6 DEF Apart
  <2>2. RowOf(i) \in DOMAIN t.writes =>
            VisibleTop(t.writes[RowOf(i)]) = VisibleTop(db[RowOf(i)])
    BY <2>1 DEF Commits, RevisionInv
  <2>3. RowOf(i) \in DOMAIN t.writes => db2[RowOf(i)] = t.writes[RowOf(i)]
    BY DEF Over
  <2> QED
    BY <2>2, <2>3, CommitRows
<1> QED
  BY <1>1, <1>2, <1>3, <1>4, <1>5, <1>6 DEF Frame

\* A transaction keeps what it has written and found, whatever others commit.
LEMMA FrameTx ==
    ASSUME NEW db, NEW db2, NEW t, DbInv(db), Frame(db, db2, t), TxInv(db, t)
    PROVE  /\ TxInv(db2, t)
           /\ \A r : Lost(db, t, r) => Lost(db2, t, r)
<1>1. \A c \in DOMAIN t.writes : db2[c] = db[c]
  BY DEF Frame
<1>2. \A i \in Ids : db[RowOf(i)] # NoRow => Kept(db[RowOf(i)], db2[RowOf(i)])
  BY DEF Frame
<1>3. \A i \in Ids : RowOf(i) \in DOMAIN t.writes => RowAt(db2, t, i) = RowAt(db, t, i)
  BY DEF RowAt, Val
<1>4. \A r : Lost(db, t, r) => Lost(db2, t, r)
  <2> SUFFICES ASSUME NEW r, NEW j \in Ids, RowAt(db, t, j).request.root = r,
                      RowAt(db, t, j).deleted
               PROVE  RowAt(db2, t, j).request.root = r /\ RowAt(db2, t, j).deleted
    BY DEF Lost
  <2>1. CASE RowOf(j) \in DOMAIN t.writes
    BY <1>3, <2>1
  <2>2. CASE RowOf(j) \notin DOMAIN t.writes
    <3>1. RowAt(db, t, j) = db[RowOf(j)] /\ RowAt(db2, t, j) = db2[RowOf(j)]
      BY <2>2 DEF RowAt, Val
    <3>2. db[RowOf(j)] # NoRow
      BY <3>1, RowType
    <3> QED
      BY <1>2, <3>1, <3>2 DEF Kept
  <2> QED
    BY <2>1, <2>2
<1>5. SendInv(db2, t)
  <2> SUFFICES ASSUME t.kind = "send"
               PROVE  SendInv(db2, t)
    BY Zenon DEF SendInv
  <2>1. t.request.root # NoId => db2[RowOf(t.request.root)] # NoRow
    <3>1. ASSUME t.request.root # NoId
          PROVE  t.request.root \in Ids /\ db[RowOf(t.request.root)] # NoRow
      <4>1. t.request.root \in Scopes
        BY RequestType DEF TxInv, SendInv
      <4> QED
        BY <3>1, <4>1, IdNumbers DEF TxInv, SendInv
    <3>2. \A i \in Ids : db[RowOf(i)] # NoRow => db2[RowOf(i)] # NoRow
      <4> SUFFICES ASSUME NEW i \in Ids, db[RowOf(i)] # NoRow, db2[RowOf(i)] = NoRow
                   PROVE  FALSE
        OBVIOUS
      <4> QED
        BY DEF Frame, Kept
    <3> QED
      BY <3>1, <3>2
  <2> QED
    BY <2>1 DEF SendInv, TxInv, Frame
<1>6. PublishInv(db2, t)
  <2> SUFFICES ASSUME t.kind = "publish"
               PROVE  PublishInv(db2, t)
    BY Zenon DEF PublishInv
  <2>1. t.id \in Ids /\ db[RowOf(t.id)] # NoRow /\ PublishInv(db, t)
    BY DEF PublishInv, TxInv
  <2>2. Kept(db[RowOf(t.id)], db2[RowOf(t.id)])
    BY <1>2, <2>1
  <2>3. db2[RowOf(t.id)].published = db[RowOf(t.id)].published
    BY DEF Frame
  <2> QED
    BY <2>1, <2>2, <2>3 DEF PublishInv, Kept
<1>7. RowInvs(db2, t)
  <2>1. TargetsInv(db2, t)
    BY <1>2, RowType, TxFields DEF TargetsInv, TxInv, RowInvs, Kept
  <2>2. RowsInv(db2, t) /\ DeletedInv(db2, t) /\ RevisionInv(db2, t)
    BY <1>1 DEF RowsInv, DeletedInv, RevisionInv, TxInv, RowInvs
  <2>3. FlagsInv(db2, t)
    BY <1>1, <1>4 DEF FlagsInv, TxInv, RowInvs
  <2> QED
    BY <2>1, <2>2, <2>3 DEF RowInvs
<1>8. ReadersInv(db2, t)
  BY <1>1 DEF ReadersInv, TxInv
<1>9. CountInv(db2, t)
  <2>1. CASE t.kind \in {"send", "publish"}
    <3>1. t.pc = "flag" => RootAt(db2, t) = RootAt(db, t)
      BY <1>3, <2>1 DEF RootAt, TxInv, SendInv, PublishInv
    <3> QED
      BY <1>1, <2>1, <3>1 DEF CountInv, TxInv, Deleting
  <2>2. CASE t.kind \notin {"send", "publish"}
    BY <1>4, <2>2 DEF CountInv, TxInv
  <2> QED
    BY <2>1, <2>2
<1> QED
  BY <1>4, <1>5, <1>6, <1>7, <1>8, <1>9 DEF TxInv

\* A commit keeps what is true of the database.
LEMMA CommitDb ==
    ASSUME NEW db, NEW t, NEW db2, DbInv(db), Commits(db, t), db2 = Over(t.writes, db)
    PROVE  DbInv(db2)
<1>1. Fits(db2)
  BY FitsOver DEF DbInv, Commits
<1>2. DOMAIN db2 = Cells
  BY DEF Over, DbInv, Commits, Fits
<1>3. \A i \in Ids : db[RowOf(i)] \in Rows /\ db2[RowOf(i)] \in Rows
  BY <1>1, <1>2, CellsAre DEF DbInv, Fits
<1>4. ASSUME NEW i \in Ids, db2[RowOf(i)] # NoRow
      PROVE  \/ db[RowOf(i)] # NoRow /\ Kept(db[RowOf(i)], db2[RowOf(i)])
             \/ /\ t.kind = "send" /\ i = t.id /\ db[RowOf(i)] = NoRow
                /\ db2[RowOf(i)].request = t.request
  <2>1. CASE db[RowOf(i)] # NoRow
    BY <2>1, CommitRows
  <2>2. CASE db[RowOf(i)] = NoRow
    <3>1. Brings(t, i) /\ db2[RowOf(i)] = Row(t.request, Publishes(t.request))
      BY <1>4, <2>2, CommitRows
    <3> QED
      BY <2>2, <3>1 DEF Brings, Row
  <2> QED
    BY <2>1, <2>2
<1>5. ASSUME NEW i \in Ids PROVE RowSound(i, db2[RowOf(i)])
  <2>1. RowSound(i, db[RowOf(i)])
    BY DEF DbInv
  <2>2. CASE db2[RowOf(i)] = NoRow
    <3>1. db[RowOf(i)] = NoRow
      <4>1. ~Kept(db[RowOf(i)], db2[RowOf(i)])
        BY <2>2 DEF Kept
      <4> QED
        BY <4>1, CommitRows
    <3>2. i # 1
      BY <2>1, <3>1, RowType, RequestType DEF RowSound
    <3> QED
      BY <2>2, <3>2 DEF RowSound
  <2>3. CASE db2[RowOf(i)] # NoRow /\ db[RowOf(i)] # NoRow
    <3>1. Kept(db[RowOf(i)], db2[RowOf(i)])
      BY <2>3, CommitRows
    <3> QED
      BY <1>3, <2>1, <2>3, <3>1, KeptIs DEF Kept
  <2>4. CASE db2[RowOf(i)] # NoRow /\ db[RowOf(i)] = NoRow
    <3>1. t.kind = "send" /\ db2[RowOf(i)].request = t.request
      BY <1>4, <2>4 DEF Kept
    <3>2. t.request \in Requests
      BY <3>1 DEF Commits, SendInv
    <3>3. i # 1
      BY <2>1, <2>4, RowType, RequestType DEF RowSound
    <3> QED
      BY <3>1, <3>2, <3>3 DEF RowSound
  <2> QED
    BY <2>2, <2>3, <2>4
<1>6. ASSUME NEW i \in Ids, NEW j \in Ids, db2[RowOf(i)] # NoRow, db2[RowOf(j)] # NoRow,
             db2[RowOf(i)].request.key = db2[RowOf(j)].request.key
      PROVE  i = j
  <2>1. CASE db[RowOf(i)] # NoRow /\ db[RowOf(j)] # NoRow
    <3>1. /\ db2[RowOf(i)].request = db[RowOf(i)].request
          /\ db2[RowOf(j)].request = db[RowOf(j)].request
      BY <1>4, <1>6, <2>1 DEF Kept
    <3> QED
      BY <1>6, <2>1, <3>1 DEF DbInv, StoredIn
  <2>2. CASE db[RowOf(i)] = NoRow /\ db[RowOf(j)] = NoRow
    BY <1>4, <1>6, <2>2
  <2>3. CASE db[RowOf(i)] # NoRow /\ db[RowOf(j)] = NoRow
    <3>1. /\ db2[RowOf(i)].request = db[RowOf(i)].request
          /\ db2[RowOf(j)].request = t.request /\ t.kind = "send"
      BY <1>4, <1>6, <2>3 DEF Kept
    <3> QED
      BY <1>6, <2>3, <3>1 DEF Commits, SendInv
  <2>4. CASE db[RowOf(i)] = NoRow /\ db[RowOf(j)] # NoRow
    <3>1. /\ db2[RowOf(j)].request = db[RowOf(j)].request
          /\ db2[RowOf(i)].request = t.request /\ t.kind = "send"
      BY <1>4, <1>6, <2>4 DEF Kept
    <3> QED
      BY <1>6, <2>4, <3>1 DEF Commits, SendInv
  <2> QED
    BY <2>1, <2>2, <2>3, <2>4
<1>7. \A i \in Ids : db[RowOf(i)] # NoRow => db2[RowOf(i)] # NoRow
  <2> SUFFICES ASSUME NEW i \in Ids, db[RowOf(i)] # NoRow
               PROVE  db2[RowOf(i)] # NoRow
    OBVIOUS
  <2> QED
    BY CommitRows DEF Kept
<1>8. ASSUME NEW i \in Ids, db2[RowOf(i)] # NoRow, db2[RowOf(i)].request.root # NoId
      PROVE  db2[RowOf(i)].request.root \in StoredIn(db2)
  <2>1. db2[RowOf(i)].request.root \in Ids
    BY <1>3, <1>8, RowFields, IdNumbers
  <2>2. db[RowOf(db2[RowOf(i)].request.root)] # NoRow
    <3>1. CASE db[RowOf(i)] # NoRow
      BY <1>4, <1>8, <3>1 DEF Kept, DbInv, StoredIn
    <3>2. CASE db[RowOf(i)] = NoRow
      BY <1>4, <1>8, <3>2 DEF Commits, SendInv
    <3> QED
      BY <3>1, <3>2
  <2> QED
    BY <1>7, <2>1, <2>2 DEF StoredIn
<1> QED
  BY <1>1, <1>2, <1>5, <1>6, <1>8 DEF DbInv, StoredIn

-----------------------------------------------------------------------------
(* What a commit leaves of the last message and of the counts.             *)

\* Messages that wait for publication are not deleted by a member.
LEMMA CommitPending ==
    ASSUME NEW db, NEW t, NEW db2, DbInv(db), Commits(db, t), db2 = Over(t.writes, db),
           TargetsInv(db, t), DeletedInv(db, t), PendingStay(db)
    PROVE  PendingStay(db2)
<1> SUFFICES ASSUME NEW i \in Ids, db2[RowOf(i)].deleted
             PROVE  db2[RowOf(i)].published
  BY DEF PendingStay
<1>1. CASE db[RowOf(i)] = NoRow
  <2>1. db2[RowOf(i)] = NoRow \/ db2[RowOf(i)] = Row(t.request, Publishes(t.request))
    BY <1>1, CommitRows
  <2> QED
    BY <2>1 DEF NoRow, Row
<1>2. CASE db[RowOf(i)] # NoRow
  <2>1. Kept(db[RowOf(i)], db2[RowOf(i)])
    BY <1>2, CommitRows
  <2>2. CASE db[RowOf(i)].deleted
    BY <2>1, <2>2 DEF PendingStay, Kept
  <2>3. CASE ~db[RowOf(i)].deleted
    <3>1. RowOf(i) \in DOMAIN t.writes /\ ~Brings(t, i)
      BY <1>2, <2>3, CommitRows
    <3>2. t.writes[RowOf(i)] = db2[RowOf(i)]
      BY <3>1 DEF Over
    <3>3. t.kind \in {"delete", "recall"} /\ i \in t.targets
      BY <2>3, <3>1, <3>2 DEF DeletedInv
    <3> QED
      BY <2>1, <3>3 DEF TargetsInv, Kept
  <2> QED
    BY <2>2, <2>3
<1> QED
  BY <1>1, <1>2

\* What an idle session reads is what is committed.
LEMMA IdleReads ==
    ASSUME NEW db
    PROVE  /\ \A c : Val(db, Idle, c) = db[c]
           /\ \A i : RowAt(db, Idle, i) = db[RowOf(i)]
<1>1. DOMAIN Idle.writes = {}
  BY IdleFits, Writing
<1> QED
  BY <1>1 DEF Val, RowAt

\* The last message of the chat is there after the commit of a transaction
\* that has seen it so.
LEMMA CommitLast ==
    ASSUME NEW db, NEW t, NEW db2, DbInv(db), Commits(db, t), db2 = Over(t.writes, db),
           Names(db, t, Val(db, t, LastMessage))
    PROVE  LastNamed(db2)
<1>1. db2[LastMessage] = Val(db, t, LastMessage)
  BY CellsAre DEF Over, Val, DbInv
<1>2. \A i \in Ids : RowAt(db2, Idle, i) = RowAt(db, t, i)
  BY CommitRows, IdleReads
<1> QED
  BY <1>1, <1>2 DEF Names, LastNamed

\* A transaction that has not changed what the main timeline shows sees the
\* last message as it is.
LEMMA SameNames ==
    ASSUME NEW db, NEW t,  LastNamed(db),
           \A i \in Ids : VisibleTop(RowAt(db, t, i)) = VisibleTop(db[RowOf(i)])
    PROVE  Names(db, t, db[LastMessage])
BY IdleReads DEF Names, LastNamed

\* Who holds the revision keeps what it has found of the last message.
LEMMA FrameTidy ==
    ASSUME NEW db, NEW db2, NEW t, Frame(db, db2, t), TidyInv(db, t),
           Revision \in DOMAIN t.writes => db2[LastMessage] = db[LastMessage]
    PROVE  TidyInv(db2, t)
<1>1. ASSUME Revision \in DOMAIN t.writes
      PROVE  /\ \A i \in Ids : VisibleTop(RowAt(db2, t, i)) = VisibleTop(RowAt(db, t, i))
             /\ Val(db2, t, LastMessage) = Val(db, t, LastMessage)
  BY <1>1 DEF Frame, RowAt, Val
<1>2. ASSUME Revision \in DOMAIN t.writes, NEW last, Names(db, t, last)
      PROVE  Names(db2, t, last)
  BY <1>1, <1>2 DEF Names
<1> QED
  BY <1>1, <1>2 DEF TidyInv, LastInv

\* What a transaction that commits has done to counts and flags.
Counted(db, t) ==
    /\ \A i \in Ids : RowOf(i) \in DOMAIN t.writes /\ ~Brings(t, i) =>
            \/ t.writes[RowOf(i)].has_thread = db[RowOf(i)].has_thread
            \/ Lost(db, t, i)
            \/ t.pc = "flag" /\ i = RootAt(db, t)
    /\ \A r \in Ids : CountOf(r) \in DOMAIN t.writes =>
            Lost(db, t, r) \/ (t.pc = "flag" /\ r = RootAt(db, t))
    /\ t.pc = "flag" =>
          /\ t.kind \in {"send", "publish"}
          /\ CountOf(RootAt(db, t)) \in DOMAIN t.writes
          /\ t.writes[CountOf(RootAt(db, t))] = db[CountOf(RootAt(db, t))] + 1
          /\ RowAt(db, t, RootAt(db, t)).has_thread
    /\ t.kind = "send" => (CountsNow(t.request) <=> t.pc = "flag")
    /\ t.kind = "publish" =>
          /\ RowOf(t.id) \in DOMAIN t.writes /\ t.writes[RowOf(t.id)].published
          /\ RootAt(db, t) # NoId => t.pc = "flag"

\* A thread that no reply is brought to shows what it did.
LEMMA ShownSame ==
    ASSUME NEW db, NEW t, NEW db2, DbInv(db), Commits(db, t), db2 = Over(t.writes, db),
           PublishInv(db, t), Counted(db, t), NEW r \in Ids, Whole(db2, r),
           ~(t.pc = "flag" /\ r = RootAt(db, t))
    PROVE  Shown(db2, r) = Shown(db, r)
<1> SUFFICES ASSUME NEW i \in Ids
             PROVE  i \in Shown(db2, r) <=> i \in Shown(db, r)
  BY DEF Shown
<1>1. CASE Brings(t, i)
  <2>1. db[RowOf(i)] = NoRow /\ db2[RowOf(i)] = Row(t.request, Publishes(t.request))
    BY <1>1, CommitRows
  <2>2. i \notin Shown(db, r)
    BY <2>1, RowType DEF Shown, Visible
  <2>3. RowAt(db, t, i) = db2[RowOf(i)] /\ RootAt(db, t) = RowAt(db, t, i).request.root
    BY <1>1, CommitRows DEF RootAt, Brings
  <2>4. RootAt(db, t) = t.request.root
    BY <2>1, <2>3 DEF Row
  <2>5. ASSUME i \in Shown(db2, r) PROVE FALSE
    <3>1. t.request.root = r /\ Publishes(t.request)
      BY <2>1, <2>5 DEF Row, Shown, Visible
    <3>2. CountsNow(t.request)
      BY <3>1, IdNumbers DEF CountsNow
    <3> QED
      BY <1>1, <2>4, <3>1, <3>2 DEF Counted, Brings
  <2> QED
    BY <2>2, <2>5
<1>2. CASE ~Brings(t, i) /\ RowOf(i) \in DOMAIN t.writes
  <2>1. Kept(db[RowOf(i)], t.writes[RowOf(i)]) /\ db2[RowOf(i)] = t.writes[RowOf(i)]
    BY <1>2 DEF Commits, RowsInv, Over
  <2>2. db2[RowOf(i)].request = db[RowOf(i)].request
    BY <2>1 DEF Kept
  <2>3. CASE db[RowOf(i)].request.root # r
    BY <2>2, <2>3 DEF Shown
  <2>4. CASE db[RowOf(i)].request.root = r
    <3>1. ~db2[RowOf(i)].deleted /\ ~db[RowOf(i)].deleted
      BY <2>1, <2>2, <2>4 DEF Whole, Kept
    <3>2. db2[RowOf(i)].published = db[RowOf(i)].published
      <4>1. ASSUME db2[RowOf(i)].published # db[RowOf(i)].published
            PROVE  t.kind = "publish" /\ i = t.id
        BY <1>2, <2>1, <4>1 DEF Commits, RowsInv
      <4>2. ASSUME t.kind = "publish", i = t.id PROVE FALSE
        <5>1. RootAt(db, t) = r
          BY <4>2, <1>2, <2>1, <2>2, <2>4 DEF RootAt, RowAt, Val
        <5> QED
          BY <4>2, <5>1, IdNumbers DEF Counted
      <4> QED
        BY <4>1, <4>2
    <3> QED
      BY <2>2, <2>4, <3>1, <3>2 DEF Shown, Visible
  <2> QED
    BY <2>3, <2>4
<1>3. CASE ~Brings(t, i) /\ RowOf(i) \notin DOMAIN t.writes
  <2>1. db2[RowOf(i)] = db[RowOf(i)]
    BY <1>3, CommitRows
  <2> QED
    BY <2>1 DEF Shown
<1> QED
  BY <1>1, <1>2, <1>3

\* A thread that a reply is brought to shows it besides what it did.
LEMMA ShownMore ==
    ASSUME NEW db, NEW t, NEW db2, DbInv(db), Commits(db, t), db2 = Over(t.writes, db),
           PublishInv(db, t), Counted(db, t), NEW r \in Ids, Whole(db2, r),
           t.pc = "flag", r = RootAt(db, t)
    PROVE  /\ t.id \in Ids /\ t.id \notin Shown(db, r)
           /\ Shown(db2, r) = Shown(db, r) \cup {t.id}
<1>1. t.kind \in {"send", "publish"}
  BY DEF Counted
<1>2. t.id \in Ids /\ RowOf(t.id) \in DOMAIN t.writes
  BY <1>1 DEF Commits, SendInv, PublishInv, Counted
<1>3. RowAt(db, t, t.id) = db2[RowOf(t.id)]
  BY <1>2, CommitRows
<1>4. db2[RowOf(t.id)].request.root = r
  BY <1>3 DEF RootAt
<1>5. ~db[RowOf(t.id)].published
  BY <1>1, RowType DEF Commits, SendInv, PublishInv
<1>6. db2[RowOf(t.id)].published
  <2>1. CASE t.kind = "send"
    <3>1. db2[RowOf(t.id)] = Row(t.request, Publishes(t.request))
      BY <1>2, <2>1, CommitRows DEF Brings
    <3> QED
      BY <2>1, <3>1 DEF Counted, CountsNow, Row
  <2>2. CASE t.kind = "publish"
    BY <1>2, <2>2 DEF Counted, Over
  <2> QED
    BY <1>1, <2>1, <2>2
<1>7. t.id \notin Shown(db, r) /\ t.id \in Shown(db2, r)
  BY <1>2, <1>4, <1>5, <1>6 DEF Shown, Visible, Whole
<1>8. ASSUME NEW i \in Ids, i # t.id
      PROVE  i \in Shown(db2, r) <=> i \in Shown(db, r)
  <2>0. ~Brings(t, i)
    BY <1>8 DEF Brings
  <2>1. CASE RowOf(i) \in DOMAIN t.writes
    <3>1. Kept(db[RowOf(i)], t.writes[RowOf(i)]) /\ db2[RowOf(i)] = t.writes[RowOf(i)]
      BY <2>0, <2>1 DEF Commits, RowsInv, Over
    <3>2. db2[RowOf(i)].published = db[RowOf(i)].published
      BY <1>8, <2>0, <2>1, <3>1 DEF Commits, RowsInv
    <3>3. db2[RowOf(i)].request = db[RowOf(i)].request
      BY <3>1 DEF Kept
    <3>4. db2[RowOf(i)].request.root = r => ~db2[RowOf(i)].deleted /\ ~db[RowOf(i)].deleted
      BY <3>1 DEF Whole, Kept
    <3> QED
      BY <3>2, <3>3, <3>4 DEF Shown, Visible
  <2>2. CASE RowOf(i) \notin DOMAIN t.writes
    <3>1. db2[RowOf(i)] = db[RowOf(i)]
      BY <2>2, CommitRows
    <3> QED
      BY <3>1 DEF Shown
  <2> QED
    BY <2>1, <2>2
<1>9. Shown(db, r) \subseteq Ids /\ Shown(db2, r) \subseteq Ids
  BY DEF Shown
<1>10. Shown(db2, r) = Shown(db, r) \cup {t.id}
  <2> HIDE DEF Shown
  <2> QED
    BY <1>2, <1>7, <1>8, <1>9
<1> QED
  BY <1>2, <1>7, <1>10

\* A commit keeps the counts of the threads that have lost no reply.
LEMMA CommitCounts ==
    ASSUME NEW db, NEW t, NEW db2, DbInv(db), Commits(db, t), db2 = Over(t.writes, db),
           PublishInv(db, t), Counted(db, t), CountsRight(db)
    PROVE  CountsRight(db2)
<1> SUFFICES ASSUME NEW r \in Ids, Whole(db2, r)
             PROVE  CountedIn(db2, r)
  BY Zenon DEF CountsRight
<1>1. ~Lost(db, t, r)
  <2> SUFFICES ASSUME NEW j \in Ids, RowAt(db, t, j).request.root = r,
                      RowAt(db, t, j).deleted
               PROVE  FALSE
    BY DEF Lost
  <2>1. RowAt(db, t, j) = db2[RowOf(j)]
    BY CommitRows
  <2> QED
    BY <2>1 DEF Whole
<1>2. Whole(db, r)
  <2> SUFFICES ASSUME NEW i \in Ids, db[RowOf(i)].request.root = r, db[RowOf(i)].deleted
               PROVE  FALSE
    BY DEF Whole
  <2>1. db[RowOf(i)] # NoRow
    BY RowType
  <2>2. Kept(db[RowOf(i)], db2[RowOf(i)])
    BY <2>1, CommitRows
  <2> QED
    BY <2>2 DEF Kept, Whole
<1>3. CountedIn(db, r)
  BY <1>2 DEF CountsRight
<1>4. RowOf(r) \in DOMAIN db /\ CountOf(r) \in DOMAIN db
  BY CellsAre DEF DbInv
<1>5. CASE ~(t.pc = "flag" /\ r = RootAt(db, t))
  <2>1. Shown(db2, r) = Shown(db, r)
    BY <1>5, ShownSame
  <2>2. db2[CountOf(r)] = db[CountOf(r)]
    BY <1>1, <1>4, <1>5 DEF Counted, Over
  <2>3. db2[RowOf(r)].has_thread = db[RowOf(r)].has_thread
    <3>1. CASE Brings(t, r)
      <4>1. db[RowOf(r)] = NoRow /\ db2[RowOf(r)] = Row(t.request, Publishes(t.request))
        BY <3>1, CommitRows
      <4> QED
        BY <4>1 DEF NoRow, Row
    <3>2. CASE ~Brings(t, r)
      BY <1>1, <1>4, <1>5, <3>2 DEF Counted, Over
    <3> QED
      BY <3>1, <3>2
  <2> QED
    BY <1>3, <2>1, <2>2, <2>3 DEF CountedIn
<1>6. CASE t.pc = "flag" /\ r = RootAt(db, t)
  <2>1. /\ t.id \in Ids /\ t.id \notin Shown(db, r)
        /\ Shown(db2, r) = Shown(db, r) \cup {t.id}
    BY <1>6, ShownMore
  <2>2. IsFiniteSet(Shown(db, r))
    <3>1. Shown(db, r) \subseteq Ids
      BY DEF Shown
    <3> QED
      BY <3>1, IdNumbers, FS_Subset
  <2>3. Cardinality(Shown(db2, r)) = Cardinality(Shown(db, r)) + 1
    BY <2>1, <2>2, FS_AddElement
  <2>4. db2[CountOf(r)] = db[CountOf(r)] + 1
    BY <1>6 DEF Counted, Over
  <2>5. db2[RowOf(r)].has_thread
    <3>1. db2[RowOf(r)] = RowAt(db, t, r)
      BY CommitRows
    <3> QED
      BY <1>6, <3>1 DEF Counted
  <2>6. Shown(db2, r) # {}
    BY <2>1
  <2> QED
    BY <1>3, <2>3, <2>4, <2>5, <2>6 DEF CountedIn
<1> QED
  BY <1>5, <1>6

-----------------------------------------------------------------------------
(* What a statement leaves of what its transaction did.                    *)

\* As Bumped, for a database and a transaction.
Bump(db, t, new) ==
    IF \E c \in DOMAIN new : \E i \in Ids :
           c = RowOf(i) /\ VisibleTop(new[c]) # VisibleTop(Val(db, t, c))
    THEN Cell(Revision, 0) ELSE Nothing

\* f is what t has written after a statement that writes new.
Wrote(db, t, new, f) ==
    /\ \A c \in DOMAIN new : c \in DOMAIN f /\ f[c] = new[c]
    /\ \A c : c \notin DOMAIN new /\ c # Revision =>
            /\ c \in DOMAIN f <=> c \in DOMAIN t.writes
            /\ c \in DOMAIN t.writes => f[c] = t.writes[c]
    /\ Revision \in DOMAIN t.writes => Revision \in DOMAIN f
    /\ \A i \in Ids :
            /\ RowOf(i) \in DOMAIN new
            /\ VisibleTop(new[RowOf(i)]) # VisibleTop(RowAt(db, t, i))
            => Revision \in DOMAIN f

\* A session reads what its transaction reads.
LEMMA Views ==
    ASSUME NEW s \in Sessions
    PROVE  /\ \A c : View(s, c) = Val(committed, tx[s], c)
           /\ \A i : RowIn(s, i) = RowAt(committed, tx[s], i)
           /\ \A new : Bumped(s, new) = Bump(committed, tx[s], new)
<1>1. \A c : View(s, c) = Val(committed, tx[s], c)
  BY DEF View, Val
<1>2. \A i : RowIn(s, i) = RowAt(committed, tx[s], i)
  BY <1>1 DEF RowIn, RowAt
<1>3. ASSUME NEW new PROVE Bumped(s, new) = Bump(committed, tx[s], new)
  BY <1>1, Zenon DEF Bumped, Bump
<1> QED
  BY <1>1, <1>2, <1>3

\* What a statement writes, and its transaction with it.
LEMMA WriteIs ==
    ASSUME NEW db, NEW t, NEW new, Fits(new), Fits(t.writes),
           NEW all, all = Over(new, Bump(db, t, new)),
           NEW f, f = Over(all, t.writes)
    PROVE  /\ Wrote(db, t, new, f) /\ Fits(f)
           /\ DOMAIN f = DOMAIN all \cup DOMAIN t.writes
           /\ DOMAIN new \subseteq DOMAIN all /\ Fits(all)
<1> DEFINE b == Bump(db, t, new)
<1>1. Fits(b) /\ DOMAIN b \subseteq {Revision}
  BY FitsCell, Writing DEF Bump
<1>2. ASSUME NEW i \in Ids, RowOf(i) \in DOMAIN new,
             VisibleTop(new[RowOf(i)]) # VisibleTop(RowAt(db, t, i))
      PROVE  Revision \in DOMAIN b
  <2>1. b = Cell(Revision, 0)
    BY <1>2, Zenon DEF Bump, RowAt
  <2>2. Revision \in DOMAIN Cell(Revision, 0)
    BY DEF Cell
  <2> QED
    BY Zenon, <2>1, <2>2
<1> HIDE DEF b
<1>3. Fits(all)
  BY <1>1, FitsOver DEF b
<1>4. /\ DOMAIN all = DOMAIN new \cup DOMAIN b
      /\ \A c \in DOMAIN new : all[c] = new[c]
  BY DEF Over, b
<1>5. Fits(f)
  BY <1>3, FitsOver
<1>6. /\ DOMAIN f = DOMAIN all \cup DOMAIN t.writes
      /\ \A c \in DOMAIN all : f[c] = all[c]
      /\ \A c \in DOMAIN t.writes : c \notin DOMAIN all => f[c] = t.writes[c]
  BY DEF Over
<1> HIDE DEF Fits
<1>7. \A c \in DOMAIN new : c \in DOMAIN f /\ f[c] = new[c]
  BY <1>4, <1>6
<1>8. ASSUME NEW c, c \notin DOMAIN new, c # Revision
      PROVE  /\ c \in DOMAIN f <=> c \in DOMAIN t.writes
             /\ c \in DOMAIN t.writes => f[c] = t.writes[c]
  BY <1>1, <1>4, <1>6, <1>8
<1>9. /\ Revision \in DOMAIN t.writes => Revision \in DOMAIN f
      /\ Revision \in DOMAIN b => Revision \in DOMAIN f
  BY <1>4, <1>6
<1>10. Wrote(db, t, new, f)
  BY <1>2, <1>7, <1>8, <1>9 DEF Wrote
<1> QED
  BY <1>3, <1>4, <1>5, <1>6, <1>10

\* What a statement does to the rows that are there, beside deleting them.
Edits(db, t, new) ==
    \A i \in Ids : RowOf(i) \in DOMAIN new /\ ~Brings(t, i) =>
        /\ Kept(RowAt(db, t, i), new[RowOf(i)])
        /\ new[RowOf(i)].published # RowAt(db, t, i).published =>
              t.kind = "publish" /\ i = t.id

\* ... to their deletion and their flags.
EditsDeleted(db, t, new) ==
    \A i \in Ids : RowOf(i) \in DOMAIN new /\ ~Brings(t, i) =>
        (new[RowOf(i)].deleted # RowAt(db, t, i).deleted =>
            t.kind \in {"delete", "recall"} /\ i \in t.targets)

EditsFlags(db, t, new) ==
    \A i \in Ids : RowOf(i) \in DOMAIN new /\ ~Brings(t, i) =>
        (new[RowOf(i)].has_thread # RowAt(db, t, i).has_thread => Lost(db, t, i))

EditsReaders(db, t, new) ==
    \A u \in Users, p \in Scopes : ReaderOf(u, p) \in DOMAIN new =>
        new[ReaderOf(u, p)].receipt >= Val(db, t, ReaderOf(u, p)).receipt

\* t2 is t after a statement that wrote new.
After(db, t, new, t2) ==
    /\ Wrote(db, t, new, t2.writes) /\ Fits(t2.writes)
    /\ t2.kind = t.kind /\ t2.id = t.id /\ t2.request = t.request /\ t2.user = t.user
    /\ t2.targets = t.targets

\* Rows of a transaction after a statement.
LEMMA AfterRows ==
    ASSUME NEW db, NEW t, NEW new, NEW t2, After(db, t, new, t2), NEW i \in Ids
    PROVE  /\ RowOf(i) \in DOMAIN new =>
                /\ RowOf(i) \in DOMAIN t2.writes /\ t2.writes[RowOf(i)] = new[RowOf(i)]
                /\ RowAt(db, t2, i) = new[RowOf(i)]
           /\ RowOf(i) \notin DOMAIN new =>
                /\ RowOf(i) \in DOMAIN t2.writes <=> RowOf(i) \in DOMAIN t.writes
                /\ RowOf(i) \in DOMAIN t.writes => t2.writes[RowOf(i)] = t.writes[RowOf(i)]
                /\ RowAt(db, t2, i) = RowAt(db, t, i)
           /\ Brings(t2, i) <=> Brings(t, i)
<1>1. RowOf(i) # Revision
  BY CellsDiffer
<1> QED
  BY <1>1 DEF After, Wrote, RowAt, Val, Brings

\* Rows keep their requests, and the revision is locked, after a statement
\* that keeps them.
LEMMA AfterKept ==
    ASSUME NEW db, NEW t, NEW new, NEW t2, After(db, t, new, t2),
           RowsInv(db, t), RevisionInv(db, t), Edits(db, t, new)
    PROVE  RowsInv(db, t2) /\ RevisionInv(db, t2)
<1>1. ASSUME NEW i \in Ids, RowOf(i) \in DOMAIN t2.writes, ~Brings(t2, i)
      PROVE  /\ Kept(db[RowOf(i)], t2.writes[RowOf(i)])
             /\ t2.writes[RowOf(i)].published # db[RowOf(i)].published =>
                    t2.kind = "publish" /\ i = t2.id
  <2>1. t2.kind = t.kind /\ t2.id = t.id /\ ~Brings(t, i)
    BY <1>1, AfterRows DEF After
  <2>2. CASE RowOf(i) \in DOMAIN new
    <3>1. t2.writes[RowOf(i)] = new[RowOf(i)]
      BY <2>2, AfterRows
    <3>2. /\ Kept(RowAt(db, t, i), new[RowOf(i)])
          /\ new[RowOf(i)].published # RowAt(db, t, i).published =>
                t.kind = "publish" /\ i = t.id
      BY <2>1, <2>2 DEF Edits
    <3>3. CASE RowOf(i) \in DOMAIN t.writes
      <4>1. RowAt(db, t, i) = t.writes[RowOf(i)]
        BY <3>3 DEF RowAt, Val
      <4>2. /\ Kept(db[RowOf(i)], t.writes[RowOf(i)])
            /\ t.writes[RowOf(i)].published # db[RowOf(i)].published =>
                  t.kind = "publish" /\ i = t.id
        BY <2>1, <3>3 DEF RowsInv
      <4> QED
        BY <2>1, <3>1, <3>2, <4>1, <4>2 DEF Kept
    <3>4. CASE RowOf(i) \notin DOMAIN t.writes
      <4>1. RowAt(db, t, i) = db[RowOf(i)]
        BY <3>4 DEF RowAt, Val
      <4> QED
        BY <2>1, <3>1, <3>2, <4>1
    <3> QED
      BY <3>3, <3>4
  <2>3. CASE RowOf(i) \notin DOMAIN new
    <3>1. RowOf(i) \in DOMAIN t.writes /\ t2.writes[RowOf(i)] = t.writes[RowOf(i)]
      BY <1>1, <2>3, AfterRows
    <3> QED
      BY <2>1, <3>1 DEF RowsInv
  <2> QED
    BY <2>2, <2>3
<1>2. ASSUME NEW i \in Ids, RowOf(i) \in DOMAIN t2.writes,
             VisibleTop(t2.writes[RowOf(i)]) # VisibleTop(db[RowOf(i)])
      PROVE  Revision \in DOMAIN t2.writes
  <2>1. CASE /\ RowOf(i) \in DOMAIN t.writes
             /\ VisibleTop(t.writes[RowOf(i)]) # VisibleTop(db[RowOf(i)])
    <3>1. Revision \in DOMAIN t.writes
      BY <2>1 DEF RevisionInv
    <3> QED
      BY <3>1 DEF After, Wrote
  <2>2. CASE ~(RowOf(i) \in DOMAIN t.writes
               /\ VisibleTop(t.writes[RowOf(i)]) # VisibleTop(db[RowOf(i)]))
    <3>1. VisibleTop(RowAt(db, t, i)) = VisibleTop(db[RowOf(i)])
      BY <2>2 DEF RowAt, Val
    <3>2. RowOf(i) \in DOMAIN new
      BY <1>2, <2>2, AfterRows
    <3>3. VisibleTop(new[RowOf(i)]) # VisibleTop(RowAt(db, t, i))
      BY <1>2, <3>1, <3>2, AfterRows
    <3> QED
      BY <3>2, <3>3 DEF After, Wrote
  <2> QED
    BY <2>1, <2>2
<1> QED
  BY <1>1, <1>2 DEF RowsInv, RevisionInv

\* What a thread has lost stays lost.
LEMMA AfterLost ==
    ASSUME NEW db, NEW t, NEW new, NEW t2, After(db, t, new, t2), Edits(db, t, new),
           \A i \in Ids : Brings(t, i) /\ RowOf(i) \in DOMAIN new => ~RowAt(db, t, i).deleted,
           NEW r, Lost(db, t, r)
    PROVE  Lost(db, t2, r)
<1>1. PICK j \in Ids : RowAt(db, t, j).request.root = r /\ RowAt(db, t, j).deleted
  BY DEF Lost
<1>2. RowAt(db, t2, j).request.root = r /\ RowAt(db, t2, j).deleted
  <2>1. CASE RowOf(j) \in DOMAIN new
    <3>1. Kept(RowAt(db, t, j), new[RowOf(j)])
      BY <1>1, <2>1 DEF Edits
    <3> QED
      BY <1>1, <2>1, <3>1, AfterRows DEF Kept
  <2>2. CASE RowOf(j) \notin DOMAIN new
    BY <1>1, <2>2, AfterRows
  <2> QED
    BY <2>1, <2>2
<1> QED
  BY <1>2 DEF Lost

\* Only targets are deleted, after a statement that deletes only targets.
LEMMA AfterDeleted ==
    ASSUME NEW db, NEW t, NEW new, NEW t2, After(db, t, new, t2), DeletedInv(db, t),
           EditsDeleted(db, t, new)
    PROVE  DeletedInv(db, t2)
<1> SUFFICES ASSUME NEW i \in Ids, RowOf(i) \in DOMAIN t2.writes, ~Brings(t2, i),
                    t2.writes[RowOf(i)].deleted # db[RowOf(i)].deleted
             PROVE  t2.kind \in {"delete", "recall"} /\ i \in t2.targets
  BY DEF DeletedInv
<1>1. t2.kind = t.kind /\ t2.targets = t.targets /\ ~Brings(t, i)
  BY AfterRows DEF After
<1>2. CASE RowOf(i) \in DOMAIN t.writes /\ t.writes[RowOf(i)].deleted # db[RowOf(i)].deleted
  BY <1>1, <1>2 DEF DeletedInv
<1>3. CASE ~(RowOf(i) \in DOMAIN t.writes /\ t.writes[RowOf(i)].deleted # db[RowOf(i)].deleted)
  <2>1. RowAt(db, t, i).deleted = db[RowOf(i)].deleted
    BY <1>3 DEF RowAt, Val
  <2>2. RowOf(i) \in DOMAIN new
    BY <1>3, AfterRows
  <2>3. new[RowOf(i)].deleted # RowAt(db, t, i).deleted
    BY <2>1, <2>2, AfterRows
  <2> QED
    BY <1>1, <2>2, <2>3 DEF EditsDeleted
<1> QED
  BY <1>2, <1>3

\* Flags change only on threads that have lost a reply, after a statement.
LEMMA AfterFlags ==
    ASSUME NEW db, NEW t, NEW new, NEW t2, After(db, t, new, t2), FlagsInv(db, t),
           EditsFlags(db, t, new), \A r : Lost(db, t, r) => Lost(db, t2, r)
    PROVE  FlagsInv(db, t2)
<1> SUFFICES ASSUME NEW i \in Ids, RowOf(i) \in DOMAIN t2.writes, ~Brings(t2, i),
                    t2.writes[RowOf(i)].has_thread # db[RowOf(i)].has_thread
             PROVE  Lost(db, t, i)
  BY DEF FlagsInv
<1>1. ~Brings(t, i)
  BY AfterRows
<1>2. CASE RowOf(i) \in DOMAIN t.writes /\ t.writes[RowOf(i)].has_thread # db[RowOf(i)].has_thread
  BY <1>1, <1>2 DEF FlagsInv
<1>3. CASE ~(RowOf(i) \in DOMAIN t.writes
             /\ t.writes[RowOf(i)].has_thread # db[RowOf(i)].has_thread)
  <2>1. RowAt(db, t, i).has_thread = db[RowOf(i)].has_thread
    BY <1>3 DEF RowAt, Val
  <2>2. RowOf(i) \in DOMAIN new
    BY <1>3, AfterRows
  <2>3. new[RowOf(i)].has_thread # RowAt(db, t, i).has_thread
    BY <2>1, <2>2, AfterRows
  <2> QED
    BY <1>1, <2>2, <2>3 DEF EditsFlags
<1> QED
  BY <1>2, <1>3

\* Receipts have only grown after a statement that lets them grow.
LEMMA AfterReaders ==
    ASSUME NEW db, NEW t, NEW new, NEW t2, After(db, t, new, t2), ReadersInv(db, t),
           DbInv(db), Fits(t.writes), Fits(new), EditsReaders(db, t, new)
    PROVE  ReadersInv(db, t2)
<1> SUFFICES ASSUME NEW u \in Users, NEW p \in Scopes, ReaderOf(u, p) \in DOMAIN t2.writes
             PROVE  t2.writes[ReaderOf(u, p)].receipt >= db[ReaderOf(u, p)].receipt
  BY DEF ReadersInv
<1> DEFINE c == ReaderOf(u, p)
<1>1. c # Revision
  BY CellsDiffer
<1>2. Val(db, t, c) \in Readers /\ db[c] \in Readers
  BY ValFits DEF DbInv
<1>3. Val(db, t, c).receipt >= db[c].receipt
  <2>1. db[c].receipt \in Nat
    BY <1>2, IdNumbers DEF Readers
  <2>2. CASE c \in DOMAIN t.writes
    <3>1. Val(db, t, c) = t.writes[c]
      BY <2>2 DEF Val
    <3> QED
      BY <2>2, <3>1 DEF ReadersInv
  <2>3. CASE c \notin DOMAIN t.writes
    <3>1. Val(db, t, c) = db[c]
      BY <2>3 DEF Val
    <3> QED
      BY <2>1, <3>1
  <2> QED
    BY <2>2, <2>3
<1>4. CASE c \in DOMAIN new
  <2>1. t2.writes[c] = new[c] /\ new[c] \in Readers
    BY <1>4 DEF After, Wrote, Fits
  <2>2. new[c].receipt >= Val(db, t, c).receipt
    BY <1>4 DEF EditsReaders
  <2>3. new[c].receipt \in Nat /\ Val(db, t, c).receipt \in Nat /\ db[c].receipt \in Nat
    BY <1>2, <2>1, IdNumbers DEF Readers
  <2> QED
    BY <1>3, <2>1, <2>2, <2>3
<1>5. CASE c \notin DOMAIN new
  <2>1. c \in DOMAIN t.writes /\ t2.writes[c] = t.writes[c]
    BY <1>1, <1>5 DEF After, Wrote
  <2> QED
    BY <2>1 DEF ReadersInv
<1> QED
  BY <1>4, <1>5

-----------------------------------------------------------------------------
(* Steps of a session.                                                     *)

\* What a step does to the committed database: nothing, or the commit of a
\* transaction w, which is answered if it is a send.
Effect ==
    \/ committed' = committed /\ answered' = answered
    \/ \E w :
          /\ Commits(committed, w) /\ ReadersInv(committed, w)
          /\ committed' = Over(w.writes, committed)
          /\ answered' = IF w.kind = "send"
                         THEN answered \cup {[id |-> w.id, request |-> w.request]}
                         ELSE answered

\* A step that commits nothing.
LEMMA Stays ==
    ASSUME StoreInv, NEW s \in Sessions, NEW t2,
           tx' = [tx EXCEPT ![s] = t2], committed' = committed, cleaned' = cleaned,
           TxInv(committed, t2), \A o \in Sessions \ {s} : Apart(t2, tx[o]),
           ~cleaned => TidyInv(committed, t2)
    PROVE  StoreInv' /\ (answered' = answered => Effect)
<1>1. /\ DOMAIN tx' = Sessions
      /\ \A o \in Sessions : tx'[o] = IF o = s THEN t2 ELSE tx[o]
  BY DEF StoreInv
<1>2. ASSUME NEW o \in Sessions PROVE TxInv(committed, tx'[o])
  BY <1>1 DEF StoreInv
<1>3. ASSUME NEW o \in Sessions, NEW p \in Sessions, o # p PROVE Apart(tx'[o], tx'[p])
  BY <1>1, <1>3, ApartBoth DEF StoreInv
<1>4. ASSUME ~cleaned, NEW o \in Sessions PROVE TidyInv(committed, tx'[o])
  BY <1>1, <1>4 DEF StoreInv
<1>5. StoreInv'
  BY <1>1, <1>2, <1>3, <1>4 DEF StoreInv
<1> QED
  BY <1>5 DEF Effect

\* A step that ends a transaction without committing it.
LEMMA Rolls ==
    ASSUME StoreInv, NEW s \in Sessions, tx' = [tx EXCEPT ![s] = Idle],
           committed' = committed, cleaned' = cleaned
    PROVE  StoreInv' /\ (answered' = answered => Effect)
BY Stays, IdleInv, IdleApart

\* What others keep when w commits.
LEMMA OthersStay ==
    ASSUME StoreInv, NEW s \in Sessions, NEW w, NEW db2,
           db2 = Over(w.writes, committed), Commits(committed, w),
           PublishInv(committed, w), Counted(committed, w),
           \A o \in Sessions \ {s} : Apart(w, tx[o])
    PROVE  /\ DbInv(db2) /\ CountsRight(db2)
           /\ \A o \in Sessions \ {s} : Frame(committed, db2, tx[o]) /\ TxInv(db2, tx[o])
<1>1. DbInv(committed) /\ CountsRight(committed)
  BY DEF StoreInv
<1>2. DbInv(db2)
  BY <1>1, CommitDb
<1>3. CountsRight(db2)
  BY <1>1, CommitCounts
<1>4. ASSUME NEW o \in Sessions \ {s}
      PROVE  Frame(committed, db2, tx[o]) /\ TxInv(db2, tx[o])
  <2>1. TxInv(committed, tx[o]) /\ Apart(w, tx[o])
    BY DEF StoreInv
  <2>2. Frame(committed, db2, tx[o])
    BY <1>1, <2>1, CommitFrame
  <2> QED
    BY <1>1, <2>1, <2>2, FrameTx
<1> QED
  BY <1>2, <1>3, <1>4

\* A step that commits w, which is what the transaction has become.
LEMMA Ends ==
    ASSUME StoreInv, NEW s \in Sessions, NEW w,
           tx' = [tx EXCEPT ![s] = Idle], committed' = Over(w.writes, committed),
           cleaned' = cleaned, Commits(committed, w), ReadersInv(committed, w),
           answered' = IF w.kind = "send"
                       THEN answered \cup {[id |-> w.id, request |-> w.request]}
                       ELSE answered,
           PublishInv(committed, w), TargetsInv(committed, w), DeletedInv(committed, w),
           Counted(committed, w), \A o \in Sessions \ {s} : Apart(w, tx[o]),
           ~cleaned => /\ Names(committed, w, Val(committed, w, LastMessage))
                       /\ LastMessage \in DOMAIN w.writes => Revision \in DOMAIN w.writes
    PROVE  StoreInv' /\ Effect
<1> PICK db2 : db2 = committed'
  OBVIOUS
<1>1. db2 = Over(w.writes, committed)
  OBVIOUS
<1>2. /\ DOMAIN tx' = Sessions
      /\ \A o \in Sessions : tx'[o] = IF o = s THEN Idle ELSE tx[o]
  BY DEF StoreInv
<1>3. /\ DbInv(db2) /\ CountsRight(db2)
      /\ \A o \in Sessions \ {s} : Frame(committed, db2, tx[o]) /\ TxInv(db2, tx[o])
  BY <1>1, OthersStay
<1>4. ASSUME NEW o \in Sessions PROVE TxInv(db2, tx'[o])
  BY <1>2, <1>3, IdleInv
<1>5. ASSUME NEW o \in Sessions, NEW p \in Sessions, o # p PROVE Apart(tx'[o], tx'[p])
  BY <1>2, <1>5, IdleApart DEF StoreInv
<1>6. ASSUME ~cleaned PROVE PendingStay(db2) /\ LastNamed(db2)
  BY <1>1, <1>6, CommitPending, CommitLast DEF StoreInv
<1>7. ASSUME ~cleaned, NEW o \in Sessions PROVE TidyInv(db2, tx'[o])
  <2>1. CASE o = s
    BY <1>2, <2>1, IdleInv
  <2>2. CASE o # s
    <3>1. tx'[o] = tx[o] /\ Apart(w, tx[o]) /\ Frame(committed, db2, tx[o])
      BY <1>2, <1>3, <2>2
    <3>2. TidyInv(committed, tx[o])
      BY <1>7 DEF StoreInv
    <3>3. ASSUME Revision \in DOMAIN tx[o].writes
          PROVE  db2[LastMessage] = committed[LastMessage]
      <4>1. LastMessage \notin DOMAIN w.writes
        BY <1>7, <3>1, <3>3 DEF Apart
      <4>2. LastMessage \in DOMAIN committed
        BY CellsAre DEF StoreInv, DbInv
      <4> QED
        BY <1>1, <4>1, <4>2 DEF Over
    <3> QED
      BY <3>1, <3>2, <3>3, FrameTidy
  <2> QED
    BY <2>1, <2>2
<1>8. StoreInv'
  BY <1>2, <1>3, <1>4, <1>5, <1>6, <1>7 DEF StoreInv
<1>9. Effect
  BY Zenon DEF Effect
<1> QED
  BY <1>8, <1>9

\* A step that commits a batch of a cleanup, and goes on with it.
LEMMA EndsBatch ==
    ASSUME StoreInv, NEW s \in Sessions, NEW w, NEW t2,
           tx' = [tx EXCEPT ![s] = t2], committed' = Over(w.writes, committed),
           cleaned', Commits(committed, w), PublishInv(committed, w), Counted(committed, w),
           ReadersInv(committed, w), w.kind # "send", answered' = answered,
           \A o \in Sessions \ {s} : Apart(w, tx[o]) /\ Apart(t2, tx[o]),
           TxInv(committed', t2)
    PROVE  StoreInv' /\ Effect
<1> PICK db2 : db2 = committed'
  OBVIOUS
<1>1. db2 = Over(w.writes, committed) /\ TxInv(db2, t2)
  OBVIOUS
<1>2. /\ DOMAIN tx' = Sessions
      /\ \A o \in Sessions : tx'[o] = IF o = s THEN t2 ELSE tx[o]
  BY DEF StoreInv
<1>3. /\ DbInv(db2) /\ CountsRight(db2)
      /\ \A o \in Sessions \ {s} : Frame(committed, db2, tx[o]) /\ TxInv(db2, tx[o])
  BY <1>1, OthersStay
<1>4. ASSUME NEW o \in Sessions PROVE TxInv(db2, tx'[o])
  BY <1>1, <1>2, <1>3
<1>5. ASSUME NEW o \in Sessions, NEW p \in Sessions, o # p PROVE Apart(tx'[o], tx'[p])
  BY <1>2, <1>5, ApartBoth DEF StoreInv
<1>6. StoreInv'
  BY <1>2, <1>3, <1>4, <1>5 DEF StoreInv
<1>7. Effect
  BY Zenon DEF Effect
<1> QED
  BY <1>6, <1>7

\* What the invariant says of the session that takes a step.
LEMMA OfSession ==
    ASSUME StoreInv, NEW s \in Sessions, NEW t, t = tx[s]
    PROVE  /\ DbInv(committed) /\ Fits(committed) /\ DOMAIN committed = Cells
           /\ TxInv(committed, t) /\ TxShape(t) /\ Fits(t.writes) /\ PlaceInv(t)
           /\ RowInvs(committed, t)
           /\ \A o \in Sessions \ {s} : Apart(t, tx[o])
           /\ ~cleaned => /\ TidyInv(committed, t) /\ LastInv(committed, t)
                          /\ PendingStay(committed) /\ LastNamed(committed)
BY DEF StoreInv, TxInv, TidyInv, DbInv

-----------------------------------------------------------------------------
(* Statements in general.                                                  *)

\* A statement that writes: the transaction that it makes of u.
LEMMA Writes ==
    ASSUME StoreInv, NEW s \in Sessions, NEW t, t = tx[s], NEW new, NEW u,
           Write(s, new, u), Fits(new), TxShape(u)
    PROVE  \E t2 :
            /\ tx' = [tx EXCEPT ![s] = t2] /\ committed' = committed /\ cleaned' = cleaned
            /\ answered' = answered
            /\ TxShape(t2) /\ Fits(t2.writes) /\ Wrote(committed, t, new, t2.writes)
            /\ t2.kind = u.kind /\ t2.pc = u.pc /\ t2.id = u.id /\ t2.request = u.request
            /\ t2.user = u.user /\ t2.targets = u.targets /\ t2.roots = u.roots
            /\ t2.hidden = u.hidden /\ t2.seen = u.seen
            /\ \A o \in Sessions \ {s} : DOMAIN t2.writes \cap DOMAIN tx[o].writes = {}
<1> PICK all : all = Over(new, Bump(committed, t, new))
  OBVIOUS
<1> PICK f : f = Over(all, t.writes)
  OBVIOUS
<1>1. Bumped(s, new) = Bump(committed, t, new)
  BY Views
<1>2. /\ Unlocked(s, DOMAIN all)
      /\ tx' = [tx EXCEPT ![s] = [u EXCEPT !.writes = f]]
      /\ committed' = committed /\ cleaned' = cleaned /\ answered' = answered
  BY <1>1, Zenon DEF Write
<1>3. /\ Wrote(committed, t, new, f) /\ Fits(f)
      /\ DOMAIN f = DOMAIN all \cup DOMAIN t.writes
  <2>1. Fits(t.writes)
    BY OfSession
  <2> QED
    BY <2>1, WriteIs
<1>4. ASSUME NEW o \in Sessions \ {s}
      PROVE  DOMAIN f \cap DOMAIN tx[o].writes = {}
  <2>1. DOMAIN t.writes \cap DOMAIN tx[o].writes = {}
    BY OfSession DEF Apart
  <2>2. DOMAIN all \cap DOMAIN tx[o].writes = {}
    BY <1>2 DEF Unlocked
  <2> QED
    BY <1>3, <2>1, <2>2
<1> DEFINE t2 == [u EXCEPT !.writes = f]
<1>5. /\ t2.kind = u.kind /\ t2.pc = u.pc /\ t2.id = u.id /\ t2.request = u.request
      /\ t2.user = u.user /\ t2.targets = u.targets /\ t2.roots = u.roots
      /\ t2.hidden = u.hidden /\ t2.seen = u.seen /\ t2.writes = f
  BY DEF TxShape
<1>6. TxShape(t2)
  BY <1>5 DEF TxShape
<1> HIDE DEF t2
<1>7. tx' = [tx EXCEPT ![s] = t2]
  BY <1>2 DEF t2
<1> WITNESS t2
<1> QED
  BY <1>2, <1>3, <1>4, <1>5, <1>6, <1>7

\* The last statement: what the transaction has become when it commits.
LEMMA Finishes ==
    ASSUME StoreInv, NEW s \in Sessions, NEW t, t = tx[s], NEW new,
           Finish(s, new), Fits(new)
    PROVE  \E w :
            /\ tx' = [tx EXCEPT ![s] = Idle] /\ cleaned' = cleaned
            /\ committed' = Over(w.writes, committed)
            /\ answered' = IF t.kind = "send"
                           THEN answered \cup {[id |-> t.id, request |-> t.request]}
                           ELSE answered
            /\ After(committed, t, new, w) /\ w.pc = t.pc
            /\ \A o \in Sessions \ {s} : Apart(w, tx[o])
<1> PICK all : all = Over(new, Bump(committed, t, new))
  OBVIOUS
<1> PICK f : f = Over(all, t.writes)
  OBVIOUS
<1>1. Bumped(s, new) = Bump(committed, t, new)
  BY Views
<1>2. /\ Unlocked(s, DOMAIN all)
      /\ tx' = [tx EXCEPT ![s] = Idle] /\ cleaned' = cleaned
      /\ committed' = Over(all, Over(t.writes, committed))
      /\ answered' = IF t.kind = "send"
                     THEN answered \cup {[id |-> t.id, request |-> t.request]}
                     ELSE answered
  BY <1>1, Zenon DEF Finish
<1>3. /\ Wrote(committed, t, new, f) /\ Fits(f)
      /\ DOMAIN f = DOMAIN all \cup DOMAIN t.writes
  <2>1. Fits(t.writes)
    BY OfSession
  <2> QED
    BY <2>1, WriteIs
<1>4. ASSUME NEW o \in Sessions \ {s}
      PROVE  DOMAIN f \cap DOMAIN tx[o].writes = {}
  <2>1. DOMAIN t.writes \cap DOMAIN tx[o].writes = {}
    BY OfSession DEF Apart
  <2>2. DOMAIN all \cap DOMAIN tx[o].writes = {}
    BY <1>2 DEF Unlocked
  <2> QED
    BY <1>3, <2>1, <2>2
<1>5. Over(all, Over(t.writes, committed)) = Over(f, committed)
  <2> QED
    BY DEF Over
<1> DEFINE w == [t EXCEPT !.writes = f]
<1>6. /\ w.kind = t.kind /\ w.pc = t.pc /\ w.id = t.id /\ w.request = t.request
      /\ w.user = t.user /\ w.targets = t.targets /\ w.writes = f
  BY OfSession DEF TxShape
<1> HIDE DEF w
<1>7. ASSUME NEW o \in Sessions \ {s} PROVE Apart(w, tx[o])
  <2>1. Apart(t, tx[o])
    BY OfSession
  <2> QED
    BY <1>4, <1>6, <2>1 DEF Apart
<1>8. After(committed, t, new, w)
  BY <1>3, <1>6 DEF After
<1> WITNESS w
<1> QED
  BY <1>2, <1>5, <1>6, <1>7, <1>8

\* A statement that opens a transaction or reads.
LEMMA Reads ==
    ASSUME NEW s \in Sessions, NEW u, Query(s, u) \/ Open(s, u)
    PROVE  /\ tx' = [tx EXCEPT ![s] = u] /\ committed' = committed /\ cleaned' = cleaned
           /\ answered' = answered
BY DEF Query, Open

\* Rows that are there.
LEMMA RowAtSound ==
    ASSUME NEW db, NEW t, DbInv(db), RowsInv(db, t), Fits(t.writes), NEW i \in Ids,
           db[RowOf(i)] # NoRow, ~Brings(t, i)
    PROVE  /\ RowAt(db, t, i) \in Rows /\ RowSound(i, RowAt(db, t, i))
           /\ RowAt(db, t, i) # NoRow /\ Kept(db[RowOf(i)], RowAt(db, t, i))
<1>1. db[RowOf(i)] \in Rows /\ RowAt(db, t, i) \in Rows /\ RowSound(i, db[RowOf(i)])
  BY ValFits DEF DbInv
<1>2. CASE RowOf(i) \in DOMAIN t.writes
  <2>1. RowAt(db, t, i) = t.writes[RowOf(i)]
    BY <1>2 DEF RowAt, Val
  <2>2. Kept(db[RowOf(i)], t.writes[RowOf(i)])
    BY <1>2 DEF RowsInv
  <2>3. RowSound(i, RowAt(db, t, i))
    BY <1>1, <2>1, <2>2, KeptIs DEF Kept
  <2> QED
    BY <1>1, <2>1, <2>2, <2>3 DEF Kept
<1>3. CASE RowOf(i) \notin DOMAIN t.writes
  <2>1. RowAt(db, t, i) = db[RowOf(i)]
    BY <1>3 DEF RowAt, Val
  <2> QED
    BY <1>1, <2>1 DEF Kept
<1> QED
  BY <1>2, <1>3

\* Rows that are not there yet are as they were.
LEMMA RowAtNone ==
    ASSUME NEW db, NEW t, RowsInv(db, t), NEW i \in Ids, ~Brings(t, i),
           RowAt(db, t, i) # NoRow
    PROVE  db[RowOf(i)] # NoRow
<1>1. CASE RowOf(i) \in DOMAIN t.writes
  BY <1>1 DEF RowsInv, Kept
<1>2. CASE RowOf(i) \notin DOMAIN t.writes
  BY <1>2 DEF RowAt, Val
<1> QED
  BY <1>1, <1>2

\* What t has done to rows, after a statement.
LEMMA AfterAll ==
    ASSUME NEW db, NEW t, NEW new, NEW t2, DbInv(db), RowInvs(db, t), ReadersInv(db, t),
           Fits(t.writes), Fits(new), After(db, t, new, t2), Edits(db, t, new),
           EditsReaders(db, t, new),
           \A i \in Ids : Brings(t, i) /\ RowOf(i) \in DOMAIN new => ~RowAt(db, t, i).deleted
    PROVE  /\ RowsInv(db, t2) /\ RevisionInv(db, t2) /\ ReadersInv(db, t2)
           /\ EditsDeleted(db, t, new) => DeletedInv(db, t2)
           /\ EditsFlags(db, t, new) => FlagsInv(db, t2)
           /\ \A r : Lost(db, t, r) => Lost(db, t2, r)
           /\ t.pc # "delete" => TargetsInv(db, t2)
<1>1. RowsInv(db, t2) /\ RevisionInv(db, t2)
  BY AfterKept DEF RowInvs
<1>2. ReadersInv(db, t2)
  BY AfterReaders
<1>3. EditsDeleted(db, t, new) => DeletedInv(db, t2)
  BY AfterDeleted DEF RowInvs
<1>4. \A r : Lost(db, t, r) => Lost(db, t2, r)
  BY AfterLost
<1>5. EditsFlags(db, t, new) => FlagsInv(db, t2)
  BY <1>4, AfterFlags DEF RowInvs
<1>6. ASSUME t.pc # "delete" PROVE TargetsInv(db, t2)
  <2> SUFFICES ASSUME t2.kind \in {"delete", "recall"}, NEW i \in t2.targets
               PROVE  /\ db[RowOf(i)].published
                      /\ RowOf(i) \in DOMAIN t2.writes /\ t2.writes[RowOf(i)].deleted
    BY DEF TargetsInv
  <2>1. /\ db[RowOf(i)].published /\ RowOf(i) \in DOMAIN t.writes
        /\ t.writes[RowOf(i)].deleted /\ t.kind \in {"delete", "recall"}
    BY <1>6 DEF RowInvs, TargetsInv, After
  <2>2. RowOf(i) \in Cells
    BY <2>1 DEF Fits
  <2>3. CASE RowOf(i) \in DOMAIN new
    <3>1. i \in Ids
      BY <2>2, CellsDiffer DEF Cells
    <3>2. ~Brings(t, i) /\ RowAt(db, t, i) = t.writes[RowOf(i)]
      BY <2>1 DEF Brings, RowAt, Val
    <3>3. new[RowOf(i)].deleted
      BY <2>1, <2>3, <3>1, <3>2 DEF Edits, Kept
    <3> QED
      BY <2>1, <2>3, <3>1, <3>3, AfterRows
  <2>4. CASE RowOf(i) \notin DOMAIN new
    <3>1. RowOf(i) # Revision
      BY CellsDiffer
    <3> QED
      BY <2>1, <2>4, <3>1 DEF After, Wrote
  <2> QED
    BY <2>3, <2>4
<1> QED
  BY <1>1, <1>2, <1>3, <1>4, <1>5, <1>6

\* A statement that writes no rows.
LEMMA AfterQuiet ==
    ASSUME NEW db, NEW t, NEW new, NEW t2, DbInv(db), RowInvs(db, t), ReadersInv(db, t),
           Fits(t.writes), Fits(new), After(db, t, new, t2),
           \A i \in Ids : RowOf(i) \notin DOMAIN new, EditsReaders(db, t, new),
           t.pc # "delete"
    PROVE  /\ RowInvs(db, t2) /\ ReadersInv(db, t2)
           /\ \A i \in Ids : RowAt(db, t2, i) = RowAt(db, t, i)
           /\ \A r : Lost(db, t2, r) <=> Lost(db, t, r)
           /\ \A last : Names(db, t2, last) <=> Names(db, t, last)
<1>1. Edits(db, t, new) /\ EditsDeleted(db, t, new) /\ EditsFlags(db, t, new)
  BY DEF Edits, EditsDeleted, EditsFlags
<1>2. \A i \in Ids : RowAt(db, t2, i) = RowAt(db, t, i)
  BY AfterRows
<1>3. RowInvs(db, t2) /\ ReadersInv(db, t2)
  BY <1>1, AfterAll DEF RowInvs
<1>4. ASSUME NEW last PROVE Names(db, t2, last) <=> Names(db, t, last)
  BY <1>2 DEF Names
<1> QED
  BY <1>2, <1>3, <1>4 DEF Lost

\* A transaction that has written nothing.
LEMMA FreshInv ==
    ASSUME NEW db, NEW t, t.writes = Nothing
    PROVE  /\ RowsInv(db, t) /\ DeletedInv(db, t) /\ FlagsInv(db, t) /\ RevisionInv(db, t)
           /\ ReadersInv(db, t) /\ DOMAIN t.writes = {} /\ Fits(t.writes)
           /\ \A c : Val(db, t, c) = db[c]
           /\ \A i : RowAt(db, t, i) = db[RowOf(i)]
<1>1. DOMAIN t.writes = {}
  BY Writing
<1> QED
  BY <1>1, FitsCell DEF RowsInv, DeletedInv, FlagsInv, RevisionInv, ReadersInv, Val, RowAt

\* A transaction that has only gone on.
LEMMA SameWrites ==
    ASSUME NEW db, NEW t, NEW t2, t2.writes = t.writes, t2.kind = t.kind, t2.id = t.id,
           t2.targets = t.targets, RowInvs(db, t), ReadersInv(db, t), t.pc # "delete"
    PROVE  /\ RowInvs(db, t2) /\ ReadersInv(db, t2)
           /\ \A c : Val(db, t2, c) = Val(db, t, c)
           /\ \A i : RowAt(db, t2, i) = RowAt(db, t, i)
           /\ \A r : Lost(db, t2, r) <=> Lost(db, t, r)
           /\ \A last : Names(db, t2, last) <=> Names(db, t, last)
<1>1. \A c : Val(db, t2, c) = Val(db, t, c)
  BY DEF Val
<1>2. \A i : RowAt(db, t2, i) = RowAt(db, t, i)
  BY <1>1 DEF RowAt
<1>3. \A r : Lost(db, t2, r) <=> Lost(db, t, r)
  BY <1>2 DEF Lost
<1>4. \A last : Names(db, t2, last) <=> Names(db, t, last)
  BY <1>2 DEF Names
<1>5. RowInvs(db, t2)
  BY <1>3 DEF RowInvs, TargetsInv, RowsInv, DeletedInv, FlagsInv, RevisionInv, Brings
<1>6. ReadersInv(db, t2)
  BY DEF ReadersInv
<1> QED
  BY <1>1, <1>2, <1>3, <1>4, <1>5, <1>6

-----------------------------------------------------------------------------
(* Sends.                                                                  *)

\* A transaction that waits to insert is a send that has written nothing.
LEMMA AtInsert ==
    ASSUME NEW db, NEW t, TxInv(db, t), t.pc \in {"insert", "last", "mark"}
    PROVE  /\ t.kind = "send" /\ t.id \in Ids /\ t.request \in Requests
           /\ t.pc = "insert" => t.writes = Nothing
BY TxFields, IdleFits DEF TxInv, PlaceInv, SendInv, Kinds

\* The checks before a send keep the invariant: its id is new, its root is there.
LEMMA BeginSendStep ==
    ASSUME StoreInv, NEW s \in Sessions, BeginSend(s)
    PROVE  StoreInv' /\ Effect
<1>1. PICK q \in Requests, i \in NextIds :
          /\ q.root # NoId => Enterable(committed[RowOf(q.root)])
          /\ Open(s, [Idle EXCEPT !.kind = "send", !.pc = "insert",
                                  !.user = q.user, !.request = q, !.id = i])
  BY Zenon DEF BeginSend
<1> DEFINE t2 == [Idle EXCEPT !.kind = "send", !.pc = "insert",
                              !.user = q.user, !.request = q, !.id = i]
<1>2. i \in Ids /\ committed[RowOf(i)] = NoRow /\ \A o \in Sessions : tx[o].id # i
  <2>1. i \in Ids /\ \A j \in IdsInUse : j < i
    BY DEF NextIds
  <2>2. i \notin IdsInUse
    BY <2>1, IdNumbers
  <2> QED
    BY <2>1, <2>2 DEF IdsInUse
<1>3. /\ t2.kind = "send" /\ t2.pc = "insert" /\ t2.request = q /\ t2.id = i
      /\ t2.writes = Nothing /\ TxShape(t2)
  <2>1. q.user \in Users /\ q \in AnyRequest /\ i \in Scopes
    BY <1>2, RequestType, IdNumbers
  <2> QED
    BY <2>1, IdleFits DEF TxShape, Kinds, Places
<1>4. /\ tx' = [tx EXCEPT ![s] = t2] /\ committed' = committed /\ cleaned' = cleaned
      /\ answered' = answered
  BY <1>1 DEF Open
<1> HIDE DEF t2
<1>5. q.root # NoId => committed[RowOf(q.root)] # NoRow
  BY <1>1, RowType DEF Enterable
<1>6. TxInv(committed, t2)
  <2>1. PlaceInv(t2) /\ SendInv(committed, t2) /\ PublishInv(committed, t2)
    BY <1>2, <1>3, <1>5 DEF PlaceInv, SendInv, PublishInv
  <2>2. /\ RowsInv(committed, t2) /\ DeletedInv(committed, t2) /\ FlagsInv(committed, t2)
        /\ RevisionInv(committed, t2) /\ ReadersInv(committed, t2) /\ Fits(t2.writes)
        /\ DOMAIN t2.writes = {}
    BY <1>3, FreshInv
  <2>3. TargetsInv(committed, t2) /\ CountInv(committed, t2)
    BY <1>3, <2>2 DEF TargetsInv, CountInv, Deleting
  <2> QED
    BY <1>3, <2>1, <2>2, <2>3 DEF TxInv, RowInvs
<1>7. TidyInv(committed, t2)
  BY <1>3, FreshInv DEF TidyInv, LastInv
<1>8. ASSUME NEW o \in Sessions \ {s} PROVE Apart(t2, tx[o])
  BY <1>2, <1>3, FreshInv DEF Apart
<1> QED
  BY <1>4, <1>6, <1>7, <1>8, Stays

\* The insertion of a message keeps the invariant.
LEMMA InsertStep ==
    ASSUME StoreInv, NEW s \in Sessions, Insert(s)
    PROVE  StoreInv' /\ Effect
<1> PICK t : t = tx[s]
  OBVIOUS
<1> DEFINE q == t.request
           r == Row(q, Publishes(q))
           new == Cell(RowOf(t.id), r)
           u == [t EXCEPT !.pc = IF Publishes(q) /\ q.root = NoId THEN "last" ELSE "mark"]
<1>1. t.pc = "insert" /\ KeyFree(s, q) /\ Write(s, new, u)
  BY Zenon DEF Insert, At
<1>2. /\ DbInv(committed) /\ TxInv(committed, t) /\ TxShape(t) /\ PlaceInv(t)
      /\ RowInvs(committed, t) /\ SendInv(committed, t) /\ ReadersInv(committed, t)
  BY OfSession DEF TxInv
<1>3. t.kind = "send" /\ t.id \in Ids /\ t.request \in Requests /\ t.writes = Nothing
  BY <1>1, <1>2, AtInsert
<1>4. /\ DOMAIN t.writes = {} /\ Fits(t.writes)
      /\ \A i : RowAt(committed, t, i) = committed[RowOf(i)]
  BY <1>3, FreshInv
<1>5. committed[RowOf(t.id)] = NoRow /\ (q.root # NoId => committed[RowOf(q.root)] # NoRow)
  BY <1>2, <1>3 DEF SendInv
<1>6. r \in Rows /\ r.request = q /\ r.published = Publishes(q) /\ ~r.deleted
  BY <1>3, RequestType, RowType DEF Publishes
<1>7. DOMAIN new = {RowOf(t.id)} /\ new[RowOf(t.id)] = r /\ Fits(new)
  <2>1. DOMAIN new = {RowOf(t.id)} /\ new[RowOf(t.id)] = r
    BY DEF Cell
  <2>2. Fits(new)
    BY <1>3, <1>6, FitsCell
  <2> QED
    BY <2>1, <2>2
<1>8. /\ TxShape(u) /\ u.kind = "send" /\ u.id = t.id /\ u.request = q /\ u.user = t.user
      /\ u.targets = t.targets
      /\ u.pc = IF Publishes(q) /\ q.root = NoId THEN "last" ELSE "mark"
  BY <1>2, <1>3 DEF TxShape, Places
<1> HIDE DEF u, new, r
<1>9. PICK t2 :
        /\ tx' = [tx EXCEPT ![s] = t2] /\ committed' = committed /\ cleaned' = cleaned
        /\ answered' = answered
        /\ TxShape(t2) /\ Fits(t2.writes) /\ Wrote(committed, t, new, t2.writes)
        /\ t2.kind = u.kind /\ t2.pc = u.pc /\ t2.id = u.id /\ t2.request = u.request
        /\ t2.user = u.user /\ t2.targets = u.targets
        /\ \A o \in Sessions \ {s} : DOMAIN t2.writes \cap DOMAIN tx[o].writes = {}
  BY <1>1, <1>7, <1>8, Writes
<1>10. After(committed, t, new, t2)
  BY <1>3, <1>8, <1>9 DEF After
<1>11. Edits(committed, t, new) /\ EditsDeleted(committed, t, new)
       /\ EditsFlags(committed, t, new) /\ EditsReaders(committed, t, new)
  <2>1. \A i \in Ids : RowOf(i) \in DOMAIN new => Brings(t, i)
    BY <1>3, <1>7, CellsDiffer DEF Brings
  <2>2. \A v \in Users, p \in Scopes : ReaderOf(v, p) \notin DOMAIN new
    BY <1>7, CellsDiffer
  <2> QED
    BY <2>1, <2>2 DEF Edits, EditsDeleted, EditsFlags, EditsReaders
<1>12. RowInvs(committed, t2) /\ ReadersInv(committed, t2)
  <2>1. \A i \in Ids : Brings(t, i) /\ RowOf(i) \in DOMAIN new => ~RowAt(committed, t, i).deleted
    BY <1>4, <1>5, RowType DEF Brings
  <2>2. /\ RowsInv(committed, t2) /\ RevisionInv(committed, t2) /\ ReadersInv(committed, t2)
        /\ DeletedInv(committed, t2) /\ FlagsInv(committed, t2)
    BY <1>2, <1>4, <1>7, <1>10, <1>11, <2>1, AfterAll
  <2>3. TargetsInv(committed, t2)
    BY <1>8, <1>9 DEF TargetsInv
  <2> QED
    BY <2>2, <2>3 DEF RowInvs
<1>13. RowOf(t.id) \in DOMAIN t2.writes /\ t2.writes[RowOf(t.id)] = r
  BY <1>7, <1>9 DEF Wrote
<1>14. SendInv(committed, t2)
  <2>1. \A i \in Ids : committed[RowOf(i)] # NoRow =>
                           committed[RowOf(i)].request.key # q.key
    BY <1>1 DEF KeyFree, KeyStored
  <2> QED
    BY <1>3, <1>5, <1>8, <1>9, <1>13, <2>1 DEF SendInv, r
<1>15. \A i \in Ids : CountOf(i) \notin DOMAIN t2.writes
  BY <1>4, <1>7, <1>9, CellsDiffer DEF Wrote
<1>16. LastMessage \notin DOMAIN t2.writes
  BY <1>4, <1>7, <1>9, CellsDiffer DEF Wrote
<1>17. PlaceInv(t2) /\ PublishInv(committed, t2) /\ CountInv(committed, t2)
  BY <1>8, <1>9, <1>15 DEF PlaceInv, PublishInv, CountInv, Deleting
<1>18. TxInv(committed, t2)
  BY <1>9, <1>12, <1>14, <1>17 DEF TxInv
<1>19. TidyInv(committed, t2)
  BY <1>8, <1>9, <1>16 DEF TidyInv, LastInv
<1>20. ASSUME NEW o \in Sessions \ {s} PROVE Apart(t2, tx[o])
  <2>1. Apart(t, tx[o]) /\ TxInv(committed, tx[o])
    BY OfSession DEF StoreInv
  <2>2. ASSUME tx[o].kind = "send", tx[o].pc # "insert"
        PROVE  tx[o].request.key # q.key
    <3>1. Inserted(o)
      BY <2>1, <2>2 DEF Inserted, TxInv, SendInv
    <3> QED
      BY <1>1, <3>1 DEF KeyFree
  <2> QED
    BY <1>3, <1>8, <1>9, <2>1, <2>2 DEF Apart
<1> QED
  BY <1>9, <1>18, <1>19, <1>20, Stays

\* A repeated request ends its transaction.
LEMMA ResendStep ==
    ASSUME StoreInv, NEW s \in Sessions, Resend(s)
    PROVE  StoreInv'
<1>1. tx' = [tx EXCEPT ![s] = Idle] /\ committed' = committed /\ cleaned' = cleaned
  BY DEF Resend
<1> QED
  BY <1>1, Rolls

\* A send that names itself as the last message keeps the invariant.
LEMMA SetLastStep ==
    ASSUME StoreInv, NEW s \in Sessions, SetLast(s)
    PROVE  StoreInv' /\ Effect
<1> PICK t : t = tx[s]
  OBVIOUS
<1> DEFINE new == Cell(LastMessage, t.id)
           u == [t EXCEPT !.pc = "mark"]
<1>1. t.pc = "last" /\ Write(s, new, u)
  BY Zenon DEF SetLast, At
<1>2. /\ DbInv(committed) /\ TxInv(committed, t) /\ TxShape(t) /\ Fits(t.writes)
      /\ RowInvs(committed, t) /\ SendInv(committed, t) /\ ReadersInv(committed, t)
      /\ CountInv(committed, t)
  BY OfSession DEF TxInv
<1>3. t.kind = "send" /\ t.id \in Ids /\ t.request \in Requests
  BY <1>1, <1>2, AtInsert
<1>4. DOMAIN new = {LastMessage} /\ new[LastMessage] = t.id /\ Fits(new)
  <2>1. DOMAIN new = {LastMessage} /\ new[LastMessage] = t.id
    BY DEF Cell
  <2>2. Fits(new)
    BY <1>3, IdNumbers, FitsCell
  <2> QED
    BY <2>1, <2>2
<1>5. /\ TxShape(u) /\ u.kind = "send" /\ u.id = t.id /\ u.request = t.request
      /\ u.user = t.user /\ u.targets = t.targets /\ u.pc = "mark"
  BY <1>2, <1>3 DEF TxShape, Places
<1> HIDE DEF u, new
<1>6. PICK t2 :
        /\ tx' = [tx EXCEPT ![s] = t2] /\ committed' = committed /\ cleaned' = cleaned
        /\ answered' = answered
        /\ TxShape(t2) /\ Fits(t2.writes) /\ Wrote(committed, t, new, t2.writes)
        /\ t2.kind = u.kind /\ t2.pc = u.pc /\ t2.id = u.id /\ t2.request = u.request
        /\ t2.user = u.user /\ t2.targets = u.targets
        /\ \A o \in Sessions \ {s} : DOMAIN t2.writes \cap DOMAIN tx[o].writes = {}
  BY <1>1, <1>4, <1>5, Writes
<1>7. After(committed, t, new, t2)
  BY <1>3, <1>5, <1>6 DEF After
<1>8. RowInvs(committed, t2) /\ ReadersInv(committed, t2)
  <2>1. EditsReaders(committed, t, new)
    BY <1>4, CellsDiffer DEF EditsReaders
  <2>2. \A i \in Ids : RowOf(i) \notin DOMAIN new
    BY <1>4, CellsDiffer
  <2> QED
    BY <1>1, <1>2, <1>4, <1>7, <2>1, <2>2, AfterQuiet
<1>9. /\ RowOf(t.id) \in DOMAIN t2.writes /\ t2.writes[RowOf(t.id)] = t.writes[RowOf(t.id)]
      /\ LastMessage \in DOMAIN t2.writes /\ t2.writes[LastMessage] = t.id
  BY <1>1, <1>2, <1>3, <1>4, <1>6, CellsDiffer DEF Wrote, SendInv
<1>10. SendInv(committed, t2)
  BY <1>1, <1>2, <1>3, <1>5, <1>6, <1>9 DEF SendInv
<1>11. \A r \in Ids : CountOf(r) \notin DOMAIN t2.writes
  BY <1>1, <1>2, <1>3, <1>4, <1>6, CellsDiffer DEF Wrote, CountInv
<1>12. PlaceInv(t2) /\ PublishInv(committed, t2) /\ CountInv(committed, t2)
  BY <1>5, <1>6, <1>11 DEF PlaceInv, PublishInv, CountInv, Deleting
<1>13. TxInv(committed, t2)
  BY <1>6, <1>8, <1>10, <1>12 DEF TxInv
<1>14. TidyInv(committed, t2)
  <2>1. /\ t.request.root = NoId /\ Publishes(t.request) /\ committed[RowOf(t.id)] = NoRow
        /\ RowOf(t.id) \in DOMAIN t.writes
        /\ t.writes[RowOf(t.id)] = Row(t.request, Publishes(t.request))
    BY <1>1, <1>2, <1>3 DEF SendInv
  <2>2. VisibleTop(t.writes[RowOf(t.id)]) /\ ~VisibleTop(committed[RowOf(t.id)])
    BY <2>1 DEF VisibleTop, Visible, IsReply, Row, NoRow
  <2>3. Revision \in DOMAIN t.writes
    BY <1>2, <1>3, <2>1, <2>2 DEF RowInvs, RevisionInv
  <2>4. Revision \in DOMAIN t2.writes
    BY <1>6, <2>3 DEF Wrote
  <2> QED
    BY <1>5, <1>6, <2>1, <2>4 DEF TidyInv, LastInv
<1>15. ASSUME NEW o \in Sessions \ {s} PROVE Apart(t2, tx[o])
  <2>1. Apart(t, tx[o])
    BY OfSession
  <2> QED
    BY <1>1, <1>3, <1>5, <1>6, <2>1 DEF Apart
<1> QED
  BY <1>6, <1>13, <1>14, <1>15, Stays

\* Reading moves receipts forward.
LEMMA ReadForward ==
    ASSUME NEW r \in Readers, NEW i \in Ids
    PROVE  ReadUpTo(r, i) \in Readers /\ ReadUpTo(r, i).receipt >= r.receipt
<1>1. r.read \in Nat /\ r.receipt \in Nat /\ i \in Nat /\ i \in Scopes
  BY IdNumbers DEF Readers
<1> QED
  BY <1>1 DEF Readers, ReadUpTo, Later

\* What is written to a reader.
LEMMA ReadEdits ==
    ASSUME NEW db, NEW t, DbInv(db), Fits(t.writes), NEW u \in Users, NEW p \in Scopes,
           NEW i \in Ids, NEW new, new = Cell(ReaderOf(u, p), ReadUpTo(Val(db, t, ReaderOf(u, p)), i))
    PROVE  /\ Fits(new) /\ EditsReaders(db, t, new)
           /\ \A c : c \in DOMAIN new <=> c = ReaderOf(u, p)
<1> DEFINE v == ReadUpTo(Val(db, t, ReaderOf(u, p)), i)
<1>1. v \in Readers /\ v.receipt >= Val(db, t, ReaderOf(u, p)).receipt
  BY ValFits, ReadForward DEF DbInv
<1>2. DOMAIN new = {ReaderOf(u, p)} /\ new[ReaderOf(u, p)] = v
  BY DEF Cell
<1>3. Fits(new)
  BY <1>1, FitsCell
<1> HIDE DEF v
<1>4. EditsReaders(db, t, new)
  BY <1>1, <1>2, CellsDiffer DEF EditsReaders
<1> QED
  BY <1>2, <1>3, <1>4

\* A message that is marked as read before its reply is counted.
LEMMA MarkCountsStep ==
    ASSUME StoreInv, NEW s \in Sessions, Mark(s), CountsNow(tx[s].request)
    PROVE  StoreInv' /\ Effect
<1> PICK t : t = tx[s]
  OBVIOUS
<1> DEFINE cell == ReaderOf(t.user, t.request.root)
           new == Cell(cell, ReadUpTo(Val(committed, t, cell), t.id))
           u == [t EXCEPT !.pc = "count"]
<1>1. t.pc = "mark" /\ Write(s, new, u)
  <2>1. View(s, cell) = Val(committed, t, cell)
    BY Views
  <2> QED
    BY <2>1, Zenon DEF Mark, At
<1>2. /\ DbInv(committed) /\ TxInv(committed, t) /\ TxShape(t) /\ Fits(t.writes)
      /\ RowInvs(committed, t) /\ SendInv(committed, t) /\ ReadersInv(committed, t)
      /\ CountInv(committed, t)
  BY OfSession DEF TxInv
<1>3. t.kind = "send" /\ t.id \in Ids /\ t.request \in Requests
  BY <1>1, <1>2, AtInsert
<1>4. /\ Fits(new) /\ EditsReaders(committed, t, new)
      /\ \A c : c \in DOMAIN new <=> c = cell
  <2>1. t.user \in Users /\ t.request.root \in Scopes
    BY <1>2, <1>3, TxFields, RequestType
  <2> QED
    BY <1>2, <1>3, <2>1, ReadEdits
<1>5. /\ TxShape(u) /\ u.kind = "send" /\ u.id = t.id /\ u.request = t.request
      /\ u.user = t.user /\ u.targets = t.targets /\ u.pc = "count"
  BY <1>2, <1>3 DEF TxShape, Places
<1> HIDE DEF u, new
<1>6. PICK t2 :
        /\ tx' = [tx EXCEPT ![s] = t2] /\ committed' = committed /\ cleaned' = cleaned
        /\ answered' = answered
        /\ TxShape(t2) /\ Fits(t2.writes) /\ Wrote(committed, t, new, t2.writes)
        /\ t2.kind = u.kind /\ t2.pc = u.pc /\ t2.id = u.id /\ t2.request = u.request
        /\ t2.user = u.user /\ t2.targets = u.targets
        /\ \A o \in Sessions \ {s} : DOMAIN t2.writes \cap DOMAIN tx[o].writes = {}
  BY <1>1, <1>4, <1>5, Writes
<1>7. After(committed, t, new, t2)
  BY <1>3, <1>5, <1>6 DEF After
<1>8. RowInvs(committed, t2) /\ ReadersInv(committed, t2)
  <2>2. \A i \in Ids : RowOf(i) \notin DOMAIN new
    BY <1>4, CellsDiffer
  <2> QED
    BY <1>1, <1>2, <1>4, <1>7, <2>2, AfterQuiet
<1>9. /\ RowOf(t.id) \in DOMAIN t2.writes /\ t2.writes[RowOf(t.id)] = t.writes[RowOf(t.id)]
  BY <1>1, <1>2, <1>3, <1>4, <1>6, CellsDiffer DEF Wrote, SendInv
<1>10. SendInv(committed, t2)
  BY <1>1, <1>2, <1>3, <1>5, <1>6, <1>9 DEF SendInv
<1>11. \A r \in Ids : CountOf(r) \notin DOMAIN t2.writes
  BY <1>1, <1>2, <1>3, <1>4, <1>6, CellsDiffer DEF Wrote, CountInv
<1>12. PlaceInv(t2) /\ PublishInv(committed, t2) /\ CountInv(committed, t2)
  BY <1>5, <1>6, <1>11 DEF PlaceInv, PublishInv, CountInv, Deleting
<1>13. TxInv(committed, t2)
  BY <1>6, <1>8, <1>10, <1>12 DEF TxInv
<1>14. ASSUME ~cleaned PROVE TidyInv(committed, t2)
  <2>1. LastInv(committed, t)
    BY <1>14, OfSession
  <2>2. t.request.root # NoId
    BY DEF CountsNow
  <2>3. LastMessage \notin DOMAIN t2.writes
    BY <1>3, <1>4, <1>6, <2>1, <2>2, CellsDiffer DEF Wrote, LastInv
  <2> QED
    BY <1>5, <1>6, <2>3 DEF TidyInv, LastInv
<1>15. ASSUME NEW o \in Sessions \ {s} PROVE Apart(t2, tx[o])
  <2>1. Apart(t, tx[o])
    BY OfSession
  <2> QED
    BY <1>1, <1>3, <1>5, <1>6, <2>1 DEF Apart
<1> QED
  BY <1>6, <1>13, <1>14, <1>15, Stays

\* A row shows in the main timeline what it did, unless it was published as a
\* message of the timeline, or deleted.
LEMMA SameShown ==
    ASSUME NEW db, NEW t, RowsInv(db, t), DeletedInv(db, t), NEW i \in Ids, ~Brings(t, i),
           t.kind = "publish" /\ i = t.id => db[RowOf(i)].request.root # NoId,
           t.kind \in {"delete", "recall"} => i \notin t.targets
    PROVE  VisibleTop(RowAt(db, t, i)) = VisibleTop(db[RowOf(i)])
<1>1. CASE RowOf(i) \in DOMAIN t.writes
  <2> DEFINE r == db[RowOf(i)]
             w == t.writes[RowOf(i)]
  <2>1. RowAt(db, t, i) = w
    BY <1>1 DEF RowAt, Val
  <2>2. w.request = r.request /\ w.deleted = r.deleted
    BY <1>1 DEF RowsInv, DeletedInv, Kept
  <2>3. w.published # r.published => t.kind = "publish" /\ i = t.id
    BY <1>1 DEF RowsInv
  <2> HIDE DEF r, w
  <2>4. VisibleTop(w) = VisibleTop(r)
    <3>1. CASE w.published = r.published
      BY <2>2, <3>1 DEF VisibleTop, Visible, IsReply
    <3>2. CASE w.published # r.published
      <4>1. r.request.root # NoId
        BY <2>3, <3>2 DEF r
      <4> QED
        BY <2>2, <4>1 DEF VisibleTop, Visible, IsReply
    <3> QED
      BY <3>1, <3>2
  <2> QED
    BY <2>1, <2>4 DEF r, w
<1>2. CASE RowOf(i) \notin DOMAIN t.writes
  BY <1>2 DEF RowAt, Val
<1> QED
  BY <1>1, <1>2

\* A send that shows nothing in the main timeline leaves it as it is.
LEMMA SendShows ==
    ASSUME NEW db, NEW t, SendInv(db, t), RowsInv(db, t), DeletedInv(db, t),
           t.kind = "send", t.pc # "insert",
           ~(Publishes(t.request) /\ t.request.root = NoId), LastNamed(db)
    PROVE  Names(db, t, db[LastMessage])
<1> SUFFICES ASSUME NEW i \in Ids
             PROVE  VisibleTop(RowAt(db, t, i)) = VisibleTop(db[RowOf(i)])
  BY SameNames
<1>1. CASE Brings(t, i)
  <2>1. RowAt(db, t, i) = Row(t.request, Publishes(t.request)) /\ db[RowOf(i)] = NoRow
    BY <1>1 DEF SendInv, Brings, RowAt, Val
  <2>2. ~VisibleTop(Row(t.request, Publishes(t.request)))
    BY DEF VisibleTop, Visible, IsReply, Row
  <2>3. ~VisibleTop(NoRow)
    BY DEF VisibleTop, Visible, IsReply, Row, NoRow
  <2>4. VisibleTop(Row(t.request, Publishes(t.request))) = FALSE /\ VisibleTop(NoRow) = FALSE
    BY <2>2, <2>3 DEF VisibleTop
  <2> QED
    BY <2>1, <2>4
<1>2. CASE ~Brings(t, i)
  BY <1>2, SameShown
<1> QED
  BY <1>1, <1>2

\* A message that is not counted is there when it is marked as read.
LEMMA MarkEndsStep ==
    ASSUME StoreInv, NEW s \in Sessions, Mark(s), ~CountsNow(tx[s].request)
    PROVE  StoreInv' /\ Effect
<1> PICK t : t = tx[s]
  OBVIOUS
<1> DEFINE cell == ReaderOf(t.user, t.request.root)
           new == Cell(cell, ReadUpTo(Val(committed, t, cell), t.id))
<1>1. t.pc = "mark" /\ Finish(s, new)
  <2>1. View(s, cell) = Val(committed, t, cell)
    BY Views
  <2> QED
    BY <2>1, Zenon DEF Mark, At
<1>2. /\ DbInv(committed) /\ TxInv(committed, t) /\ TxShape(t) /\ Fits(t.writes)
      /\ RowInvs(committed, t) /\ SendInv(committed, t) /\ ReadersInv(committed, t)
      /\ CountInv(committed, t)
  BY OfSession DEF TxInv
<1>3. t.kind = "send" /\ t.id \in Ids /\ t.request \in Requests
  BY <1>1, <1>2, AtInsert
<1>4. /\ Fits(new) /\ EditsReaders(committed, t, new)
      /\ \A c : c \in DOMAIN new <=> c = cell
  <2>1. t.user \in Users /\ t.request.root \in Scopes
    BY <1>2, <1>3, TxFields, RequestType
  <2> QED
    BY <1>2, <1>3, <2>1, ReadEdits
<1> HIDE DEF new
<1>5. PICK w :
        /\ tx' = [tx EXCEPT ![s] = Idle] /\ cleaned' = cleaned
        /\ committed' = Over(w.writes, committed)
        /\ answered' = IF t.kind = "send"
                       THEN answered \cup {[id |-> t.id, request |-> t.request]}
                       ELSE answered
        /\ After(committed, t, new, w) /\ w.pc = t.pc
        /\ \A o \in Sessions \ {s} : Apart(w, tx[o])
  BY <1>1, <1>4, Finishes
<1>6. /\ w.kind = "send" /\ w.pc = "mark" /\ w.id = t.id /\ w.request = t.request
      /\ Wrote(committed, t, new, w.writes) /\ Fits(w.writes)
  BY <1>1, <1>3, <1>5 DEF After
<1>7. RowInvs(committed, w) /\ ReadersInv(committed, w)
  <2>2. \A i \in Ids : RowOf(i) \notin DOMAIN new
    BY <1>4, CellsDiffer
  <2> QED
    BY <1>1, <1>2, <1>4, <1>5, <2>2, AfterQuiet
<1>8. /\ RowOf(t.id) \in DOMAIN w.writes /\ w.writes[RowOf(t.id)] = t.writes[RowOf(t.id)]
      /\ LastMessage \in DOMAIN w.writes <=> LastMessage \in DOMAIN t.writes
      /\ LastMessage \in DOMAIN t.writes => w.writes[LastMessage] = t.writes[LastMessage]
  BY <1>1, <1>2, <1>3, <1>4, <1>6, CellsDiffer DEF Wrote, SendInv
<1>9. SendInv(committed, w)
  BY <1>1, <1>2, <1>3, <1>6, <1>8 DEF SendInv
<1>10. \A r \in Ids : CountOf(r) \notin DOMAIN w.writes
  BY <1>1, <1>2, <1>3, <1>4, <1>6, CellsDiffer DEF Wrote, CountInv
<1>11. Commits(committed, w) /\ PublishInv(committed, w)
  BY <1>6, <1>7, <1>9 DEF Commits, PublishInv, RowInvs
<1>12. Counted(committed, w)
  BY <1>6, <1>7, <1>10 DEF Counted, RowInvs, FlagsInv
<1>13. ASSUME ~cleaned
       PROVE  /\ Names(committed, w, Val(committed, w, LastMessage))
              /\ LastMessage \in DOMAIN w.writes => Revision \in DOMAIN w.writes
  <2>1. LastInv(committed, t) /\ LastNamed(committed)
    BY <1>13, OfSession
  <2>2. LastMessage \in DOMAIN w.writes => Revision \in DOMAIN w.writes
    BY <1>6, <1>8, <2>1 DEF LastInv, Wrote
  <2>3. CASE Publishes(t.request) /\ t.request.root = NoId
    <3>1. Val(committed, w, LastMessage) = t.id
      BY <1>1, <1>2, <1>3, <1>8, <2>3 DEF SendInv, Val
    <3>2. RowAt(committed, w, t.id) = Row(t.request, Publishes(t.request))
      BY <1>6, <1>8, <1>9 DEF SendInv, RowAt, Val
    <3>3. VisibleTop(Row(t.request, Publishes(t.request)))
      BY <2>3 DEF VisibleTop, Visible, IsReply, Row
    <3> QED
      BY <1>3, <2>2, <3>1, <3>2, <3>3, IdNumbers DEF Names
  <2>4. CASE ~(Publishes(t.request) /\ t.request.root = NoId)
    <3>1. LastMessage \notin DOMAIN w.writes
      BY <1>3, <1>8, <2>1, <2>4 DEF LastInv
    <3>2. Val(committed, w, LastMessage) = committed[LastMessage]
      BY <3>1 DEF Val
    <3>3. Names(committed, w, committed[LastMessage])
      BY <1>6, <1>7, <1>9, <2>1, <2>4, SendShows DEF RowInvs
    <3> QED
      BY <2>2, <3>2, <3>3
  <2> QED
    BY <2>3, <2>4
<1>14. TargetsInv(committed, w) /\ DeletedInv(committed, w)
  BY <1>7 DEF RowInvs
<1>15. answered' = IF w.kind = "send"
                   THEN answered \cup {[id |-> w.id, request |-> w.request]} ELSE answered
  BY <1>3, <1>5, <1>6
<1> QED
  BY <1>5, <1>7, <1>11, <1>12, <1>13, <1>14, <1>15, Ends

-----------------------------------------------------------------------------
(* Counting, reading and publishing.                                       *)

\* Who counts or flags brings a reply, and its root is there.
LEMMA AtCount ==
    ASSUME NEW db, NEW t, DbInv(db), TxInv(db, t), t.pc \in {"count", "flag"}
    PROVE  /\ t.kind \in {"send", "publish"} /\ t.id \in Ids
           /\ RowOf(t.id) \in DOMAIN t.writes
           /\ RootAt(db, t) \in Ids /\ db[RowOf(RootAt(db, t))] # NoRow
           /\ ~Brings(t, RootAt(db, t))
           /\ t.kind = "send" => t.request.root = RootAt(db, t)
           /\ t.kind = "publish" => /\ db[RowOf(t.id)].request.root = RootAt(db, t)
                                    /\ t.writes[RowOf(t.id)].published
<1>1. t.kind \in {"send", "publish"}
  BY TxFields, IdleFits DEF TxInv, PlaceInv, Kinds
<1>2. t.id \in Ids /\ RowOf(t.id) \in DOMAIN t.writes
  BY <1>1 DEF TxInv, SendInv, PublishInv
<1>3. RootAt(db, t) = t.writes[RowOf(t.id)].request.root
  BY <1>2 DEF RootAt, RowAt, Val
<1>4. CASE t.kind = "send"
  <2>1. t.writes[RowOf(t.id)] = Row(t.request, Publishes(t.request)) /\ CountsNow(t.request)
    BY <1>4 DEF TxInv, SendInv
  <2>2. RootAt(db, t) = t.request.root /\ t.request.root # NoId /\ t.request \in Requests
    BY <1>3, <1>4, <2>1 DEF Row, CountsNow, TxInv, SendInv
  <2>3. RootAt(db, t) \in Ids /\ db[RowOf(RootAt(db, t))] # NoRow /\ db[RowOf(t.id)] = NoRow
    BY <1>4, <2>2, RequestType, IdNumbers DEF TxInv, SendInv
  <2>4. ~Brings(t, RootAt(db, t))
    BY <2>3 DEF Brings
  <2> QED
    BY <1>2, <1>4, <2>2, <2>3, <2>4
<1>5. CASE t.kind = "publish"
  <2>1. /\ db[RowOf(t.id)] # NoRow /\ db[RowOf(t.id)].request.root # NoId
        /\ t.writes[RowOf(t.id)].published
    BY <1>5 DEF TxInv, PublishInv
  <2>2. ~Brings(t, t.id)
    BY <1>5 DEF Brings
  <2>3. t.writes[RowOf(t.id)].request = db[RowOf(t.id)].request
    BY <1>2, <2>2 DEF TxInv, RowInvs, RowsInv, Kept
  <2>4. RootAt(db, t) \in StoredIn(db)
    BY <1>2, <1>3, <2>1, <2>3 DEF DbInv, StoredIn
  <2>5. ~Brings(t, RootAt(db, t))
    BY <1>5 DEF Brings
  <2> QED
    BY <1>2, <1>3, <1>5, <2>1, <2>3, <2>4, <2>5 DEF StoredIn
<1> QED
  BY <1>1, <1>4, <1>5

\* Counting a reply keeps the invariant: no one else has written the count.
LEMMA CountStep ==
    ASSUME StoreInv, NEW s \in Sessions, Count(s)
    PROVE  StoreInv' /\ Effect
<1> PICK t : t = tx[s]
  OBVIOUS
<1> PICK root : root = RootAt(committed, t)
  OBVIOUS
<1> DEFINE n == Val(committed, t, CountOf(root)) + 1
           new == Cell(CountOf(root), n)
           u == [t EXCEPT !.pc = "flag"]
<1>1. t.pc = "count" /\ Write(s, new, u)
  <2>1. /\ View(s, CountOf(root)) = Val(committed, t, CountOf(root))
        /\ RowIn(s, tx[s].id).request.root = root
    BY Views DEF RootAt
  <2> QED
    BY <2>1, Zenon DEF Count, At
<1>2. /\ DbInv(committed) /\ TxInv(committed, t) /\ TxShape(t) /\ Fits(t.writes)
      /\ RowInvs(committed, t) /\ SendInv(committed, t) /\ ReadersInv(committed, t)
      /\ CountInv(committed, t) /\ PublishInv(committed, t)
  BY OfSession DEF TxInv
<1>3. /\ t.kind \in {"send", "publish"} /\ t.id \in Ids /\ RowOf(t.id) \in DOMAIN t.writes
      /\ root \in Ids
  BY <1>1, <1>2, AtCount
<1>4. n \in Nat /\ n = committed[CountOf(root)] + 1
  <2>1. CountOf(root) \notin DOMAIN t.writes
    BY <1>1, <1>2, <1>3 DEF CountInv
  <2>2. committed[CountOf(root)] \in Nat
    BY <1>2, <1>3, ValFits DEF DbInv
  <2> QED
    BY <2>1, <2>2 DEF Val
<1> HIDE DEF n
<1>5. DOMAIN new = {CountOf(root)} /\ new[CountOf(root)] = n /\ Fits(new)
  <2>1. DOMAIN new = {CountOf(root)} /\ new[CountOf(root)] = n
    BY DEF Cell
  <2>2. Fits(new)
    BY <1>3, <1>4, FitsCell
  <2> QED
    BY <2>1, <2>2
<1>6. /\ TxShape(u) /\ u.kind = t.kind /\ u.id = t.id /\ u.request = t.request
      /\ u.user = t.user /\ u.targets = t.targets /\ u.pc = "flag"
  BY <1>2 DEF TxShape, Places
<1> HIDE DEF u, new
<1>7. PICK t2 :
        /\ tx' = [tx EXCEPT ![s] = t2] /\ committed' = committed /\ cleaned' = cleaned
        /\ answered' = answered
        /\ TxShape(t2) /\ Fits(t2.writes) /\ Wrote(committed, t, new, t2.writes)
        /\ t2.kind = u.kind /\ t2.pc = u.pc /\ t2.id = u.id /\ t2.request = u.request
        /\ t2.user = u.user /\ t2.targets = u.targets
        /\ \A o \in Sessions \ {s} : DOMAIN t2.writes \cap DOMAIN tx[o].writes = {}
  BY <1>1, <1>5, <1>6, Writes
<1>8. After(committed, t, new, t2)
  BY <1>6, <1>7 DEF After
<1>9. /\ RowInvs(committed, t2) /\ ReadersInv(committed, t2)
      /\ \A i \in Ids : RowAt(committed, t2, i) = RowAt(committed, t, i)
  <2>1. EditsReaders(committed, t, new)
    BY <1>5, CellsDiffer DEF EditsReaders
  <2>2. \A i \in Ids : RowOf(i) \notin DOMAIN new
    BY <1>5, CellsDiffer
  <2> QED
    BY <1>1, <1>2, <1>5, <1>8, <2>1, <2>2, AfterQuiet
<1>10. RowOf(t.id) \in DOMAIN t2.writes /\ t2.writes[RowOf(t.id)] = t.writes[RowOf(t.id)]
  BY <1>3, <1>5, <1>7, CellsDiffer DEF Wrote
<1>11. SendInv(committed, t2) /\ PublishInv(committed, t2)
  BY <1>1, <1>2, <1>6, <1>7, <1>10 DEF SendInv, PublishInv
<1>12. CountInv(committed, t2)
  <2>1. RootAt(committed, t2) = root
    BY <1>3, <1>6, <1>7, <1>9 DEF RootAt
  <2>2. CountOf(root) \in DOMAIN t2.writes /\ t2.writes[CountOf(root)] = n
    BY <1>5, <1>7 DEF Wrote
  <2>3. \A r \in Ids : CountOf(r) \in DOMAIN t2.writes => r = root
    BY <1>1, <1>2, <1>3, <1>5, <1>7, CellsDiffer DEF Wrote, CountInv
  <2> QED
    BY <1>3, <1>4, <1>6, <1>7, <2>1, <2>2, <2>3 DEF CountInv, Deleting
<1>13. PlaceInv(t2)
  BY <1>3, <1>6, <1>7 DEF PlaceInv
<1>14. TxInv(committed, t2)
  BY <1>7, <1>9, <1>11, <1>12, <1>13 DEF TxInv
<1>15. ASSUME ~cleaned PROVE TidyInv(committed, t2)
  <2>1. LastInv(committed, t)
    BY <1>15, OfSession
  <2>2. LastMessage \notin DOMAIN t2.writes
    BY <1>1, <1>5, <1>7, <2>1, CellsDiffer DEF Wrote, LastInv
  <2> QED
    BY <1>3, <1>6, <1>7, <2>2 DEF TidyInv, LastInv
<1>16. ASSUME NEW o \in Sessions \ {s} PROVE Apart(t2, tx[o])
  <2>1. Apart(t, tx[o])
    BY OfSession
  <2> QED
    BY <1>1, <1>3, <1>6, <1>7, <2>1 DEF Apart
<1> QED
  BY <1>7, <1>14, <1>15, <1>16, Stays

\* Flagging the root and committing keeps the invariant.
LEMMA FlagStep ==
    ASSUME StoreInv, NEW s \in Sessions, Flag(s)
    PROVE  StoreInv' /\ Effect
<1> PICK t : t = tx[s]
  OBVIOUS
<1> PICK root : root = RootAt(committed, t)
  OBVIOUS
<1> PICK r : r = RowAt(committed, t, root)
  OBVIOUS
<1> DEFINE v == [r EXCEPT !.has_thread = TRUE]
           new == Cell(RowOf(root), v)
<1>1. t.pc = "flag" /\ Finish(s, new)
  <2>1. RowIn(s, root) = r /\ RowIn(s, tx[s].id).request.root = root
    BY Views DEF RootAt
  <2> QED
    BY <2>1, Zenon DEF Flag, At
<1>2. /\ DbInv(committed) /\ TxInv(committed, t) /\ TxShape(t) /\ Fits(t.writes)
      /\ RowInvs(committed, t) /\ SendInv(committed, t) /\ ReadersInv(committed, t)
      /\ CountInv(committed, t) /\ PublishInv(committed, t)
  BY OfSession DEF TxInv
<1>3. /\ t.kind \in {"send", "publish"} /\ t.id \in Ids /\ RowOf(t.id) \in DOMAIN t.writes
      /\ root \in Ids /\ committed[RowOf(root)] # NoRow /\ ~Brings(t, root)
      /\ t.kind = "publish" => /\ committed[RowOf(t.id)].request.root = root
                               /\ t.writes[RowOf(t.id)].published
  BY <1>1, <1>2, AtCount
<1>4. r \in Rows /\ RowSound(root, r) /\ r # NoRow
  BY <1>2, <1>3, RowAtSound DEF RowInvs
<1>5. /\ v \in Rows /\ Kept(r, v) /\ v.request = r.request /\ v.published = r.published
      /\ v.deleted = r.deleted /\ v.has_thread
  <2>1. /\ v \in Rows /\ v.request = r.request /\ v.published = r.published
        /\ v.deleted = r.deleted /\ v.has_thread
    BY <1>4 DEF Rows
  <2> HIDE DEF v
  <2>2. Kept(r, v)
    BY <1>4, <2>1, KeptIs
  <2> QED
    BY <2>1, <2>2
<1> HIDE DEF v
<1>6. DOMAIN new = {RowOf(root)} /\ new[RowOf(root)] = v /\ Fits(new)
  <2>1. DOMAIN new = {RowOf(root)} /\ new[RowOf(root)] = v
    BY DEF Cell
  <2>2. Fits(new)
    BY <1>3, <1>5, FitsCell
  <2> QED
    BY <2>1, <2>2
<1> HIDE DEF new
<1>7. PICK w :
        /\ tx' = [tx EXCEPT ![s] = Idle] /\ cleaned' = cleaned
        /\ committed' = Over(w.writes, committed)
        /\ answered' = IF t.kind = "send"
                       THEN answered \cup {[id |-> t.id, request |-> t.request]}
                       ELSE answered
        /\ After(committed, t, new, w) /\ w.pc = t.pc
        /\ \A o \in Sessions \ {s} : Apart(w, tx[o])
  BY <1>1, <1>6, Finishes
<1>8. /\ w.kind = t.kind /\ w.pc = "flag" /\ w.id = t.id /\ w.request = t.request
      /\ w.targets = t.targets
      /\ Wrote(committed, t, new, w.writes) /\ Fits(w.writes)
  BY <1>1, <1>7 DEF After
<1>9. \A i \in Ids : RowOf(i) \in DOMAIN new => i = root
  BY <1>6, CellsDiffer
<1>10. Edits(committed, t, new) /\ EditsDeleted(committed, t, new)
       /\ EditsReaders(committed, t, new)
  BY <1>5, <1>6, <1>9, CellsDiffer DEF Edits, EditsDeleted, EditsReaders
<1>11. /\ RowsInv(committed, w) /\ RevisionInv(committed, w) /\ ReadersInv(committed, w)
       /\ DeletedInv(committed, w) /\ TargetsInv(committed, w)
       /\ \A c : Lost(committed, t, c) => Lost(committed, w, c)
  BY <1>1, <1>2, <1>3, <1>6, <1>7, <1>9, <1>10, AfterAll
<1>12. /\ \A i \in Ids : i # root =>
            /\ RowOf(i) \in DOMAIN w.writes <=> RowOf(i) \in DOMAIN t.writes
            /\ RowOf(i) \in DOMAIN t.writes => w.writes[RowOf(i)] = t.writes[RowOf(i)]
       /\ RowOf(root) \in DOMAIN w.writes /\ w.writes[RowOf(root)] = v
       /\ RowAt(committed, w, root) = v
       /\ \A i \in Ids : Brings(w, i) <=> Brings(t, i)
  BY <1>3, <1>6, <1>7, <1>9, AfterRows
<1>13. SendInv(committed, w)
  <2>1. t.kind = "send" => root # t.id
    BY <1>3 DEF Brings
  <2>2. t.kind = "send" => w.writes[RowOf(t.id)] = t.writes[RowOf(t.id)]
                           /\ RowOf(t.id) \in DOMAIN w.writes
    BY <1>3, <1>12, <2>1
  <2> QED
    BY <1>1, <1>2, <1>8, <2>2 DEF SendInv
<1>14. t.kind = "publish" => RowOf(t.id) \in DOMAIN w.writes /\ w.writes[RowOf(t.id)].published
  <2>1. CASE t.id = root
    <3>1. r = t.writes[RowOf(t.id)]
      BY <1>3, <2>1 DEF RowAt, Val
    <3> QED
      BY <1>3, <1>5, <1>12, <2>1, <3>1
  <2>2. CASE t.id # root
    BY <1>3, <1>12, <2>2
  <2> QED
    BY <2>1, <2>2
<1>15. PublishInv(committed, w)
  BY <1>1, <1>2, <1>8, <1>14 DEF PublishInv
<1>16. Commits(committed, w)
  BY <1>8, <1>11, <1>13 DEF Commits
<1>17. RootAt(committed, w) = root
  <2>1. CASE t.id = root
    <3>1. RowAt(committed, t, t.id).request.root = root
      BY DEF RootAt
    <3> QED
      BY <1>5, <1>8, <1>12, <2>1, <3>1 DEF RootAt
  <2>2. CASE t.id # root
    <3>1. RowAt(committed, w, t.id) = RowAt(committed, t, t.id)
      BY <1>3, <1>12, <2>2 DEF RowAt, Val
    <3> QED
      BY <1>8, <3>1 DEF RootAt
  <2> QED
    BY <2>1, <2>2
<1>18. Counted(committed, w)
  <2>1. \A i \in Ids : RowOf(i) \in DOMAIN w.writes /\ ~Brings(w, i) =>
            \/ w.writes[RowOf(i)].has_thread = committed[RowOf(i)].has_thread
            \/ Lost(committed, w, i)
            \/ i = root
    BY <1>2, <1>11, <1>12 DEF RowInvs, FlagsInv
  <2>2. \A c \in Ids : CountOf(c) # Revision /\ CountOf(c) \notin DOMAIN new
    BY <1>6, CellsDiffer
  <2>3. \A c \in Ids : CountOf(c) \in DOMAIN w.writes => c = root
    BY <1>2, <1>3, <1>8, <2>2 DEF Wrote, CountInv
  <2>4. /\ CountOf(root) \in DOMAIN w.writes
        /\ w.writes[CountOf(root)] = committed[CountOf(root)] + 1
    BY <1>1, <1>2, <1>3, <1>8, <2>2 DEF Wrote, CountInv
  <2>5. t.kind = "send" => CountsNow(t.request)
    BY <1>1, <1>2 DEF SendInv
  <2> QED
    BY <1>3, <1>5, <1>8, <1>12, <1>14, <1>17, <2>1, <2>3, <2>4, <2>5 DEF Counted
<1>19. ASSUME ~cleaned
       PROVE  /\ Names(committed, w, Val(committed, w, LastMessage))
              /\ LastMessage \in DOMAIN w.writes => Revision \in DOMAIN w.writes
  <2>1. LastInv(committed, t) /\ LastNamed(committed)
    BY <1>19, OfSession
  <2>2. LastMessage \notin DOMAIN w.writes
    BY <1>1, <1>6, <1>8, <2>1, CellsDiffer DEF Wrote, LastInv
  <2>3. Names(committed, w, committed[LastMessage])
    <3>1. CASE t.kind = "send"
      <4>1. CountsNow(w.request)
        BY <1>1, <1>2, <1>8, <3>1 DEF SendInv
      <4> QED
        BY <1>8, <1>11, <1>13, <2>1, <3>1, <4>1, SendShows DEF CountsNow
    <3>2. CASE t.kind = "publish"
      <4>1. committed[RowOf(t.id)].request.root # NoId
        BY <1>3, <3>2, IdNumbers
      <4>2. ASSUME NEW i \in Ids
            PROVE  VisibleTop(RowAt(committed, w, i)) = VisibleTop(committed[RowOf(i)])
        BY <1>8, <1>11, <3>2, <4>1, SameShown DEF Brings
      <4> QED
        BY <2>1, <4>2, SameNames
    <3> QED
      BY <1>3, <3>1, <3>2
  <2> QED
    BY <2>2, <2>3 DEF Val
<1>20. answered' = IF w.kind = "send"
                   THEN answered \cup {[id |-> w.id, request |-> w.request]} ELSE answered
  BY <1>7, <1>8
<1> QED
  BY <1>7, <1>11, <1>15, <1>16, <1>18, <1>19, <1>20, Ends

\* Reading keeps the invariant.
LEMMA MarkReadStep ==
    ASSUME StoreInv, NEW s \in Sessions, MarkRead(s)
    PROVE  StoreInv' /\ Effect
<1> PICK t : t = tx[s]
  OBVIOUS
<1>1. PICK u \in Users, i \in Ids :
          LET r    == committed[RowOf(i)]
              cell == ReaderOf(u, r.request.root)
          IN  /\ At(s, "idle")
              /\ r.published
              /\ Finish(s, Cell(cell, ReadUpTo(committed[cell], i)))
  BY Zenon DEF MarkRead
<1> PICK p : p = committed[RowOf(i)].request.root
  OBVIOUS
<1>2. /\ DbInv(committed) /\ TxInv(committed, t) /\ TxShape(t) /\ Fits(t.writes)
      /\ RowInvs(committed, t) /\ ReadersInv(committed, t)
  BY OfSession DEF TxInv
<1>3. t = Idle /\ t.pc = "idle"
  BY <1>1, OfSession DEF At, PlaceInv
<1>4. p \in Scopes
  BY <1>2, ValFits, RowFields DEF DbInv
<1> DEFINE new == Cell(ReaderOf(u, p), ReadUpTo(Val(committed, t, ReaderOf(u, p)), i))
<1>5. Finish(s, new)
  <2>1. Val(committed, t, ReaderOf(u, p)) = committed[ReaderOf(u, p)]
    BY <1>3, IdleReads
  <2> QED
    BY <1>1, <2>1, Zenon
<1>6. /\ Fits(new) /\ EditsReaders(committed, t, new)
      /\ \A c : c \in DOMAIN new <=> c = ReaderOf(u, p)
  BY <1>2, <1>4, ReadEdits
<1> HIDE DEF new
<1>7. PICK w :
        /\ tx' = [tx EXCEPT ![s] = Idle] /\ cleaned' = cleaned
        /\ committed' = Over(w.writes, committed)
        /\ answered' = IF t.kind = "send"
                       THEN answered \cup {[id |-> t.id, request |-> t.request]}
                       ELSE answered
        /\ After(committed, t, new, w) /\ w.pc = t.pc
        /\ \A o \in Sessions \ {s} : Apart(w, tx[o])
  BY <1>5, <1>6, Finishes
<1>8. /\ w.kind = "none" /\ w.pc = "idle"
      /\ Wrote(committed, t, new, w.writes) /\ Fits(w.writes)
  BY <1>3, <1>7, IdleFits DEF After
<1>9. \A i2 \in Ids : RowOf(i2) \notin DOMAIN new /\ CountOf(i2) \notin DOMAIN new
  BY <1>6, CellsDiffer
<1>10. /\ RowInvs(committed, w) /\ ReadersInv(committed, w)
       /\ \A i2 \in Ids : RowAt(committed, w, i2) = RowAt(committed, t, i2)
       /\ \A last : Names(committed, w, last) <=> Names(committed, t, last)
  BY <1>2, <1>3, <1>6, <1>7, <1>9, AfterQuiet
<1>11. \A r \in Ids : CountOf(r) \notin DOMAIN w.writes
  BY <1>3, <1>8, <1>9, IdleFits, Writing, CellsDiffer DEF Wrote
<1>12. Commits(committed, w) /\ PublishInv(committed, w)
  BY <1>8, <1>10 DEF Commits, PublishInv, RowInvs, SendInv
<1>13. Counted(committed, w)
  BY <1>8, <1>10, <1>11 DEF Counted, RowInvs, FlagsInv
<1>14. ASSUME ~cleaned
       PROVE  /\ Names(committed, w, Val(committed, w, LastMessage))
              /\ LastMessage \in DOMAIN w.writes => Revision \in DOMAIN w.writes
  <2>1. LastMessage \notin DOMAIN w.writes
    BY <1>3, <1>6, <1>8, IdleFits, Writing, CellsDiffer DEF Wrote
  <2>2. Names(committed, w, committed[LastMessage])
    BY <1>3, <1>10, <1>14, OfSession DEF LastNamed
  <2> QED
    BY <2>1, <2>2 DEF Val
<1>15. answered' = IF w.kind = "send"
                   THEN answered \cup {[id |-> w.id, request |-> w.request]} ELSE answered
  BY <1>3, <1>7, <1>8, IdleFits
<1>16. TargetsInv(committed, w) /\ DeletedInv(committed, w)
  BY <1>10 DEF RowInvs
<1> QED
  BY <1>7, <1>10, <1>12, <1>13, <1>14, <1>15, <1>16, Ends

\* Finding a message that waits for publication keeps the invariant.
LEMMA BeginPublishStep ==
    ASSUME StoreInv, NEW s \in Sessions, BeginPublish(s)
    PROVE  StoreInv' /\ Effect
<1>1. PICK i \in Ids :
        LET r == committed[RowOf(i)] IN
        /\ r # NoRow /\ r.request.audio /\ ~r.published /\ ~r.deleted
        /\ \A o \in Sessions : tx[o].kind # "publish"
        /\ Open(s, [Idle EXCEPT !.kind = "publish", !.pc = "publish", !.id = i])
  BY Zenon DEF BeginPublish
<1> DEFINE t2 == [Idle EXCEPT !.kind = "publish", !.pc = "publish", !.id = i]
<1>2. /\ t2.kind = "publish" /\ t2.pc = "publish" /\ t2.id = i /\ t2.writes = Nothing
      /\ TxShape(t2)
  <2>1. i \in Scopes
    BY IdNumbers
  <2> QED
    BY <2>1, IdleFits DEF TxShape, Kinds, Places
<1>3. /\ tx' = [tx EXCEPT ![s] = t2] /\ committed' = committed /\ cleaned' = cleaned
      /\ answered' = answered
  BY <1>1 DEF Open
<1> HIDE DEF t2
<1>4. TxInv(committed, t2)
  <2>1. PlaceInv(t2) /\ SendInv(committed, t2) /\ PublishInv(committed, t2)
    BY <1>1, <1>2 DEF PlaceInv, SendInv, PublishInv
  <2>2. /\ RowsInv(committed, t2) /\ DeletedInv(committed, t2) /\ FlagsInv(committed, t2)
        /\ RevisionInv(committed, t2) /\ ReadersInv(committed, t2) /\ Fits(t2.writes)
        /\ DOMAIN t2.writes = {}
    BY <1>2, FreshInv
  <2>3. TargetsInv(committed, t2) /\ CountInv(committed, t2)
    BY <1>2, <2>2 DEF TargetsInv, CountInv, Deleting
  <2> QED
    BY <1>2, <2>1, <2>2, <2>3 DEF TxInv, RowInvs
<1>5. TidyInv(committed, t2)
  BY <1>2, FreshInv DEF TidyInv, LastInv
<1>6. ASSUME NEW o \in Sessions \ {s} PROVE Apart(t2, tx[o])
  BY <1>1, <1>2, FreshInv DEF Apart
<1> QED
  BY <1>3, <1>4, <1>5, <1>6, Stays

\* Publishing a message keeps the invariant.
LEMMA PublishStep ==
    ASSUME StoreInv, NEW s \in Sessions, Publish(s)
    PROVE  StoreInv' /\ Effect
<1> PICK t : t = tx[s]
  OBVIOUS
<1> PICK i : i = t.id
  OBVIOUS
<1> PICK r : r = committed[RowOf(i)]
  OBVIOUS
<1> DEFINE v == [r EXCEPT !.published = TRUE]
           new == Cell(RowOf(i), v)
           u == [t EXCEPT !.pc = IF IsReply(r) THEN "count" ELSE "newest"]
<1>1. t.pc = "publish"
  BY DEF Publish, At
<1>2. /\ DbInv(committed) /\ TxInv(committed, t) /\ TxShape(t) /\ Fits(t.writes)
      /\ RowInvs(committed, t) /\ PublishInv(committed, t) /\ ReadersInv(committed, t)
  BY OfSession DEF TxInv
<1>3. t.kind = "publish" /\ t.writes = Nothing
  BY <1>1, <1>2, TxFields, IdleFits DEF TxInv, PlaceInv, Kinds
<1>4. i \in Ids /\ r # NoRow /\ ~r.published
  BY <1>2, <1>3 DEF PublishInv
<1>5. /\ DOMAIN t.writes = {}
      /\ \A c : Val(committed, t, c) = committed[c]
      /\ \A j : RowAt(committed, t, j) = committed[RowOf(j)]
  BY <1>3, FreshInv
<1>6. Write(s, new, u)
  <2>1. RowIn(s, tx[s].id) = r
    BY <1>5, Views
  <2> QED
    BY <2>1, Zenon DEF Publish, At
<1>7. r \in Rows /\ RowSound(i, r)
  BY <1>2, <1>4, ValFits DEF DbInv
<1>8. /\ v \in Rows /\ v.request = r.request /\ v.published /\ v.deleted = r.deleted
      /\ v.has_thread = r.has_thread /\ Kept(r, v)
  <2>1. /\ v \in Rows /\ v.request = r.request /\ v.published /\ v.deleted = r.deleted
        /\ v.has_thread = r.has_thread
    BY <1>7 DEF Rows
  <2> HIDE DEF v
  <2>2. Kept(r, v)
    BY <1>4, <1>7, <2>1, KeptIs
  <2> QED
    BY <2>1, <2>2
<1> HIDE DEF v
<1>9. DOMAIN new = {RowOf(i)} /\ new[RowOf(i)] = v /\ Fits(new)
  <2>1. DOMAIN new = {RowOf(i)} /\ new[RowOf(i)] = v
    BY DEF Cell
  <2>2. Fits(new)
    BY <1>4, <1>8, FitsCell
  <2> QED
    BY <2>1, <2>2
<1>10. /\ TxShape(u) /\ u.kind = "publish" /\ u.id = i /\ u.request = t.request
       /\ u.user = t.user /\ u.targets = t.targets
       /\ u.pc = IF IsReply(r) THEN "count" ELSE "newest"
  BY <1>2, <1>3 DEF TxShape, Places
<1> HIDE DEF u, new
<1>11. PICK t2 :
        /\ tx' = [tx EXCEPT ![s] = t2] /\ committed' = committed /\ cleaned' = cleaned
        /\ answered' = answered
        /\ TxShape(t2) /\ Fits(t2.writes) /\ Wrote(committed, t, new, t2.writes)
        /\ t2.kind = u.kind /\ t2.pc = u.pc /\ t2.id = u.id /\ t2.request = u.request
        /\ t2.user = u.user /\ t2.targets = u.targets
        /\ \A o \in Sessions \ {s} : DOMAIN t2.writes \cap DOMAIN tx[o].writes = {}
  BY <1>6, <1>9, <1>10, Writes
<1>12. After(committed, t, new, t2)
  BY <1>3, <1>10, <1>11 DEF After
<1>13. \A j \in Ids : RowOf(j) \in DOMAIN new => j = i
  BY <1>9, CellsDiffer
<1>14. Edits(committed, t, new) /\ EditsDeleted(committed, t, new)
       /\ EditsFlags(committed, t, new) /\ EditsReaders(committed, t, new)
  BY <1>3, <1>5, <1>8, <1>9, <1>13, CellsDiffer
     DEF Edits, EditsDeleted, EditsFlags, EditsReaders
<1>15. RowInvs(committed, t2) /\ ReadersInv(committed, t2)
  <2>1. \A j \in Ids : ~Brings(t, j)
    BY <1>3 DEF Brings
  <2>2. /\ RowsInv(committed, t2) /\ RevisionInv(committed, t2) /\ ReadersInv(committed, t2)
        /\ DeletedInv(committed, t2) /\ FlagsInv(committed, t2) /\ TargetsInv(committed, t2)
    BY <1>1, <1>2, <1>9, <1>12, <1>14, <2>1, AfterAll
  <2> QED
    BY <2>2 DEF RowInvs
<1>16. RowOf(i) \in DOMAIN t2.writes /\ t2.writes[RowOf(i)] = v
  BY <1>9, <1>11 DEF Wrote
<1>17. PublishInv(committed, t2)
  <2>1. IsReply(r) <=> r.request.root # NoId
    BY DEF IsReply
  <2> QED
    BY <1>4, <1>8, <1>10, <1>11, <1>16, <2>1 DEF PublishInv
<1>18. LastMessage \notin DOMAIN t2.writes /\ \A c \in Ids : CountOf(c) \notin DOMAIN t2.writes
  BY <1>5, <1>9, <1>11, CellsDiffer DEF Wrote
<1>19. PlaceInv(t2) /\ SendInv(committed, t2) /\ CountInv(committed, t2)
  BY <1>10, <1>11, <1>18 DEF PlaceInv, SendInv, CountInv, Deleting
<1>20. TxInv(committed, t2)
  BY <1>11, <1>15, <1>17, <1>19 DEF TxInv
<1>21. ASSUME ~cleaned PROVE TidyInv(committed, t2)
  <2>1. ~r.deleted
    BY <1>4, <1>21, OfSession DEF PendingStay
  <2>2. ASSUME ~IsReply(r) PROVE Revision \in DOMAIN t2.writes
    <3>1. VisibleTop(v) /\ ~VisibleTop(r)
      BY <1>4, <1>8, <2>1, <2>2 DEF VisibleTop, Visible, IsReply
    <3> QED
      BY <1>4, <1>15, <1>16, <3>1 DEF RowInvs, RevisionInv
  <2> QED
    BY <1>10, <1>11, <1>18, <2>2 DEF TidyInv, LastInv
<1>22. ASSUME NEW o \in Sessions \ {s} PROVE Apart(t2, tx[o])
  <2>1. Apart(t, tx[o])
    BY OfSession
  <2> QED
    BY <1>3, <1>10, <1>11, <2>1 DEF Apart
<1> QED
  BY <1>11, <1>20, <1>21, <1>22, Stays

-----------------------------------------------------------------------------
(* Deletions.                                                              *)

\* As Deleted, in a transaction that has written nothing.
DeletedRows(db, ids) ==
    [c \in {RowOf(i) : i \in ids} |-> [db[c] EXCEPT !.deleted = TRUE]]

\* As SoftDeleted, likewise.
SoftDeletedRows(db, ids) ==
    [c \in {RowOf(i) : i \in ids} |-> [db[c] EXCEPT !.deleted = TRUE, !.attached = FALSE]]

\* As RootsOf.
RootsIn(db, ids) == {db[RowOf(i)].request.root : i \in ids} \ {NoId}

\* Deleting rows that are there, before anything else is written.
LEMMA Deletes ==
    ASSUME NEW db, NEW t, DbInv(db), t.writes = Nothing, t.kind # "send",
           NEW ids \in SUBSET Ids, \A i \in ids : db[RowOf(i)] # NoRow,
           NEW new, new \in {DeletedRows(db, ids), SoftDeletedRows(db, ids)}
    PROVE  /\ Fits(new) /\ Edits(db, t, new) /\ EditsFlags(db, t, new)
           /\ EditsReaders(db, t, new)
           /\ \A i \in Ids : RowOf(i) \in DOMAIN new <=> i \in ids
           /\ \A i \in ids : new[RowOf(i)].deleted
                             /\ new[RowOf(i)].request = db[RowOf(i)].request
           /\ \A c \in DOMAIN new : \E i \in ids : c = RowOf(i)
<1>1. /\ \A i \in Ids : RowOf(i) \in DOMAIN new <=> i \in ids
      /\ \A c \in DOMAIN new : \E i \in ids : c = RowOf(i)
  <2>1. DOMAIN new = {RowOf(i) : i \in ids}
    BY DEF DeletedRows, SoftDeletedRows
  <2> QED
    BY <2>1, CellsDiffer
<1>2. ASSUME NEW i \in ids
      PROVE  /\ new[RowOf(i)] \in Rows /\ new[RowOf(i)].deleted
             /\ Kept(db[RowOf(i)], new[RowOf(i)])
             /\ new[RowOf(i)].published = db[RowOf(i)].published
             /\ new[RowOf(i)].has_thread = db[RowOf(i)].has_thread
             /\ new[RowOf(i)].request = db[RowOf(i)].request
  <2> PICK r : r = db[RowOf(i)]
    OBVIOUS
  <2> PICK w : /\ new[RowOf(i)] = w
               /\ w \in {[r EXCEPT !.deleted = TRUE],
                         [r EXCEPT !.deleted = TRUE, !.attached = FALSE]}
    BY <1>1 DEF DeletedRows, SoftDeletedRows
  <2>1. new[RowOf(i)] = w
    OBVIOUS
  <2>2. r \in Rows /\ RowSound(i, r) /\ r # NoRow
    BY CellsAre DEF DbInv, Fits
  <2>3. /\ w \in Rows /\ w.deleted /\ w.published = r.published
        /\ w.has_thread = r.has_thread /\ w.request = r.request
    BY <2>2 DEF Rows
  <2>4. Kept(r, w)
    BY <2>2, <2>3, KeptIs
  <2> QED
    BY <2>1, <2>3, <2>4
<1>3. \A c \in DOMAIN new : c \in Cells
  BY <1>1, CellsAre
<1>4. Fits(new)
  <2>1. \A i \in Ids : CountOf(i) \notin DOMAIN new
    BY <1>1, CellsDiffer
  <2>2. \A u \in Users, p \in Scopes : ReaderOf(u, p) \notin DOMAIN new
    BY <1>1, CellsDiffer
  <2>3. LastMessage \notin DOMAIN new
    BY <1>1, CellsDiffer
  <2> QED
    BY <1>1, <1>2, <1>3, <2>1, <2>2, <2>3 DEF Fits
<1>5. \A i : RowAt(db, t, i) = db[RowOf(i)]
  BY FreshInv
<1>6. Edits(db, t, new) /\ EditsFlags(db, t, new)
  BY <1>1, <1>2, <1>5 DEF Edits, EditsFlags
<1>7. EditsReaders(db, t, new)
  BY <1>1, CellsDiffer DEF EditsReaders
<1> QED
  BY <1>1, <1>2, <1>4, <1>6, <1>7

\* The checks before a deletion keep the invariant.
LEMMA BeginDeleteStep ==
    ASSUME StoreInv, NEW s \in Sessions, BeginDelete(s)
    PROVE  StoreInv' /\ Effect
<1>1. PICK i \in Ids :
        /\ Visible(committed[RowOf(i)])
        /\ Open(s, [Idle EXCEPT !.kind = "delete", !.pc = "delete", !.targets = {i}])
  BY Zenon DEF BeginDelete
<1> DEFINE t2 == [Idle EXCEPT !.kind = "delete", !.pc = "delete", !.targets = {i}]
<1>2. /\ t2.kind = "delete" /\ t2.pc = "delete" /\ t2.targets = {i} /\ t2.writes = Nothing
      /\ t2.roots = {} /\ TxShape(t2)
  BY IdleFits DEF TxShape, Kinds, Places
<1>3. /\ tx' = [tx EXCEPT ![s] = t2] /\ committed' = committed /\ cleaned' = cleaned
      /\ answered' = answered
  BY <1>1 DEF Open
<1> HIDE DEF t2
<1>4. TxInv(committed, t2)
  <2>1. PlaceInv(t2) /\ SendInv(committed, t2) /\ PublishInv(committed, t2)
    BY <1>2 DEF PlaceInv, SendInv, PublishInv
  <2>2. /\ RowsInv(committed, t2) /\ DeletedInv(committed, t2) /\ FlagsInv(committed, t2)
        /\ RevisionInv(committed, t2) /\ ReadersInv(committed, t2) /\ Fits(t2.writes)
        /\ DOMAIN t2.writes = {}
    BY <1>2, FreshInv
  <2>3. TargetsInv(committed, t2) /\ CountInv(committed, t2)
    BY <1>1, <1>2, <2>2 DEF TargetsInv, CountInv, Visible
  <2> QED
    BY <1>2, <2>1, <2>2, <2>3 DEF TxInv, RowInvs
<1>5. TidyInv(committed, t2)
  BY <1>2, FreshInv DEF TidyInv, LastInv
<1>6. ASSUME NEW o \in Sessions \ {s} PROVE Apart(t2, tx[o])
  BY <1>2, FreshInv DEF Apart
<1> QED
  BY <1>3, <1>4, <1>5, <1>6, Stays

\* The deletion of the targets of t, which has written nothing: t2 is what it
\* has become.
LEMMA DeletesTargets ==
    ASSUME NEW db, NEW t, NEW t2, NEW new, NEW ids, DbInv(db), t.writes = Nothing,
           t.kind \in {"delete", "recall"}, ids = t.targets, t.targets \in SUBSET Ids,
           \A i \in ids : db[RowOf(i)].published,
           new \in {DeletedRows(db, ids), SoftDeletedRows(db, ids)},
           After(db, t, new, t2), TxShape(t2),
           t2.roots = RootsIn(db, ids),
           t2.pc \in {"recount", "hide", "peek"}, PlaceInv(t2)
    PROVE  TxInv(db, t2) /\ TidyInv(db, t2)
<1>1. ids \in SUBSET Ids /\ \A i \in ids : db[RowOf(i)] # NoRow
  BY RowType
<1>2. /\ Fits(new) /\ Edits(db, t, new) /\ EditsFlags(db, t, new)
      /\ EditsReaders(db, t, new)
      /\ \A i \in Ids : RowOf(i) \in DOMAIN new <=> i \in ids
      /\ \A i \in ids : new[RowOf(i)].deleted
                        /\ new[RowOf(i)].request = db[RowOf(i)].request
      /\ \A c \in DOMAIN new : \E i \in ids : c = RowOf(i)
  <2>1. t.kind # "send"
    OBVIOUS
  <2> QED
    BY <1>1, <2>1, Deletes
<1>3. /\ RowsInv(db, t) /\ DeletedInv(db, t) /\ FlagsInv(db, t) /\ RevisionInv(db, t)
      /\ ReadersInv(db, t) /\ Fits(t.writes) /\ DOMAIN t.writes = {}
  BY FreshInv
<1>4. EditsDeleted(db, t, new)
  BY <1>2 DEF EditsDeleted
<1>5. \A i \in Ids : ~Brings(t, i)
  BY DEF Brings
<1>6. RowsInv(db, t2) /\ RevisionInv(db, t2)
  BY <1>2, <1>3, AfterKept
<1>7. DeletedInv(db, t2)
  BY <1>3, <1>4, AfterDeleted
<1>8. FlagsInv(db, t2)
  <2>1. \A r : Lost(db, t, r) => Lost(db, t2, r)
    BY <1>2, <1>5, AfterLost
  <2> QED
    BY <1>2, <1>3, <2>1, AfterFlags
<1>9. ReadersInv(db, t2)
  BY <1>2, <1>3, AfterReaders
<1>10. \A i \in ids : /\ RowOf(i) \in DOMAIN t2.writes /\ t2.writes[RowOf(i)].deleted
                      /\ RowAt(db, t2, i).deleted
                      /\ RowAt(db, t2, i).request = db[RowOf(i)].request
  BY <1>1, <1>2, AfterRows
<1>11. t2.kind = t.kind /\ t2.targets = ids
  BY DEF After
<1>12. TargetsInv(db, t2)
  BY <1>10, <1>11 DEF TargetsInv
<1>13. ASSUME NEW r \in t2.roots PROVE Lost(db, t2, r)
  <2>1. PICK i \in ids : r = db[RowOf(i)].request.root
    BY DEF RootsIn
  <2> QED
    BY <1>1, <1>10, <2>1 DEF Lost
<1>14. LastMessage \notin DOMAIN t2.writes /\ \A c \in Ids : CountOf(c) \notin DOMAIN t2.writes
  BY <1>2, <1>3, CellsDiffer DEF After, Wrote
<1>15. CountInv(db, t2)
  BY <1>11, <1>13, <1>14 DEF CountInv
<1>16. SendInv(db, t2) /\ PublishInv(db, t2)
  BY <1>11 DEF SendInv, PublishInv
<1>17. TxInv(db, t2)
  BY <1>6, <1>7, <1>8, <1>9, <1>12, <1>15, <1>16 DEF TxInv, RowInvs, After
<1>18. TidyInv(db, t2)
  BY <1>11, <1>14 DEF TidyInv, LastInv
<1> QED
  BY <1>17, <1>18

\* Who has written nothing deletes what is committed.
LEMMA DeletesCommitted ==
    ASSUME NEW s \in Sessions, tx[s].writes = Nothing, NEW ids
    PROVE  /\ Deleted(s, ids) = DeletedRows(committed, ids)
           /\ SoftDeleted(s, ids) = SoftDeletedRows(committed, ids)
           /\ RootsOf(s, ids) = RootsIn(committed, ids)
           /\ \A i : RowIn(s, i) = committed[RowOf(i)]
<1>1. DOMAIN tx[s].writes = {}
  BY Writing
<1>2. \A c : View(s, c) = committed[c]
  BY <1>1 DEF View
<1>3. \A i : RowIn(s, i) = committed[RowOf(i)]
  BY <1>2 DEF RowIn
<1> QED
  BY <1>2, <1>3 DEF Deleted, DeletedRows, SoftDeleted, SoftDeletedRows, RootsOf, RootsIn

\* The roots of messages are messages.
LEMMA RootsType ==
    ASSUME NEW db, DbInv(db), NEW ids \in SUBSET Ids
    PROVE  RootsIn(db, ids) \in SUBSET Ids
<1>1. ASSUME NEW i \in ids, db[RowOf(i)].request.root # NoId
      PROVE  db[RowOf(i)].request.root \in Ids
  <2>1. db[RowOf(i)] \in Rows
    BY CellsAre DEF DbInv, Fits
  <2> QED
    BY <1>1, <2>1, RowFields, IdNumbers
<1> QED
  BY <1>1 DEF RootsIn

\* Deleting a single message keeps the invariant.
LEMMA DeleteStep ==
    ASSUME StoreInv, NEW s \in Sessions, Delete(s)
    PROVE  StoreInv' /\ Effect
<1> PICK t : t = tx[s]
  OBVIOUS
<1> PICK ids : ids = t.targets
  OBVIOUS
<1> PICK roots : roots = RootsIn(committed, ids)
  OBVIOUS
<1> PICK hidden : hidden = {i \in ids : ~RowIn(s, i).has_thread}
  OBVIOUS
<1> PICK new : new = DeletedRows(committed, ids)
  OBVIOUS
<1> DEFINE u == [t EXCEPT !.pc = IF roots = {} THEN "peek" ELSE "recount",
                          !.roots = roots, !.hidden = hidden]
<1>1. t.pc = "delete" /\ t.kind = "delete"
  BY DEF Delete, At
<1>2. /\ DbInv(committed) /\ TxInv(committed, t) /\ TxShape(t) /\ PlaceInv(t)
      /\ RowInvs(committed, t)
  BY OfSession DEF TxInv
<1>3. t.writes = Nothing
  BY <1>1, <1>2 DEF PlaceInv
<1>4. Write(s, new, u)
  <2>1. /\ Deleted(s, tx[s].targets) = new /\ RootsOf(s, tx[s].targets) = roots
    BY <1>3, DeletesCommitted
  <2> QED
    BY <2>1, Zenon DEF Delete
<1>5. ids \in SUBSET Ids /\ \A i \in ids : committed[RowOf(i)].published
  BY <1>1, <1>2, TxFields DEF RowInvs, TargetsInv
<1>6. Fits(new)
  BY <1>1, <1>2, <1>3, <1>5, RowType, Deletes
<1>7. /\ TxShape(u) /\ u.kind = "delete" /\ u.id = t.id /\ u.request = t.request
      /\ u.user = t.user /\ u.targets = ids /\ u.roots = roots
      /\ u.pc = IF roots = {} THEN "peek" ELSE "recount"
  <2>1. roots \in SUBSET Ids /\ hidden \in SUBSET Ids
    BY <1>2, <1>5, RootsType
  <2> QED
    BY <1>1, <1>2, <2>1 DEF TxShape, Places
<1> HIDE DEF u
<1>8. PICK t2 :
        /\ tx' = [tx EXCEPT ![s] = t2] /\ committed' = committed /\ cleaned' = cleaned
        /\ answered' = answered
        /\ TxShape(t2) /\ Fits(t2.writes) /\ Wrote(committed, t, new, t2.writes)
        /\ t2.kind = u.kind /\ t2.pc = u.pc /\ t2.id = u.id /\ t2.request = u.request
        /\ t2.user = u.user /\ t2.targets = u.targets /\ t2.roots = u.roots
        /\ \A o \in Sessions \ {s} : DOMAIN t2.writes \cap DOMAIN tx[o].writes = {}
  BY <1>4, <1>6, <1>7, Writes
<1>9. After(committed, t, new, t2)
  BY <1>1, <1>7, <1>8 DEF After
<1>10. PlaceInv(t2)
  BY <1>7, <1>8 DEF PlaceInv
<1>11. TxInv(committed, t2) /\ TidyInv(committed, t2)
  BY <1>1, <1>2, <1>3, <1>5, <1>7, <1>8, <1>9, <1>10, DeletesTargets
<1>12. ASSUME NEW o \in Sessions \ {s} PROVE Apart(t2, tx[o])
  BY <1>7, <1>8 DEF Apart
<1> QED
  BY <1>8, <1>11, <1>12, Stays

\* Deleting a selection keeps the invariant.
LEMMA RecallStep ==
    ASSUME StoreInv, NEW s \in Sessions, Recall(s)
    PROVE  StoreInv' /\ Effect
<1>1. PICK ids \in SUBSET Ids :
        LET roots == RootsOf(s, ids) IN
        /\ At(s, "idle")
        /\ ids # {} /\ Cardinality(ids) <= MaxRecall
        /\ \A i \in ids : RowIn(s, i).published
        /\ Lockable(s, ids)
        /\ Write(s, SoftDeleted(s, ids),
                 [Idle EXCEPT !.kind = "recall", !.targets = ids, !.roots = roots,
                              !.pc = IF roots = {} THEN "hide" ELSE "recount"])
  BY Zenon DEF Recall
<1> PICK t : t = tx[s]
  OBVIOUS
<1> PICK roots : roots = RootsIn(committed, ids)
  OBVIOUS
<1> PICK new : new = SoftDeletedRows(committed, ids)
  OBVIOUS
<1> DEFINE u == [Idle EXCEPT !.kind = "recall", !.targets = ids, !.roots = roots,
                             !.pc = IF roots = {} THEN "hide" ELSE "recount"]
<1>2. DbInv(committed) /\ t = Idle /\ t.writes = Nothing
  BY <1>1, OfSession, IdleFits DEF At, PlaceInv
<1>3. /\ SoftDeleted(s, ids) = new /\ RootsOf(s, ids) = roots
      /\ \A i \in ids : committed[RowOf(i)].published
  BY <1>1, <1>2, DeletesCommitted
<1>4. Write(s, new, u)
  BY <1>1, <1>3, Zenon
<1>5. /\ TxShape(u) /\ u.kind = "recall" /\ u.targets = ids /\ u.roots = roots
      /\ u.writes = Nothing /\ u.pc = IF roots = {} THEN "hide" ELSE "recount"
  <2>1. roots \in SUBSET Ids
    BY <1>2, RootsType
  <2> QED
    BY <2>1, IdleFits DEF TxShape, Places, Kinds
<1> HIDE DEF u
<1>6. Fits(new)
  BY <1>2, <1>3, <1>5, RowType, Deletes
<1>7. PICK t2 :
        /\ tx' = [tx EXCEPT ![s] = t2] /\ committed' = committed /\ cleaned' = cleaned
        /\ answered' = answered
        /\ TxShape(t2) /\ Fits(t2.writes) /\ Wrote(committed, t, new, t2.writes)
        /\ t2.kind = u.kind /\ t2.pc = u.pc /\ t2.id = u.id /\ t2.request = u.request
        /\ t2.user = u.user /\ t2.targets = u.targets /\ t2.roots = u.roots
        /\ \A o \in Sessions \ {s} : DOMAIN t2.writes \cap DOMAIN tx[o].writes = {}
  BY <1>4, <1>5, <1>6, Writes
<1>8. Wrote(committed, u, new, t2.writes)
  <2>1. \A i : RowAt(committed, u, i) = RowAt(committed, t, i)
    BY <1>2, <1>5 DEF RowAt, Val
  <2> QED
    BY <1>2, <1>5, <1>7, <2>1 DEF Wrote
<1>9. After(committed, u, new, t2)
  BY <1>7, <1>8 DEF After
<1>10. PlaceInv(t2)
  BY <1>5, <1>7 DEF PlaceInv
<1>11. TxInv(committed, t2) /\ TidyInv(committed, t2)
  BY <1>2, <1>3, <1>5, <1>7, <1>9, <1>10, DeletesTargets
<1>12. ASSUME NEW o \in Sessions \ {s} PROVE Apart(t2, tx[o])
  BY <1>5, <1>7 DEF Apart
<1> QED
  BY <1>7, <1>11, <1>12, Stays

\* A batch of a cleanup, for a session that has written nothing.
LEMMA CleanBatchStep ==
    ASSUME StoreInv, NEW s \in Sessions, NEW t, CleanBatch(s, t),
           TxShape(t), t.kind = "cleanup", t.pc # "flag",
           t.writes = Nothing, tx[s].writes = Nothing,
           \A r \in t.roots : Lost(committed, t, r)
    PROVE  StoreInv' /\ Effect
<1> PICK ids : ids = Batch(s, t.user)
  OBVIOUS
<1> PICK new : new = SoftDeletedRows(committed, ids)
  OBVIOUS
<1> PICK roots : roots = t.roots \cup RootsIn(committed, ids)
  OBVIOUS
<1> PICK all : all = Over(new, Bump(committed, t, new))
  OBVIOUS
<1> PICK f : f = Over(all, t.writes)
  OBVIOUS
<1> DEFINE last == Cardinality(ids) < BatchSize
<1> DEFINE w == [t EXCEPT !.writes = f]
           t2 == [t EXCEPT !.targets = t.targets \cup ids, !.roots = roots,
                           !.pc = IF ~last THEN "delete"
                                  ELSE IF roots = {} THEN "hide" ELSE "recount"]
<1>1. DbInv(committed)
  BY DEF StoreInv
<1>2. /\ \A c : Val(committed, t, c) = committed[c]
      /\ \A c : Val(committed, tx[s], c) = committed[c]
      /\ \A i : RowAt(committed, t, i) = committed[RowOf(i)]
      /\ DOMAIN t.writes = {}
      /\ RowsInv(committed, t) /\ FlagsInv(committed, t) /\ RevisionInv(committed, t)
      /\ ReadersInv(committed, t) /\ Fits(t.writes)
  BY FreshInv
<1>3. /\ SoftDeleted(s, ids) = new /\ \A i : RowIn(s, i) = committed[RowOf(i)]
      /\ RootsOf(s, ids) = RootsIn(committed, ids)
  BY DeletesCommitted
<1>4. Bumped(s, new) = Bump(committed, t, new)
  <2>1. Bumped(s, new) = Bump(committed, tx[s], new)
    BY Views
  <2>2. Bump(committed, tx[s], new) = Bump(committed, t, new)
    BY <1>2, Zenon DEF Bump
  <2> QED
    BY <2>1, <2>2
<1>5. /\ Unlocked(s, DOMAIN all) /\ committed' = Over(all, committed)
      /\ tx' = [tx EXCEPT ![s] = t2] /\ cleaned' = TRUE /\ answered' = answered
  <2>1. t.roots \cup RootsOf(s, ids) = roots
    BY <1>3
  <2> QED
    BY <1>3, <1>4, <2>1, Zenon DEF CleanBatch
<1>6. ids \in SUBSET Ids /\ \A i \in ids : committed[RowOf(i)] # NoRow
  BY <1>3 DEF Batch, Left, Stored
<1>7. /\ Fits(new) /\ Edits(committed, t, new) /\ EditsFlags(committed, t, new)
      /\ EditsReaders(committed, t, new)
      /\ \A i \in Ids : RowOf(i) \in DOMAIN new <=> i \in ids
      /\ \A i \in ids : new[RowOf(i)].deleted
                        /\ new[RowOf(i)].request = committed[RowOf(i)].request
      /\ \A c \in DOMAIN new : \E i \in ids : c = RowOf(i)
  BY <1>1, <1>6, Deletes
<1>8. /\ Wrote(committed, t, new, f) /\ Fits(f)
      /\ DOMAIN f = DOMAIN all \cup DOMAIN t.writes
  <2>1. Fits(new) /\ Fits(t.writes)
    BY <1>2, <1>7
  <2> QED
    BY <2>1, WriteIs
<1>9. Over(all, committed) = Over(f, committed)
  BY <1>2 DEF Over
<1>10. /\ w.kind = "cleanup" /\ w.pc = t.pc /\ w.id = t.id /\ w.request = t.request
       /\ w.user = t.user /\ w.targets = t.targets /\ w.writes = f
  BY DEF TxShape
<1>11. roots \in SUBSET Ids
  BY <1>1, <1>6, RootsType, TxFields
<1>12. /\ TxShape(t2) /\ t2.kind = "cleanup" /\ t2.roots = roots /\ t2.writes = Nothing
       /\ t2.pc \in {"delete", "hide", "recount"} /\ (t2.pc = "recount" => roots # {})
  BY <1>6, <1>11 DEF TxShape, Places
<1> HIDE DEF w, t2
<1>13. After(committed, t, new, w)
  BY <1>8, <1>10 DEF After
<1>14. \A i \in Ids : ~Brings(t, i)
  BY DEF Brings
<1>15. RowsInv(committed, w) /\ RevisionInv(committed, w)
  BY <1>2, <1>7, <1>13, AfterKept
<1>16. \A r : Lost(committed, t, r) => Lost(committed, w, r)
  BY <1>7, <1>13, <1>14, AfterLost
<1>17. FlagsInv(committed, w)
  BY <1>2, <1>7, <1>13, <1>16, AfterFlags
<1>18. ReadersInv(committed, w)
  BY <1>1, <1>2, <1>7, <1>13, AfterReaders
<1>19. Commits(committed, w) /\ PublishInv(committed, w)
  BY <1>8, <1>10, <1>15 DEF Commits, SendInv, PublishInv
<1>20. \A c \in Ids : CountOf(c) \notin DOMAIN f
  BY <1>2, <1>7, <1>8, CellsDiffer DEF Wrote
<1>21. ASSUME NEW r \in roots PROVE Lost(committed, w, r)
  <2>1. CASE r \in t.roots
    BY <1>16, <2>1
  <2>2. CASE r \notin t.roots
    <3>1. PICK i \in ids : r = committed[RowOf(i)].request.root
      BY <2>2 DEF RootsIn
    <3>2. RowAt(committed, w, i).request.root = r /\ RowAt(committed, w, i).deleted
      BY <1>6, <1>7, <1>13, <3>1, AfterRows
    <3> QED
      BY <1>6, <3>2 DEF Lost
  <2> QED
    BY <2>1, <2>2
<1>22. Counted(committed, w)
  BY <1>10, <1>17, <1>20 DEF Counted, FlagsInv
<1>23. ASSUME NEW o \in Sessions \ {s} PROVE Apart(w, tx[o]) /\ Apart(t2, tx[o])
  BY <1>2, <1>5, <1>8, <1>10, <1>12, FreshInv DEF Apart, Unlocked
<1>24. TxInv(committed', t2)
  <2> PICK db2 : db2 = committed'
    OBVIOUS
  <2>1. db2 = Over(w.writes, committed)
    BY <1>5, <1>9, <1>10
  <2>2. \A i \in Ids : RowAt(db2, t2, i) = RowAt(committed, w, i)
    <3>1. \A i \in Ids : RowAt(db2, t2, i) = db2[RowOf(i)]
      BY <1>12, FreshInv
    <3>2. \A i \in Ids : db2[RowOf(i)] = RowAt(committed, w, i)
      BY <1>1, <1>19, <2>1, CommitRows
    <3> QED
      BY <3>1, <3>2
  <2>3. \A r \in roots : Lost(db2, t2, r)
    BY <1>21, <2>2 DEF Lost
  <2>4. /\ RowsInv(db2, t2) /\ DeletedInv(db2, t2) /\ FlagsInv(db2, t2) /\ RevisionInv(db2, t2)
        /\ ReadersInv(db2, t2) /\ DOMAIN t2.writes = {} /\ Fits(t2.writes)
    BY <1>12, FreshInv
  <2>5. CountInv(db2, t2)
    BY <1>12, <2>3, <2>4 DEF CountInv
  <2>6. /\ PlaceInv(t2) /\ SendInv(db2, t2) /\ PublishInv(db2, t2) /\ TargetsInv(db2, t2)
    BY <1>12 DEF PlaceInv, SendInv, PublishInv, TargetsInv
  <2>7. TxInv(db2, t2)
    BY <1>12, <2>4, <2>5, <2>6 DEF TxInv, RowInvs
  <2> QED
    BY <2>7
<1>25. w.kind # "send" /\ committed' = Over(w.writes, committed)
  BY <1>5, <1>9, <1>10
<1> QED
  BY <1>5, <1>18, <1>19, <1>22, <1>23, <1>24, <1>25, EndsBatch

\* The first batch of a cleanup keeps the invariant.
LEMMA BeginCleanupStep ==
    ASSUME StoreInv, NEW s \in Sessions, BeginCleanup(s)
    PROVE  StoreInv' /\ Effect
<1>1. PICK u \in Users :
        /\ At(s, "idle")
        /\ CleanBatch(s, [Idle EXCEPT !.kind = "cleanup", !.user = u])
  BY Zenon DEF BeginCleanup
<1> PICK t : t = [Idle EXCEPT !.kind = "cleanup", !.user = u]
  OBVIOUS
<1>2. CleanBatch(s, t)
  BY <1>1
<1>3. tx[s] = Idle
  BY <1>1, OfSession DEF At, PlaceInv
<1>4. /\ TxShape(t) /\ t.kind = "cleanup" /\ t.pc # "flag" /\ t.writes = Nothing
      /\ t.roots = {} /\ tx[s].writes = Nothing
  BY <1>3, IdleFits DEF TxShape, Kinds, Places
<1> QED
  BY <1>2, <1>4, CleanBatchStep

\* Another batch of a cleanup keeps the invariant.
LEMMA NextBatchStep ==
    ASSUME StoreInv, NEW s \in Sessions, NextBatch(s)
    PROVE  StoreInv' /\ Effect
<1> PICK t : t = tx[s]
  OBVIOUS
<1>1. t.pc = "delete" /\ t.kind = "cleanup" /\ CleanBatch(s, t)
  BY DEF NextBatch, At
<1>2. TxShape(t) /\ t.writes = Nothing
  BY <1>1, OfSession DEF PlaceInv
<1>3. \A r \in t.roots : Lost(committed, t, r)
  BY <1>1, <1>2, OfSession, TxFields DEF TxInv, CountInv, Deleting
<1> QED
  BY <1>1, <1>2, <1>3, CleanBatchStep

-----------------------------------------------------------------------------
(* Reconciliation.                                                         *)

\* Who reconciles deletes, and has roots where it needs one.
LEMMA AtReconcile ==
    ASSUME NEW t, TxShape(t), PlaceInv(t)
    PROVE  /\ t.pc \in {"recount", "store", "unflag", "shift"} =>
                t.kind \in Deleting /\ t.roots # {} /\ t.roots \in SUBSET Ids
           /\ t.pc \in {"shift", "hide"} => t.kind \in {"recall", "cleanup"}
           /\ t.pc \in {"move", "peek"} => t.kind \in Deleting
           /\ t.pc \in {"newest", "relast"} => t.kind \in Deleting \/ t.kind = "publish"
<1>1. t.kind \in Kinds /\ t.roots \in SUBSET Ids
  BY TxFields
<1>2. CASE t.kind = "none"
  BY <1>2, IdleFits DEF PlaceInv
<1>3. CASE t.kind = "send"
  BY <1>3 DEF PlaceInv
<1>4. CASE t.kind = "publish"
  BY <1>4 DEF PlaceInv
<1>5. CASE t.kind = "delete"
  BY <1>1, <1>5 DEF PlaceInv, Deleting
<1>6. CASE t.kind \in {"recall", "cleanup"}
  BY <1>1, <1>6 DEF PlaceInv, Deleting
<1> QED
  BY <1>1, <1>2, <1>3, <1>4, <1>5, <1>6 DEF Kinds

\* A statement that reads, of a transaction that deletes or publishes.
LEMMA QueryStep ==
    ASSUME StoreInv, NEW s \in Sessions, NEW t, t = tx[s], NEW u, Query(s, u),
           TxShape(u), u.writes = t.writes, u.kind = t.kind, u.id = t.id,
           u.targets = t.targets, u.roots = t.roots,
           t.kind \in Deleting \/ t.kind = "publish", t.pc \notin {"delete", "flag"},
           u.pc # "flag", PlaceInv(u), PublishInv(committed, u),
           ~cleaned => TidyInv(committed, u)
    PROVE  StoreInv' /\ Effect
<1>1. /\ TxInv(committed, t) /\ RowInvs(committed, t) /\ Fits(t.writes)
      /\ ReadersInv(committed, t) /\ CountInv(committed, t)
  BY OfSession DEF TxInv
<1>2. /\ RowInvs(committed, u) /\ ReadersInv(committed, u)
      /\ \A r : Lost(committed, u, r) <=> Lost(committed, t, r)
  BY <1>1, SameWrites
<1>3. CountInv(committed, u)
  BY <1>1, <1>2 DEF CountInv, Deleting
<1>4. SendInv(committed, u)
  BY DEF SendInv, Deleting
<1>5. TxInv(committed, u)
  BY <1>1, <1>2, <1>3, <1>4 DEF TxInv
<1>6. ASSUME NEW o \in Sessions \ {s} PROVE Apart(u, tx[o])
  <2>1. Apart(t, tx[o])
    BY OfSession
  <2> QED
    BY <2>1 DEF Apart, Deleting
<1> QED
  BY <1>5, <1>6, Reads, Stays

\* A statement that writes no rows, of a transaction that deletes.
LEMMA QuietWrite ==
    ASSUME StoreInv, NEW s \in Sessions, NEW t, t = tx[s], NEW new, NEW u,
           Write(s, new, u), Fits(new), TxShape(u), u.kind = t.kind, u.id = t.id,
           u.request = t.request, u.user = t.user,
           u.targets = t.targets, u.roots \subseteq t.roots,
           t.kind \in Deleting, t.pc \notin {"delete", "flag"},
           \A i \in Ids : RowOf(i) \notin DOMAIN new,
           \A i \in Ids : CountOf(i) \in DOMAIN new => i \in t.roots,
           EditsReaders(committed, t, new), PlaceInv(u),
           u.pc \notin {"relast", "delete"}
    PROVE  \E t2 :
            /\ tx' = [tx EXCEPT ![s] = t2] /\ committed' = committed /\ cleaned' = cleaned
            /\ answered' = answered
            /\ Wrote(committed, t, new, t2.writes)
            /\ t2.kind = u.kind /\ t2.pc = u.pc /\ t2.seen = u.seen
            /\ TxInv(committed, t2)
            /\ \A o \in Sessions \ {s} : Apart(t2, tx[o])
            /\ \A last : Names(committed, t2, last) <=> Names(committed, t, last)
<1>1. /\ DbInv(committed) /\ TxInv(committed, t) /\ RowInvs(committed, t) /\ Fits(t.writes)
      /\ ReadersInv(committed, t) /\ CountInv(committed, t)
  BY OfSession DEF TxInv
<1>2. PICK t2 :
        /\ tx' = [tx EXCEPT ![s] = t2] /\ committed' = committed /\ cleaned' = cleaned
        /\ answered' = answered
        /\ TxShape(t2) /\ Fits(t2.writes) /\ Wrote(committed, t, new, t2.writes)
        /\ t2.kind = u.kind /\ t2.pc = u.pc /\ t2.id = u.id /\ t2.request = u.request
        /\ t2.user = u.user /\ t2.targets = u.targets /\ t2.roots = u.roots
        /\ t2.hidden = u.hidden /\ t2.seen = u.seen
        /\ \A o \in Sessions \ {s} : DOMAIN t2.writes \cap DOMAIN tx[o].writes = {}
  BY Writes
<1>3. After(committed, t, new, t2)
  BY <1>2 DEF After
<1>4. /\ RowInvs(committed, t2) /\ ReadersInv(committed, t2)
      /\ \A r : Lost(committed, t2, r) <=> Lost(committed, t, r)
      /\ \A last : Names(committed, t2, last) <=> Names(committed, t, last)
  BY <1>1, <1>3, AfterQuiet
<1>5. CountInv(committed, t2)
  <2>1. \A i \in Ids : CountOf(i) # Revision
    BY CellsDiffer
  <2>2. \A r \in Ids : CountOf(r) \in DOMAIN t2.writes \/ r \in t2.roots => Lost(committed, t2, r)
    BY <1>1, <1>2, <1>4, <2>1 DEF CountInv, Wrote
  <2> QED
    BY <1>2, <2>2 DEF CountInv, Deleting
<1>6. SendInv(committed, t2) /\ PublishInv(committed, t2)
  BY <1>2 DEF SendInv, PublishInv, Deleting
<1>7. PlaceInv(t2)
  <2>1. t2.pc \notin {"insert", "publish", "delete"}
    BY <1>2 DEF PlaceInv, Deleting
  <2> QED
    BY <1>2, <2>1 DEF PlaceInv, Deleting
<1>8. TxInv(committed, t2)
  BY <1>2, <1>4, <1>5, <1>6, <1>7 DEF TxInv
<1>9. ASSUME NEW o \in Sessions \ {s} PROVE Apart(t2, tx[o])
  BY <1>2 DEF Apart, Deleting
<1> QED
  BY <1>2, <1>4, <1>8, <1>9

\* The last statement, without rows, of a transaction that deletes, or that
\* publishes a message of the main timeline.
LEMMA QuietFinish ==
    ASSUME StoreInv, NEW s \in Sessions, NEW t, t = tx[s], NEW new,
           Finish(s, new), Fits(new),
           t.kind \in Deleting \/ (t.kind = "publish" /\ t.pc = "relast"),
           t.pc \notin {"delete", "flag"},
           \A i \in Ids : RowOf(i) \notin DOMAIN new /\ CountOf(i) \notin DOMAIN new,
           EditsReaders(committed, t, new), NEW last,
           last = IF LastMessage \in DOMAIN new THEN new[LastMessage]
                  ELSE Val(committed, t, LastMessage),
           ~cleaned => /\ Names(committed, t, last)
                       /\ LastMessage \in DOMAIN new => Revision \in DOMAIN t.writes
    PROVE  StoreInv' /\ Effect
<1>1. /\ DbInv(committed) /\ TxInv(committed, t) /\ RowInvs(committed, t) /\ Fits(t.writes)
      /\ ReadersInv(committed, t) /\ CountInv(committed, t) /\ PublishInv(committed, t)
  BY OfSession DEF TxInv
<1>2. PICK w :
        /\ tx' = [tx EXCEPT ![s] = Idle] /\ cleaned' = cleaned
        /\ committed' = Over(w.writes, committed)
        /\ answered' = IF t.kind = "send"
                       THEN answered \cup {[id |-> t.id, request |-> t.request]}
                       ELSE answered
        /\ After(committed, t, new, w) /\ w.pc = t.pc
        /\ \A o \in Sessions \ {s} : Apart(w, tx[o])
  BY Finishes
<1>3. /\ w.kind = t.kind /\ w.id = t.id /\ w.kind # "send"
      /\ Wrote(committed, t, new, w.writes) /\ Fits(w.writes)
  BY <1>2 DEF After, Deleting
<1>4. /\ RowInvs(committed, w) /\ ReadersInv(committed, w)
      /\ \A i \in Ids : RowAt(committed, w, i) = RowAt(committed, t, i)
      /\ \A r : Lost(committed, w, r) <=> Lost(committed, t, r)
      /\ \A l : Names(committed, w, l) <=> Names(committed, t, l)
  BY <1>1, <1>2, AfterQuiet
<1>5. \A i \in Ids :
        /\ RowOf(i) \in DOMAIN w.writes <=> RowOf(i) \in DOMAIN t.writes
        /\ RowOf(i) \in DOMAIN t.writes => w.writes[RowOf(i)] = t.writes[RowOf(i)]
        /\ CountOf(i) \in DOMAIN w.writes <=> CountOf(i) \in DOMAIN t.writes
  BY <1>3, CellsDiffer DEF Wrote
<1>6. Commits(committed, w)
  BY <1>3, <1>4 DEF Commits, RowInvs, SendInv
<1>7. PublishInv(committed, w)
  BY <1>1, <1>2, <1>3, <1>5 DEF PublishInv
<1>8. Counted(committed, w)
  <2>1. \A r \in Ids : CountOf(r) \in DOMAIN w.writes => Lost(committed, w, r)
    BY <1>1, <1>4, <1>5 DEF CountInv, Deleting
  <2>2. w.kind = "publish" =>
          /\ RowOf(w.id) \in DOMAIN w.writes /\ w.writes[RowOf(w.id)].published
          /\ RootAt(committed, w) = NoId
    <3> SUFFICES ASSUME w.kind = "publish"
                 PROVE  /\ RowOf(w.id) \in DOMAIN w.writes /\ w.writes[RowOf(w.id)].published
                        /\ RootAt(committed, w) = NoId
      OBVIOUS
    <3>1. /\ t.kind = "publish" /\ t.pc = "relast" /\ t.id \in Ids
          /\ RowOf(t.id) \in DOMAIN t.writes /\ t.writes[RowOf(t.id)].published
          /\ committed[RowOf(t.id)].request.root = NoId
      BY <1>1, <1>3 DEF PublishInv, Deleting
    <3>2. t.writes[RowOf(t.id)].request = committed[RowOf(t.id)].request
      <4>1. ~Brings(t, t.id)
        BY <3>1 DEF Brings
      <4> QED
        BY <1>1, <3>1, <4>1 DEF RowInvs, RowsInv, Kept
    <3> QED
      BY <1>3, <1>5, <3>1, <3>2 DEF RootAt, RowAt, Val
  <2> QED
    BY <1>2, <1>3, <1>4, <2>1, <2>2 DEF Counted, RowInvs, FlagsInv
<1>9. ASSUME ~cleaned
      PROVE  /\ Names(committed, w, Val(committed, w, LastMessage))
             /\ LastMessage \in DOMAIN w.writes => Revision \in DOMAIN w.writes
  <2>1. Val(committed, w, LastMessage) = last
    BY <1>3, CellsDiffer DEF Wrote, Val
  <2>2. LastInv(committed, t)
    BY <1>9, OfSession
  <2>3. LastMessage \in DOMAIN w.writes => Revision \in DOMAIN w.writes
    BY <1>3, <1>9, <2>2, CellsDiffer DEF Wrote, LastInv
  <2> QED
    BY <1>4, <1>9, <2>1, <2>3
<1>10. answered' = IF w.kind = "send"
                   THEN answered \cup {[id |-> w.id, request |-> w.request]} ELSE answered
  BY <1>2, <1>3
<1>11. TargetsInv(committed, w) /\ DeletedInv(committed, w)
  BY <1>4 DEF RowInvs
<1> QED
  BY <1>2, <1>4, <1>6, <1>7, <1>8, <1>9, <1>10, <1>11, Ends

\* Counting the replies of a thread keeps the invariant.
LEMMA RecountStep ==
    ASSUME StoreInv, NEW s \in Sessions, Recount(s)
    PROVE  StoreInv' /\ Effect
<1> PICK t : t = tx[s]
  OBVIOUS
<1> PICK n : n = Cardinality(Replies(s, FirstRoot(s)))
  OBVIOUS
<1> DEFINE u == [t EXCEPT !.pc = "store", !.seen = n]
<1>1. t.pc = "recount" /\ Query(s, u)
  BY Zenon DEF Recount, At
<1>2. TxShape(t) /\ PlaceInv(t)
  BY OfSession
<1>3. n \in Nat
  <2>1. Replies(s, FirstRoot(s)) \subseteq Ids
    BY DEF Replies
  <2>2. IsFiniteSet(Replies(s, FirstRoot(s)))
    BY <2>1, IdNumbers, FS_Subset
  <2> QED
    BY <2>2, FS_CardinalityType
<1>4. /\ TxShape(u) /\ u.writes = t.writes /\ u.kind = t.kind /\ u.id = t.id
      /\ u.targets = t.targets /\ u.roots = t.roots /\ u.pc = "store"
  BY <1>2, <1>3 DEF TxShape, Places
<1> HIDE DEF u
<1>5. t.kind \in Deleting /\ t.roots # {}
  BY <1>1, <1>2, AtReconcile
<1>6. PlaceInv(u) /\ PublishInv(committed, u)
  BY <1>1, <1>2, <1>4, <1>5 DEF PlaceInv, PublishInv, Deleting
<1>7. ASSUME ~cleaned PROVE TidyInv(committed, u)
  <2>1. TidyInv(committed, t)
    BY <1>7, OfSession
  <2> QED
    BY <1>1, <1>4, <1>5, <2>1 DEF TidyInv, LastInv, Deleting
<1> QED
  BY <1>1, <1>4, <1>5, <1>6, <1>7, QueryStep

\* Storing the count of a thread keeps the invariant: it has lost a reply.
LEMMA StoreCountStep ==
    ASSUME StoreInv, NEW s \in Sessions, StoreCount(s)
    PROVE  StoreInv' /\ Effect
<1> PICK t : t = tx[s]
  OBVIOUS
<1> PICK root : root = FirstRoot(s)
  OBVIOUS
<1> DEFINE u == [t EXCEPT !.pc = IF t.seen = 0 THEN "unflag" ELSE AfterThread(t), !.seen = 0]
           new == Cell(CountOf(root), t.seen)
<1>1. t.pc = "store" /\ Write(s, new, u)
  BY Zenon DEF StoreCount, At
<1>2. TxShape(t) /\ PlaceInv(t)
  BY OfSession
<1>3. t.kind \in Deleting /\ t.roots # {} /\ t.roots \in SUBSET Ids /\ t.seen \in Nat
  BY <1>1, <1>2, AtReconcile, TxFields
<1>4. root \in t.roots
  BY <1>3, FirstRootIsOne
<1>5. DOMAIN new = {CountOf(root)} /\ Fits(new)
  <2>1. DOMAIN new = {CountOf(root)}
    BY DEF Cell
  <2>2. Fits(new)
    BY <1>3, <1>4, FitsCell
  <2> QED
    BY <2>1, <2>2
<1>6. /\ TxShape(u) /\ u.writes = t.writes /\ u.kind = t.kind /\ u.id = t.id
      /\ u.targets = t.targets /\ u.roots = t.roots /\ u.request = t.request
      /\ u.user = t.user
      /\ u.pc = IF t.seen = 0 THEN "unflag" ELSE IF t.kind = "delete" THEN "peek" ELSE "shift"
  BY <1>2, <1>3 DEF TxShape, Places, AfterThread
<1> HIDE DEF u, new
<1>7. PlaceInv(u)
  BY <1>1, <1>2, <1>3, <1>6 DEF PlaceInv, Deleting
<1>8. /\ \A i \in Ids : RowOf(i) \notin DOMAIN new
      /\ \A i \in Ids : CountOf(i) \in DOMAIN new => i \in t.roots
      /\ EditsReaders(committed, t, new) /\ LastMessage \notin DOMAIN new
  BY <1>4, <1>5, CellsDiffer DEF EditsReaders
<1>9. PICK t2 :
        /\ tx' = [tx EXCEPT ![s] = t2] /\ committed' = committed /\ cleaned' = cleaned
        /\ answered' = answered
        /\ Wrote(committed, t, new, t2.writes)
        /\ t2.kind = u.kind /\ t2.pc = u.pc
        /\ TxInv(committed, t2)
        /\ \A o \in Sessions \ {s} : Apart(t2, tx[o])
  BY <1>1, <1>3, <1>5, <1>6, <1>7, <1>8, QuietWrite
<1>10. ASSUME ~cleaned PROVE TidyInv(committed, t2)
  <2>1. TidyInv(committed, t)
    BY <1>10, OfSession
  <2>2. LastMessage \notin DOMAIN t2.writes
    BY <1>1, <1>3, <1>8, <1>9, <2>1, CellsDiffer DEF Wrote, TidyInv, LastInv, Deleting
  <2> QED
    BY <1>6, <1>9, <2>1, <2>2 DEF TidyInv, LastInv
<1> QED
  BY <1>9, <1>10, Stays

\* Taking the flag of a root keeps the invariant: it has lost a reply.
LEMMA UnflagStep ==
    ASSUME StoreInv, NEW s \in Sessions, Unflag(s)
    PROVE  StoreInv' /\ Effect
<1> PICK t : t = tx[s]
  OBVIOUS
<1> PICK root : root = FirstRoot(s)
  OBVIOUS
<1> PICK r : r = RowAt(committed, t, root)
  OBVIOUS
<1> DEFINE v == [r EXCEPT !.has_thread = FALSE]
           new == Cell(RowOf(root), v)
           u == [t EXCEPT !.pc = AfterThread(t)]
<1>1. t.pc = "unflag" /\ Write(s, new, u)
  <2>1. RowIn(s, root) = r
    BY Views
  <2> QED
    BY <2>1, Zenon DEF Unflag, At
<1>2. /\ DbInv(committed) /\ TxInv(committed, t) /\ TxShape(t) /\ Fits(t.writes) /\ PlaceInv(t)
      /\ RowInvs(committed, t) /\ ReadersInv(committed, t) /\ CountInv(committed, t)
  BY OfSession DEF TxInv
<1>3. t.kind \in Deleting /\ t.roots # {} /\ t.roots \in SUBSET Ids
  BY <1>1, <1>2, AtReconcile
<1>4. root \in t.roots /\ root \in Ids
  BY <1>3, FirstRootIsOne
<1>5. Lost(committed, t, root)
  BY <1>2, <1>3, <1>4 DEF CountInv
<1>6. \A i \in Ids : ~Brings(t, i)
  BY <1>3 DEF Brings, Deleting
<1>7. committed[RowOf(root)] # NoRow
  <2>1. PICK j \in Ids : RowAt(committed, t, j).request.root = root
                         /\ RowAt(committed, t, j).deleted
    BY <1>5 DEF Lost
  <2>2. RowAt(committed, t, j) # NoRow
    BY <2>1, RowType
  <2>3. committed[RowOf(j)] # NoRow
    BY <1>2, <1>6, <2>2, RowAtNone DEF RowInvs
  <2>4. RowAt(committed, t, j).request = committed[RowOf(j)].request
    BY <1>2, <1>6, <2>3, RowAtSound DEF RowInvs, Kept
  <2> QED
    BY <1>2, <1>4, <2>1, <2>3, <2>4, IdNumbers DEF DbInv, StoredIn
<1>8. r \in Rows /\ RowSound(root, r) /\ r # NoRow
  BY <1>2, <1>4, <1>6, <1>7, RowAtSound DEF RowInvs
<1>9. /\ v \in Rows /\ Kept(r, v) /\ v.published = r.published /\ v.deleted = r.deleted
  <2>1. /\ v \in Rows /\ v.request = r.request /\ v.published = r.published
        /\ v.deleted = r.deleted
    BY <1>8 DEF Rows
  <2> HIDE DEF v
  <2>2. Kept(r, v)
    BY <1>8, <2>1, KeptIs
  <2> QED
    BY <2>1, <2>2
<1> HIDE DEF v
<1>10. DOMAIN new = {RowOf(root)} /\ new[RowOf(root)] = v /\ Fits(new)
  <2>1. DOMAIN new = {RowOf(root)} /\ new[RowOf(root)] = v
    BY DEF Cell
  <2>2. Fits(new)
    BY <1>4, <1>9, FitsCell
  <2> QED
    BY <2>1, <2>2
<1>11. /\ TxShape(u) /\ u.writes = t.writes /\ u.kind = t.kind /\ u.id = t.id
       /\ u.targets = t.targets /\ u.roots = t.roots /\ u.request = t.request
       /\ u.user = t.user /\ u.pc = IF t.kind = "delete" THEN "peek" ELSE "shift"
  BY <1>2, <1>3 DEF TxShape, Places, AfterThread
<1> HIDE DEF u, new
<1>12. PICK t2 :
        /\ tx' = [tx EXCEPT ![s] = t2] /\ committed' = committed /\ cleaned' = cleaned
        /\ answered' = answered
        /\ TxShape(t2) /\ Fits(t2.writes) /\ Wrote(committed, t, new, t2.writes)
        /\ t2.kind = u.kind /\ t2.pc = u.pc /\ t2.id = u.id /\ t2.request = u.request
        /\ t2.user = u.user /\ t2.targets = u.targets /\ t2.roots = u.roots
        /\ \A o \in Sessions \ {s} : DOMAIN t2.writes \cap DOMAIN tx[o].writes = {}
  BY <1>1, <1>10, <1>11, Writes
<1>13. After(committed, t, new, t2)
  BY <1>11, <1>12 DEF After
<1>14. \A i \in Ids : RowOf(i) \in DOMAIN new => i = root
  BY <1>10, CellsDiffer
<1>15. Edits(committed, t, new) /\ EditsDeleted(committed, t, new)
       /\ EditsFlags(committed, t, new) /\ EditsReaders(committed, t, new)
  BY <1>5, <1>9, <1>10, <1>14, CellsDiffer DEF Edits, EditsDeleted, EditsFlags, EditsReaders
<1>16. /\ RowInvs(committed, t2) /\ ReadersInv(committed, t2)
       /\ \A c : Lost(committed, t, c) => Lost(committed, t2, c)
  <2>1. /\ RowsInv(committed, t2) /\ RevisionInv(committed, t2) /\ ReadersInv(committed, t2)
        /\ DeletedInv(committed, t2) /\ FlagsInv(committed, t2) /\ TargetsInv(committed, t2)
        /\ \A c : Lost(committed, t, c) => Lost(committed, t2, c)
    BY <1>1, <1>2, <1>6, <1>10, <1>13, <1>15, AfterAll
  <2> QED
    BY <2>1 DEF RowInvs
<1>17. \A c \in Ids : CountOf(c) \in DOMAIN t2.writes <=> CountOf(c) \in DOMAIN t.writes
  BY <1>10, <1>12, CellsDiffer DEF Wrote
<1>18. CountInv(committed, t2)
  BY <1>2, <1>3, <1>11, <1>12, <1>16, <1>17 DEF CountInv, Deleting
<1>19. SendInv(committed, t2) /\ PublishInv(committed, t2) /\ PlaceInv(t2)
  BY <1>1, <1>2, <1>3, <1>11, <1>12 DEF SendInv, PublishInv, PlaceInv, Deleting
<1>20. TxInv(committed, t2)
  BY <1>12, <1>16, <1>18, <1>19 DEF TxInv
<1>21. ASSUME ~cleaned PROVE TidyInv(committed, t2)
  <2>1. TidyInv(committed, t)
    BY <1>21, OfSession
  <2>2. LastMessage \notin DOMAIN t2.writes
    BY <1>1, <1>3, <1>10, <1>12, <2>1, CellsDiffer DEF Wrote, TidyInv, LastInv, Deleting
  <2> QED
    BY <1>11, <1>12, <2>1, <2>2 DEF TidyInv, LastInv
<1>22. ASSUME NEW o \in Sessions \ {s} PROVE Apart(t2, tx[o])
  BY <1>3, <1>11, <1>12 DEF Apart, Deleting
<1> QED
  BY <1>12, <1>20, <1>21, <1>22, Stays

-----------------------------------------------------------------------------
(* The cursors of readers.                                                 *)

\* Cursors that move stay in their scope, and leave the receipts alone.
LEMMA ShiftedIs ==
    ASSUME NEW s \in Sessions, NEW t, t = tx[s], DbInv(committed), Fits(t.writes),
           NEW scope \in Scopes, NEW ids, NEW new, new = Shifted(s, scope, ids)
    PROVE  /\ Fits(new) /\ EditsReaders(committed, t, new)
           /\ \A i \in Ids : RowOf(i) \notin DOMAIN new /\ CountOf(i) \notin DOMAIN new
           /\ LastMessage \notin DOMAIN new /\ Revision \notin DOMAIN new
<1> DEFINE cells == {ReaderOf(u, scope) :
                        u \in {v \in Users : View(s, ReaderOf(v, scope)).read \in ids}}
           A == Addressable(s, scope)
<1>1. \A c \in cells : \E u \in Users : c = ReaderOf(u, scope)
  OBVIOUS
<1>2. DOMAIN new = cells /\ \A c \in cells : new[c] = Moved(View(s, c), A)
  BY DEF Shifted
<1>3. A \in SUBSET Ids
  BY DEF Addressable, Stored, Replies
<1> HIDE DEF cells, A
<1>4. ASSUME NEW u \in Users, ReaderOf(u, scope) \in cells
      PROVE  /\ new[ReaderOf(u, scope)] \in Readers
             /\ new[ReaderOf(u, scope)].receipt = Val(committed, t, ReaderOf(u, scope)).receipt
  <2> PICK r : r = View(s, ReaderOf(u, scope))
    OBVIOUS
  <2>1. r = Val(committed, t, ReaderOf(u, scope)) /\ r \in Readers
    BY ValFits, Views DEF DbInv
  <2>2. r.read \in Nat /\ r.receipt \in Scopes
    BY <2>1, IdNumbers DEF Readers
  <2>3. NewestBelow(A, r.read) \in Scopes
    BY <1>3, <2>2, NewestIsOne
  <2>4. new[ReaderOf(u, scope)] = [r EXCEPT !.read = NewestBelow(A, r.read)]
    BY <1>2, <1>4, Zenon DEF Moved
  <2> QED
    BY <2>1, <2>2, <2>3, <2>4 DEF Readers
<1>5. DOMAIN new \subseteq Cells
  BY <1>1, <1>2, CellsAre
<1>6. /\ \A i \in Ids : RowOf(i) \notin DOMAIN new /\ CountOf(i) \notin DOMAIN new
      /\ LastMessage \notin DOMAIN new /\ Revision \notin DOMAIN new
  BY <1>1, <1>2, CellsDiffer
<1>7. \A u \in Users, p \in Scopes : ReaderOf(u, p) \in DOMAIN new => p = scope
  BY <1>1, <1>2, CellsDiffer
<1>8. Fits(new)
  BY <1>2, <1>4, <1>5, <1>6, <1>7 DEF Fits
<1>9. EditsReaders(committed, t, new)
  <2> SUFFICES ASSUME NEW u \in Users, NEW p \in Scopes, ReaderOf(u, p) \in DOMAIN new
               PROVE  new[ReaderOf(u, p)].receipt >= Val(committed, t, ReaderOf(u, p)).receipt
    BY DEF EditsReaders
  <2>1. p = scope
    BY <1>7
  <2>2. /\ new[ReaderOf(u, p)] \in Readers
        /\ new[ReaderOf(u, p)].receipt = Val(committed, t, ReaderOf(u, p)).receipt
    BY <1>2, <1>4, <2>1
  <2>3. new[ReaderOf(u, p)].receipt \in Nat
    BY <2>2, IdNumbers DEF Readers
  <2> QED
    BY <2>2, <2>3
<1> QED
  BY <1>6, <1>8, <1>9

\* Moving the cursors of a thread keeps the invariant.
LEMMA ShiftThreadStep ==
    ASSUME StoreInv, NEW s \in Sessions, ShiftThread(s)
    PROVE  StoreInv' /\ Effect
<1> PICK t : t = tx[s]
  OBVIOUS
<1> PICK root : root = FirstRoot(s)
  OBVIOUS
<1> DEFINE ids == {i \in t.targets : RowIn(s, i).request.root = root}
<1> HIDE DEF ids
<1> PICK new : new = Shifted(s, root, ids)
  OBVIOUS
<1> DEFINE left == t.roots \ {root}
           u == [t EXCEPT !.roots = left, !.pc = IF left = {} THEN "hide" ELSE "recount"]
<1>1. t.pc = "shift" /\ Write(s, new, u)
  BY Zenon DEF ShiftThread, At, ids
<1>2. /\ DbInv(committed) /\ TxShape(t) /\ Fits(t.writes) /\ PlaceInv(t)
  BY OfSession
<1>3. /\ t.kind \in Deleting /\ t.roots # {} /\ t.roots \in SUBSET Ids
      /\ t.kind \in {"recall", "cleanup"}
  BY <1>1, <1>2, AtReconcile
<1>4. root \in Scopes
  BY <1>3, FirstRootIsOne, IdNumbers
<1>5. /\ Fits(new) /\ EditsReaders(committed, t, new)
      /\ \A i \in Ids : RowOf(i) \notin DOMAIN new /\ CountOf(i) \notin DOMAIN new
      /\ LastMessage \notin DOMAIN new
  BY <1>2, <1>4, ShiftedIs
<1>6. /\ TxShape(u) /\ u.writes = t.writes /\ u.kind = t.kind /\ u.id = t.id
      /\ u.targets = t.targets /\ u.roots = left /\ u.request = t.request
      /\ u.user = t.user /\ u.pc = IF left = {} THEN "hide" ELSE "recount"
  BY <1>2, <1>3 DEF TxShape, Places
<1> HIDE DEF u
<1>7. PlaceInv(u) /\ u.pc \in {"hide", "recount"} /\ u.roots \subseteq t.roots
  BY <1>1, <1>2, <1>3, <1>6 DEF PlaceInv
<1>8. PICK t2 :
        /\ tx' = [tx EXCEPT ![s] = t2] /\ committed' = committed /\ cleaned' = cleaned
        /\ answered' = answered
        /\ Wrote(committed, t, new, t2.writes)
        /\ t2.kind = u.kind /\ t2.pc = u.pc
        /\ TxInv(committed, t2)
        /\ \A o \in Sessions \ {s} : Apart(t2, tx[o])
  BY <1>1, <1>3, <1>5, <1>6, <1>7, QuietWrite
<1>9. ASSUME ~cleaned PROVE TidyInv(committed, t2)
  <2>1. TidyInv(committed, t)
    BY <1>9, OfSession
  <2>2. LastMessage \notin DOMAIN t2.writes
    BY <1>1, <1>3, <1>5, <1>8, <2>1, CellsDiffer DEF Wrote, TidyInv, LastInv
  <2> QED
    BY <1>3, <1>6, <1>7, <1>8, <2>1, <2>2 DEF TidyInv, LastInv
<1> QED
  BY <1>8, <1>9, Stays

\* Finding the messages of the main timeline that are hidden keeps the invariant.
LEMMA HideStep ==
    ASSUME StoreInv, NEW s \in Sessions, Hide(s)
    PROVE  StoreInv' /\ Effect
<1> PICK t : t = tx[s]
  OBVIOUS
<1> DEFINE ids == t.targets \cup RootsOf(s, t.targets)
           hides == {i \in ids : /\ ~IsReply(RowIn(s, i)) /\ ~RowIn(s, i).has_thread
                                 /\ RowIn(s, i).deleted}
           u == [t EXCEPT !.pc = "move", !.hidden = hides]
<1>1. t.pc = "hide" /\ Query(s, u)
  BY Zenon DEF Hide, At
<1>2. /\ DbInv(committed) /\ TxShape(t) /\ Fits(t.writes) /\ PlaceInv(t)
  BY OfSession
<1>3. t.kind \in {"recall", "cleanup"} /\ t.targets \in SUBSET Ids
  BY <1>1, <1>2, AtReconcile, TxFields
<1>4. hides \in SUBSET Ids
  <2>1. ASSUME NEW i \in RootsOf(s, t.targets) PROVE i \in Ids
    <3>1. PICK j \in t.targets : i = RowIn(s, j).request.root /\ i # NoId
      BY DEF RootsOf
    <3>2. RowIn(s, j) \in Rows
      BY <1>2, <1>3, Views, ValFits DEF DbInv
    <3>3. RowIn(s, j).request.root \in Scopes
      BY <3>2, RowFields
    <3> QED
      BY <3>1, <3>3, IdNumbers
  <2> QED
    BY <1>3, <2>1
<1> HIDE DEF hides
<1>5. /\ TxShape(u) /\ u.writes = t.writes /\ u.kind = t.kind /\ u.id = t.id
      /\ u.targets = t.targets /\ u.roots = t.roots /\ u.pc = "move"
  BY <1>2, <1>4 DEF TxShape, Places
<1> HIDE DEF u
<1>6. PlaceInv(u) /\ PublishInv(committed, u)
  BY <1>1, <1>2, <1>3, <1>5 DEF PlaceInv, PublishInv
<1>7. ASSUME ~cleaned PROVE TidyInv(committed, u)
  <2>1. TidyInv(committed, t)
    BY <1>7, OfSession
  <2> QED
    BY <1>1, <1>3, <1>5, <2>1 DEF TidyInv, LastInv
<1>8. t.kind \in Deleting
  BY <1>3 DEF Deleting
<1> QED
  BY <1>1, <1>5, <1>6, <1>7, <1>8, QueryStep

\* Where the cursors of the timeline that has lost messages are moved.
LEMMA AtMove ==
    ASSUME StoreInv, NEW s \in Sessions, NEW t, t = tx[s], Move(s), NEW new,
           NEW scope, scope = (IF t.kind = "delete" /\ t.roots # {} THEN FirstRoot(s) ELSE NoId),
           new = Shifted(s, scope, IF scope = NoId THEN t.hidden ELSE t.targets)
    PROVE  /\ t.pc = "move" /\ t.kind \in Deleting
           /\ Fits(new) /\ EditsReaders(committed, t, new)
           /\ \A i \in Ids : RowOf(i) \notin DOMAIN new /\ CountOf(i) \notin DOMAIN new
           /\ LastMessage \notin DOMAIN new
           /\ t.kind = "delete" => Finish(s, new)
           /\ t.kind # "delete" => Write(s, new, [t EXCEPT !.pc = "peek", !.hidden = {}])
<1>1. t.pc = "move" /\ IF t.kind = "delete" THEN Finish(s, new)
                       ELSE Write(s, new, [t EXCEPT !.pc = "peek", !.hidden = {}])
  BY Zenon DEF Move, At
<1>2. /\ DbInv(committed) /\ TxShape(t) /\ Fits(t.writes) /\ PlaceInv(t)
  BY OfSession
<1>3. t.kind \in Deleting
  BY <1>1, <1>2, AtReconcile
<1>4. scope \in Scopes
  <2>1. t.roots # {} => FirstRoot(s) \in t.roots /\ t.roots \in SUBSET Ids
    BY <1>2, TxFields, FirstRootIsOne
  <2> QED
    BY <2>1, IdNumbers
<1>5. /\ Fits(new) /\ EditsReaders(committed, t, new)
      /\ \A i \in Ids : RowOf(i) \notin DOMAIN new /\ CountOf(i) \notin DOMAIN new
      /\ LastMessage \notin DOMAIN new
  BY <1>2, <1>4, ShiftedIs
<1> QED
  BY <1>1, <1>3, <1>5, Zenon

\* A transaction that deletes and holds no lock of the revision shows what is
\* committed.
LEMMA NoRevision ==
    ASSUME NEW db, NEW t, RowInvs(db, t), Revision \notin DOMAIN t.writes, LastNamed(db)
    PROVE  Names(db, t, db[LastMessage])
<1>1. ASSUME NEW i \in Ids PROVE VisibleTop(RowAt(db, t, i)) = VisibleTop(db[RowOf(i)])
  BY DEF RowInvs, RevisionInv, RowAt, Val
<1> QED
  BY <1>1, SameNames

\* Moving cursors at the end of a single deletion, or in a reconciliation,
\* keeps the invariant.
LEMMA MoveStep ==
    ASSUME StoreInv, NEW s \in Sessions, Move(s)
    PROVE  StoreInv' /\ Effect
<1> PICK t : t = tx[s]
  OBVIOUS
<1> PICK scope : scope = (IF t.kind = "delete" /\ t.roots # {} THEN FirstRoot(s) ELSE NoId)
  OBVIOUS
<1> PICK new : new = Shifted(s, scope, IF scope = NoId THEN t.hidden ELSE t.targets)
  OBVIOUS
<1>1. /\ t.pc = "move" /\ t.kind \in Deleting
      /\ Fits(new) /\ EditsReaders(committed, t, new)
      /\ \A i \in Ids : RowOf(i) \notin DOMAIN new /\ CountOf(i) \notin DOMAIN new
      /\ LastMessage \notin DOMAIN new
      /\ t.kind = "delete" => Finish(s, new)
      /\ t.kind # "delete" => Write(s, new, [t EXCEPT !.pc = "peek", !.hidden = {}])
  BY AtMove
<1>2. /\ DbInv(committed) /\ TxShape(t) /\ Fits(t.writes) /\ PlaceInv(t)
      /\ RowInvs(committed, t)
  BY OfSession
<1>3. CASE t.kind = "delete"
  <2> PICK last : last = Val(committed, t, LastMessage)
    OBVIOUS
  <2>1. ASSUME ~cleaned PROVE Names(committed, t, last)
    <3>1. LastInv(committed, t) /\ LastNamed(committed)
      BY <2>1, OfSession
    <3>2. CASE Revision \in DOMAIN t.writes
      BY <1>1, <1>3, <3>1, <3>2 DEF LastInv
    <3>3. CASE Revision \notin DOMAIN t.writes
      <4>1. LastMessage \notin DOMAIN t.writes
        BY <3>1, <3>3 DEF LastInv
      <4>2. last = committed[LastMessage]
        BY <4>1 DEF Val
      <4> QED
        BY <1>2, <3>1, <3>3, <4>2, NoRevision
    <3> QED
      BY <3>2, <3>3
  <2> QED
    BY <1>1, <1>3, <2>1, QuietFinish
<1>4. CASE t.kind # "delete"
  <2> DEFINE u == [t EXCEPT !.pc = "peek", !.hidden = {}]
  <2>1. /\ TxShape(u) /\ u.writes = t.writes /\ u.kind = t.kind /\ u.id = t.id
        /\ u.targets = t.targets /\ u.roots = t.roots /\ u.request = t.request
        /\ u.user = t.user /\ u.pc = "peek"
    BY <1>2 DEF TxShape, Places
  <2>2. Write(s, new, u)
    BY <1>1, <1>4
  <2> HIDE DEF u
  <2>3. PlaceInv(u) /\ u.roots \subseteq t.roots
    BY <1>1, <1>2, <1>4, <2>1 DEF PlaceInv, Deleting
  <2>4. PICK t2 :
          /\ tx' = [tx EXCEPT ![s] = t2] /\ committed' = committed /\ cleaned' = cleaned
          /\ answered' = answered
          /\ Wrote(committed, t, new, t2.writes)
          /\ t2.kind = u.kind /\ t2.pc = u.pc
          /\ TxInv(committed, t2)
          /\ \A o \in Sessions \ {s} : Apart(t2, tx[o])
    BY <1>1, <2>1, <2>2, <2>3, QuietWrite
  <2>5. ASSUME ~cleaned PROVE TidyInv(committed, t2)
    <3>1. TidyInv(committed, t)
      BY <2>5, OfSession
    <3>2. LastMessage \notin DOMAIN t2.writes
      BY <1>1, <1>4, <2>4, <3>1, CellsDiffer DEF Wrote, TidyInv, LastInv, Deleting
    <3> QED
      BY <2>1, <2>4, <3>1, <3>2 DEF TidyInv, LastInv
  <2> QED
    BY <2>4, <2>5, Stays
<1> QED
  BY <1>3, <1>4

-----------------------------------------------------------------------------
(* The last message.                                                       *)

\* A deletion that the last message is not part of leaves it the last.
LEMMA PeekNames ==
    ASSUME NEW db, NEW t, RowInvs(db, t), t.kind \in {"delete", "recall"}, t.pc # "delete",
           LastNamed(db), db[LastMessage] \notin t.targets
    PROVE  Names(db, t, db[LastMessage])
<1>1. ASSUME NEW i \in Ids, i \notin t.targets
      PROVE  VisibleTop(RowAt(db, t, i)) = VisibleTop(db[RowOf(i)])
  <2>1. ~Brings(t, i) /\ t.kind # "publish"
    BY DEF Brings
  <2> QED
    BY <1>1, <2>1, SameShown DEF RowInvs
<1>2. ASSUME NEW i \in t.targets PROVE ~VisibleTop(RowAt(db, t, i))
  BY DEF RowInvs, TargetsInv, RowAt, Val, VisibleTop, Visible
<1>3. CASE db[LastMessage] = NoId
  BY <1>1, <1>2, <1>3, IdleReads DEF LastNamed, Names
<1>4. CASE db[LastMessage] # NoId
  BY <1>1, <1>4, IdleReads DEF LastNamed, Names
<1> QED
  BY <1>3, <1>4

\* Who deletes the last message holds the lock of the revision.
LEMMA PeekLocks ==
    ASSUME NEW db, NEW t, RowInvs(db, t), t.kind \in {"delete", "recall"}, t.pc # "delete",
           LastNamed(db), db[LastMessage] \in t.targets, t.targets \in SUBSET Ids
    PROVE  Revision \in DOMAIN t.writes
<1> PICK i \in Ids : i = db[LastMessage]
  OBVIOUS
<1>1. VisibleTop(db[RowOf(i)])
  BY IdNumbers, IdleReads DEF LastNamed, Names
<1>2. RowOf(i) \in DOMAIN t.writes /\ t.writes[RowOf(i)].deleted
  BY DEF RowInvs, TargetsInv
<1>3. ~VisibleTop(t.writes[RowOf(i)])
  BY <1>2 DEF VisibleTop, Visible
<1> QED
  BY <1>1, <1>2, <1>3 DEF RowInvs, RevisionInv

\* A look at the last message after a deletion keeps the invariant.
LEMMA PeekStep ==
    ASSUME StoreInv, NEW s \in Sessions, Peek(s)
    PROVE  StoreInv' /\ Effect
<1> PICK t : t = tx[s]
  OBVIOUS
<1> PICK last : last = Val(committed, t, LastMessage)
  OBVIOUS
<1>1. /\ t.pc = "peek"
      /\ \/ last \in t.targets /\ Query(s, [t EXCEPT !.pc = "newest"])
         \/ last \notin t.targets /\ t.kind = "delete" /\ Query(s, [t EXCEPT !.pc = "move"])
         \/ last \notin t.targets /\ t.kind # "delete" /\ Finish(s, Nothing)
  <2>1. View(s, LastMessage) = last
    BY Views
  <2> QED
    BY <2>1, Zenon DEF Peek, At
<1>2. /\ DbInv(committed) /\ TxShape(t) /\ Fits(t.writes) /\ PlaceInv(t)
      /\ RowInvs(committed, t)
  BY OfSession
<1>3. t.kind \in Deleting /\ t.targets \in SUBSET Ids
  BY <1>1, <1>2, AtReconcile, TxFields
<1>4. ASSUME ~cleaned
      PROVE  /\ TidyInv(committed, t) /\ LastNamed(committed) /\ last = committed[LastMessage]
             /\ LastMessage \notin DOMAIN t.writes /\ t.kind \in {"delete", "recall"}
  <2>1. TidyInv(committed, t) /\ LastNamed(committed)
    BY <1>4, OfSession
  <2>2. LastMessage \notin DOMAIN t.writes
    BY <1>1, <2>1 DEF TidyInv, LastInv
  <2> QED
    BY <1>3, <2>1, <2>2 DEF Val, TidyInv, Deleting
<1>5. CASE last \in t.targets
  <2> DEFINE u == [t EXCEPT !.pc = "newest"]
  <2>1. /\ TxShape(u) /\ u.writes = t.writes /\ u.kind = t.kind /\ u.id = t.id
        /\ u.targets = t.targets /\ u.roots = t.roots /\ u.pc = "newest"
    BY <1>2 DEF TxShape, Places
  <2>2. Query(s, u)
    BY <1>1, <1>5
  <2> HIDE DEF u
  <2>3. PlaceInv(u) /\ PublishInv(committed, u)
    BY <1>1, <1>2, <1>3, <2>1 DEF PlaceInv, PublishInv, Deleting
  <2>4. ASSUME ~cleaned PROVE TidyInv(committed, u)
    <3>1. Revision \in DOMAIN t.writes
      BY <1>1, <1>2, <1>3, <1>4, <1>5, <2>4, PeekLocks
    <3> QED
      BY <1>4, <2>1, <2>4, <3>1 DEF TidyInv, LastInv
  <2> QED
    BY <1>1, <1>3, <2>1, <2>2, <2>3, <2>4, QueryStep
<1>6. CASE last \notin t.targets /\ t.kind = "delete"
  <2> DEFINE u == [t EXCEPT !.pc = "move"]
  <2>1. /\ TxShape(u) /\ u.writes = t.writes /\ u.kind = t.kind /\ u.id = t.id
        /\ u.targets = t.targets /\ u.roots = t.roots /\ u.pc = "move"
    BY <1>2 DEF TxShape, Places
  <2>2. Query(s, u)
    BY <1>1, <1>6
  <2> HIDE DEF u
  <2>3. PlaceInv(u) /\ PublishInv(committed, u)
    BY <1>1, <1>2, <1>6, <2>1 DEF PlaceInv, PublishInv
  <2>4. ASSUME ~cleaned PROVE TidyInv(committed, u)
    <3>1. Names(committed, t, last)
      BY <1>1, <1>2, <1>4, <1>6, <2>4, PeekNames
    <3>2. Names(committed, u, last) /\ Val(committed, u, LastMessage) = last
      <4>1. \A i : RowAt(committed, u, i) = RowAt(committed, t, i)
        BY <2>1 DEF RowAt, Val
      <4> QED
        BY <2>1, <3>1, <4>1 DEF Names, Val
    <3> QED
      BY <1>4, <2>1, <2>4, <3>2 DEF TidyInv, LastInv
  <2> QED
    BY <1>1, <1>3, <2>1, <2>2, <2>3, <2>4, QueryStep
<1>7. CASE last \notin t.targets /\ t.kind # "delete"
  <2>1. Finish(s, Nothing) /\ Fits(Nothing) /\ DOMAIN Nothing = {}
    BY <1>1, <1>7, FitsCell, Writing
  <2>2. EditsReaders(committed, t, Nothing)
    BY <2>1 DEF EditsReaders
  <2>3. ~cleaned => Names(committed, t, last)
    BY <1>1, <1>2, <1>4, <1>7, PeekNames
  <2> QED
    BY <1>1, <1>3, <2>1, <2>2, <2>3, QuietFinish
<1> QED
  BY <1>1, <1>5, <1>6, <1>7

\* The newest message that a transaction sees.
LEMMA NewestSeen ==
    ASSUME StoreInv, NEW s \in Sessions, NEW t, t = tx[s], NEW n,
           n = NewestBelow({i \in Ids : VisibleTop(RowIn(s, i))}, MaxId + 1)
    PROVE  n \in Scopes /\ Names(committed, t, n)
<1> DEFINE ids == {i \in Ids : VisibleTop(RowIn(s, i))}
<1>1. \A i \in Ids : i \in ids <=> VisibleTop(RowAt(committed, t, i))
  BY Views
<1>2. ids \in SUBSET Ids /\ n = NewestBelow(ids, MaxId + 1)
  OBVIOUS
<1> HIDE DEF ids
<1>3. MaxId + 1 \in Nat /\ \A j \in Ids : j < MaxId + 1
  BY BoundsAssumption, IdNumbers DEF Ids
<1>4. /\ n \in Scopes /\ (n # NoId => n \in ids)
      /\ n = NoId => \A j \in ids : ~(j < MaxId + 1)
  BY <1>2, <1>3, NewestIsOne
<1> QED
  BY <1>1, <1>2, <1>3, <1>4 DEF Names

\* Finding the newest message keeps the invariant.
LEMMA NewestStep ==
    ASSUME StoreInv, NEW s \in Sessions, Newest(s)
    PROVE  StoreInv' /\ Effect
<1> PICK t : t = tx[s]
  OBVIOUS
<1> DEFINE n == NewestBelow({i \in Ids : VisibleTop(RowIn(s, i))}, MaxId + 1)
           u == [t EXCEPT !.pc = "relast", !.seen = n]
<1>1. t.pc = "newest" /\ Query(s, u)
  BY Zenon DEF Newest, At
<1>2. /\ TxShape(t) /\ Fits(t.writes) /\ PlaceInv(t) /\ PublishInv(committed, t)
  BY OfSession DEF TxInv
<1>3. n \in Scopes /\ n \in Nat /\ Names(committed, t, n)
  BY NewestSeen, IdNumbers
<1> HIDE DEF n
<1>4. /\ TxShape(u) /\ u.writes = t.writes /\ u.kind = t.kind /\ u.id = t.id
      /\ u.targets = t.targets /\ u.roots = t.roots /\ u.pc = "relast" /\ u.seen = n
  BY <1>2, <1>3 DEF TxShape, Places
<1> HIDE DEF u
<1>5. t.kind \in Deleting \/ t.kind = "publish"
  BY <1>1, <1>2, AtReconcile
<1>6. PlaceInv(u) /\ PublishInv(committed, u)
  BY <1>1, <1>2, <1>3, <1>4, <1>5 DEF PlaceInv, PublishInv, Deleting
<1>7. ASSUME ~cleaned PROVE TidyInv(committed, u)
  <2>1. TidyInv(committed, t)
    BY <1>7, OfSession
  <2>2. Names(committed, u, u.seen)
    <3>1. \A i : RowAt(committed, u, i) = RowAt(committed, t, i)
      BY <1>4 DEF RowAt, Val
    <3> QED
      BY <1>3, <1>4, <3>1 DEF Names
  <2>3. Revision \in DOMAIN u.writes /\ LastMessage \notin DOMAIN u.writes
    BY <1>1, <1>4, <2>1 DEF TidyInv, LastInv
  <2> QED
    BY <1>4, <2>1, <2>2, <2>3 DEF TidyInv, LastInv
<1> QED
  BY <1>1, <1>4, <1>5, <1>6, <1>7, QueryStep

\* Storing the newest message as the last one keeps the invariant.
LEMMA StoreLastStep ==
    ASSUME StoreInv, NEW s \in Sessions, StoreLast(s)
    PROVE  StoreInv' /\ Effect
<1> PICK t : t = tx[s]
  OBVIOUS
<1> DEFINE new == Cell(LastMessage, t.seen)
<1>1. /\ t.pc = "relast"
      /\ t.kind = "delete" => Write(s, new, [t EXCEPT !.pc = "move", !.seen = 0])
      /\ t.kind # "delete" => Finish(s, new)
  BY Zenon DEF StoreLast, At
<1>2. /\ TxShape(t) /\ Fits(t.writes) /\ PlaceInv(t)
  BY OfSession
<1>3. t.kind \in Deleting \/ t.kind = "publish"
  BY <1>1, <1>2, AtReconcile
<1>4. DOMAIN new = {LastMessage} /\ new[LastMessage] = t.seen /\ Fits(new)
  <2>1. DOMAIN new = {LastMessage} /\ new[LastMessage] = t.seen
    BY DEF Cell
  <2>2. t.seen \in Scopes
    BY <1>1, <1>2 DEF PlaceInv
  <2>3. Fits(new)
    BY <2>2, FitsCell
  <2> QED
    BY <2>1, <2>3
<1> HIDE DEF new
<1>5. /\ \A i \in Ids : RowOf(i) \notin DOMAIN new /\ CountOf(i) \notin DOMAIN new
      /\ EditsReaders(committed, t, new)
  BY <1>4, CellsDiffer DEF EditsReaders
<1>6. ASSUME ~cleaned
      PROVE  /\ TidyInv(committed, t) /\ Revision \in DOMAIN t.writes
             /\ Names(committed, t, t.seen)
  <2>1. TidyInv(committed, t)
    BY <1>6, OfSession
  <2> QED
    BY <1>1, <2>1 DEF TidyInv, LastInv
<1>7. CASE t.kind = "delete"
  <2> DEFINE u == [t EXCEPT !.pc = "move", !.seen = 0]
  <2>1. /\ TxShape(u) /\ u.writes = t.writes /\ u.kind = t.kind /\ u.id = t.id
        /\ u.targets = t.targets /\ u.roots = t.roots /\ u.request = t.request
        /\ u.user = t.user /\ u.pc = "move"
    BY <1>2 DEF TxShape, Places
  <2>2. Write(s, new, u)
    BY <1>1, <1>7
  <2> HIDE DEF u
  <2>3. PlaceInv(u) /\ u.roots \subseteq t.roots
    BY <1>1, <1>2, <1>7, <2>1 DEF PlaceInv
  <2>4. PICK t2 :
          /\ tx' = [tx EXCEPT ![s] = t2] /\ committed' = committed /\ cleaned' = cleaned
          /\ answered' = answered
          /\ Wrote(committed, t, new, t2.writes)
          /\ t2.kind = u.kind /\ t2.pc = u.pc
          /\ TxInv(committed, t2)
          /\ \A o \in Sessions \ {s} : Apart(t2, tx[o])
          /\ \A last : Names(committed, t2, last) <=> Names(committed, t, last)
    BY <1>1, <1>4, <1>5, <1>7, <2>1, <2>2, <2>3, QuietWrite DEF Deleting
  <2>5. ASSUME ~cleaned PROVE TidyInv(committed, t2)
    <3>1. Revision \in DOMAIN t2.writes
      BY <1>6, <2>4, <2>5 DEF Wrote
    <3>2. Val(committed, t2, LastMessage) = t.seen
      BY <1>4, <2>4 DEF Wrote, Val
    <3>3. Names(committed, t2, t.seen)
      BY <1>6, <2>4, <2>5
    <3> QED
      BY <1>7, <2>1, <2>4, <3>1, <3>2, <3>3 DEF TidyInv, LastInv
  <2> QED
    BY <2>4, <2>5, Stays
<1>8. CASE t.kind # "delete"
  <2> PICK last : last = t.seen
    OBVIOUS
  <2>1. last = IF LastMessage \in DOMAIN new THEN new[LastMessage]
               ELSE Val(committed, t, LastMessage)
    BY <1>4
  <2> QED
    BY <1>1, <1>3, <1>4, <1>5, <1>6, <1>8, <2>1, QuietFinish
<1> QED
  BY <1>7, <1>8

-----------------------------------------------------------------------------
(* The invariant is kept.                                                  *)

\* A transaction that is rolled back leaves nothing.
LEMMA AbortStep ==
    ASSUME StoreInv, NEW s \in Sessions, Abort(s)
    PROVE  StoreInv' /\ Effect
<1>1. /\ tx' = [tx EXCEPT ![s] = Idle] /\ committed' = committed /\ cleaned' = cleaned
      /\ answered' = answered
  BY DEF Abort, RollBack
<1> QED
  BY <1>1, Rolls

\* What the database holds at first.
LEMMA AtFirst ==
    ASSUME Init
    PROVE  /\ DOMAIN committed = Cells
           /\ committed[RowOf(1)] = Row(FirstRequest, TRUE)
           /\ \A i \in Ids \ {1} : committed[RowOf(i)] = NoRow
           /\ \A i \in Ids : committed[CountOf(i)] = 0
           /\ \A u \in Users, p \in Scopes : committed[ReaderOf(u, p)] = Nowhere
           /\ committed[LastMessage] = 1
<1> DEFINE others == {RowOf(i) : i \in Ids \ {1}}
           readers == {ReaderOf(u, p) : u \in Users, p \in Scopes}
<1>1. committed = [c \in Cells |-> CASE c = RowOf(1) -> Row(FirstRequest, TRUE)
                                     [] c \in others -> NoRow
                                     [] c \in readers -> Nowhere
                                     [] c = LastMessage -> 1
                                     [] OTHER -> 0]
  BY DEF Init
<1>2. /\ \A i \in Ids \ {1} : RowOf(i) \in others
      /\ \A c \in others : \E i \in Ids \ {1} : c = RowOf(i)
  OBVIOUS
<1>3. \A c \in readers : \E u \in Users, p \in Scopes : c = ReaderOf(u, p)
  OBVIOUS
<1>4. ASSUME NEW u \in Users, NEW p \in Scopes PROVE ReaderOf(u, p) \in readers
  OBVIOUS
<1> HIDE DEF others, readers
<1>5. /\ RowOf(1) \notin others /\ RowOf(1) \notin readers /\ RowOf(1) # LastMessage
      /\ RowOf(1) \in Cells
  BY <1>2, <1>3, CellsDiffer, CellsAre, IdNumbers
<1>6. ASSUME NEW i \in Ids \ {1}
      PROVE  /\ RowOf(i) # RowOf(1) /\ RowOf(i) \in others /\ RowOf(i) \notin readers
             /\ RowOf(i) # LastMessage /\ RowOf(i) \in Cells
  BY <1>2, <1>3, CellsDiffer, CellsAre
<1>7. ASSUME NEW i \in Ids
      PROVE  /\ CountOf(i) # RowOf(1) /\ CountOf(i) \notin others
             /\ CountOf(i) \notin readers /\ CountOf(i) # LastMessage
  BY <1>2, <1>3, CellsDiffer
<1>8. ASSUME NEW u \in Users, NEW p \in Scopes
      PROVE  /\ ReaderOf(u, p) # RowOf(1) /\ ReaderOf(u, p) \notin others
             /\ ReaderOf(u, p) \in readers /\ ReaderOf(u, p) # LastMessage
             /\ ReaderOf(u, p) \in Cells
  BY <1>2, <1>4, CellsDiffer, CellsAre
<1>9. /\ LastMessage # RowOf(1) /\ LastMessage \notin others /\ LastMessage \notin readers
  BY <1>2, <1>3, CellsDiffer
<1>10. ASSUME NEW c \in Cells
       PROVE  committed[c] = CASE c = RowOf(1) -> Row(FirstRequest, TRUE)
                               [] c \in others -> NoRow
                               [] c \in readers -> Nowhere
                               [] c = LastMessage -> 1
                               [] OTHER -> 0
  BY <1>1
<1>11. DOMAIN committed = Cells
  BY <1>1
<1>12. committed[RowOf(1)] = Row(FirstRequest, TRUE)
  BY <1>5, <1>10
<1>13. ASSUME NEW i \in Ids \ {1} PROVE committed[RowOf(i)] = NoRow
  BY <1>6, <1>10
<1>14. ASSUME NEW i \in Ids PROVE committed[CountOf(i)] = 0
  BY <1>7, <1>10, CellsAre
<1>15. ASSUME NEW u \in Users, NEW p \in Scopes PROVE committed[ReaderOf(u, p)] = Nowhere
  BY <1>8, <1>10
<1>16. committed[LastMessage] = 1
  BY <1>9, <1>10, CellsAre
<1> QED
  BY <1>11, <1>12, <1>13, <1>14, <1>15, <1>16

\* The initial states satisfy the invariant.
LEMMA InitInv == Init => StoreInv
<1> SUFFICES ASSUME Init PROVE StoreInv
  OBVIOUS
<1>1. /\ DOMAIN committed = Cells
      /\ committed[RowOf(1)] = Row(FirstRequest, TRUE)
      /\ \A i \in Ids \ {1} : committed[RowOf(i)] = NoRow
      /\ \A i \in Ids : committed[CountOf(i)] = 0
      /\ \A u \in Users, p \in Scopes : committed[ReaderOf(u, p)] = Nowhere
      /\ committed[LastMessage] = 1
  BY AtFirst
<1>2. ASSUME NEW i \in Ids
      PROVE  /\ committed[RowOf(i)] \in Rows /\ committed[RowOf(i)].request = FirstRequest
             /\ ~committed[RowOf(i)].deleted /\ ~committed[RowOf(i)].has_thread
             /\ committed[RowOf(i)].request.root = NoId /\ RowSound(i, committed[RowOf(i)])
             /\ committed[RowOf(i)] # NoRow => i = 1
  <2>1. CASE i = 1
    BY <1>1, <2>1, RowType, RequestType DEF RowSound
  <2>2. CASE i # 1
    BY <1>1, <2>2, RowType, RequestType DEF RowSound
  <2> QED
    BY <2>1, <2>2
<1>3. Nowhere \in Readers /\ 1 \in Scopes
  BY IdNumbers DEF Nowhere, Readers
<1>4. Fits(committed)
  BY <1>1, <1>2, <1>3 DEF Fits
<1>5. DbInv(committed)
  BY <1>1, <1>2, <1>4 DEF DbInv, StoredIn
<1>6. ASSUME NEW r \in Ids PROVE CountedIn(committed, r)
  <2>1. Shown(committed, r) = {}
    BY <1>2, IdNumbers DEF Shown
  <2>2. Cardinality({}) = 0
    BY FS_EmptySet
  <2>3. committed[CountOf(r)] = Cardinality(Shown(committed, r))
    BY <1>1, <2>1, <2>2
  <2> QED
    BY <1>2, <2>1, <2>3 DEF CountedIn
<1>7. DOMAIN tx = Sessions /\ \A s \in Sessions : tx[s] = Idle
  BY DEF Init
<1>8. PendingStay(committed)
  BY <1>2 DEF PendingStay
<1>9. LastNamed(committed)
  <2>1. VisibleTop(Row(FirstRequest, TRUE))
    BY RowType, RequestType DEF VisibleTop, Visible, IsReply
  <2>2. 1 \in Ids /\ 1 # NoId
    BY IdNumbers
  <2> QED
    BY <1>1, <2>1, <2>2, IdleReads DEF LastNamed, Names
<1> QED
  BY <1>5, <1>6, <1>7, <1>8, <1>9, IdleInv, IdleApart DEF StoreInv, CountsRight

\* The answer to a repeated request names the message it is stored as.
Repeats ==
    /\ committed' = committed
    /\ \/ answered' = answered
       \/ \E i \in StoredIn(committed) :
             /\ i # 1 /\ committed[RowOf(i)].request \in Requests
             /\ answered' = answered \cup {[id |-> i, request |-> committed[RowOf(i)].request]}

\* A repeated insertion changes no more than its answer.
LEMMA ResendRepeats ==
    ASSUME StoreInv, NEW s \in Sessions, Resend(s)
    PROVE  Repeats
<1> PICK t : t = tx[s]
  OBVIOUS
<1>1. /\ t.pc = "insert" /\ committed' = committed
      /\ \E i \in KeyStored(t.request) :
            answered' = IF SamePayload(committed[RowOf(i)], t.request)
                        THEN answered \cup {[id |-> i, request |-> t.request]} ELSE answered
  BY DEF Resend, At
<1>2. t.request \in Requests
  BY <1>1, OfSession, AtInsert
<1>3. PICK i \in Ids :
        /\ committed[RowOf(i)] # NoRow /\ committed[RowOf(i)].request.key = t.request.key
        /\ answered' = IF SamePayload(committed[RowOf(i)], t.request)
                       THEN answered \cup {[id |-> i, request |-> t.request]} ELSE answered
  BY <1>1 DEF KeyStored
<1>4. i # 1
  <2>1. RowSound(1, committed[RowOf(1)])
    BY IdNumbers DEF StoreInv, DbInv
  <2>2. committed[RowOf(1)].request = FirstRequest
    BY <2>1 DEF RowSound
  <2> QED
    BY <1>2, <1>3, <2>2, RequestType
<1>5. CASE SamePayload(committed[RowOf(i)], t.request)
  BY <1>1, <1>2, <1>3, <1>4, <1>5 DEF Repeats, StoredIn, SamePayload
<1>6. CASE ~SamePayload(committed[RowOf(i)], t.request)
  BY <1>1, <1>3, <1>6 DEF Repeats
<1> QED
  BY <1>5, <1>6

\* Every step keeps the invariant.
LEMMA StepInv ==
    ASSUME StoreInv, [Next]_vars
    PROVE  StoreInv' /\ (Effect \/ Repeats)
<1>1. CASE UNCHANGED vars
  <2>1. StoreInv'
    BY <1>1 DEF vars, StoreInv
  <2> QED
    BY <1>1, <2>1 DEF vars, Effect
<1>2. ASSUME NEW s \in Sessions, Begin(s) PROVE StoreInv' /\ Effect
  <2>1. CASE BeginSend(s) \/ MarkRead(s) \/ BeginPublish(s)
    BY <2>1, BeginSendStep, MarkReadStep, BeginPublishStep
  <2>2. CASE BeginDelete(s) \/ Recall(s) \/ BeginCleanup(s)
    BY <2>2, BeginDeleteStep, RecallStep, BeginCleanupStep
  <2> QED
    BY <1>2, <2>1, <2>2, Zenon DEF Begin
<1>3. ASSUME NEW s \in Sessions, Statement(s) PROVE StoreInv' /\ (Effect \/ Repeats)
  <2>1. CASE Insert(s) \/ SetLast(s) \/ Count(s) \/ Flag(s)
    BY <2>1, InsertStep, SetLastStep, CountStep, FlagStep
  <2>2. CASE Resend(s)
    BY <2>2, ResendStep, ResendRepeats
  <2>3. CASE Mark(s)
    BY <2>3, MarkCountsStep, MarkEndsStep
  <2>4. CASE Publish(s) \/ Delete(s) \/ NextBatch(s)
    BY <2>4, PublishStep, DeleteStep, NextBatchStep
  <2>5. CASE Recount(s) \/ StoreCount(s) \/ Unflag(s) \/ ShiftThread(s)
    BY <2>5, RecountStep, StoreCountStep, UnflagStep, ShiftThreadStep
  <2>6. CASE Hide(s) \/ Move(s) \/ Peek(s) \/ Newest(s) \/ StoreLast(s)
    BY <2>6, HideStep, MoveStep, PeekStep, NewestStep, StoreLastStep
  <2> QED
    BY <1>3, <2>1, <2>2, <2>3, <2>4, <2>5, <2>6, Zenon DEF Statement
<1>4. CASE Next
  <2>1. PICK s \in Sessions : Begin(s) \/ Statement(s) \/ Abort(s)
    BY <1>4, Zenon DEF Next
  <2> QED
    BY <1>2, <1>3, <2>1, AbortStep
<1> QED
  BY <1>1, <1>4

\* The database and the open transactions always fit together.
THEOREM InductiveInvariant == Spec => []StoreInv
<1>1. StoreInv /\ [Next]_vars => StoreInv'
  BY StepInv
<1> QED
  BY <1>1, InitInv, PTL DEF Spec

-----------------------------------------------------------------------------
(* The properties.                                                         *)

\* groups.last_message_id names a message that is there, and none only if
\* none is there, until a cleanup has run.
THEOREM LastMessageIsThere == Spec => []LastIsVisible
<1>1. StoreInv => LastIsVisible
  <2> SUFFICES ASSUME StoreInv, ~cleaned, NEW last, last = committed[LastMessage]
               PROVE  IF last = NoId THEN \A i \in Ids : ~VisibleTop(committed[RowOf(i)])
                      ELSE VisibleTop(committed[RowOf(last)])
    BY Zenon DEF LastIsVisible
  <2>1. LastNamed(committed)
    BY DEF StoreInv
  <2> QED
    BY <2>1, IdleReads DEF LastNamed, Names
<1> QED
  BY <1>1, InductiveInvariant, PTL

\* A thread that has lost no reply counts each published one once, and its
\* root has has_thread set if there is one.
THEOREM ThreadsAreCounted == Spec => []CountsExact
<1>1. StoreInv => CountsExact
  <2> SUFFICES ASSUME StoreInv, NEW root \in Ids,
                      \A i \in InThread(root) : ~committed[RowOf(i)].deleted,
                      NEW visible, visible = {i \in InThread(root) : Visible(committed[RowOf(i)])}
               PROVE  /\ committed[CountOf(root)] = Cardinality(visible)
                      /\ committed[RowOf(root)].has_thread <=> visible # {}
    BY Zenon DEF CountsExact
  <2>1. visible = Shown(committed, root)
    BY DEF InThread, Shown
  <2>2. Whole(committed, root)
    BY DEF InThread, Whole
  <2>3. CountedIn(committed, root)
    BY <2>2 DEF StoreInv, CountsRight
  <2> QED
    BY <2>1, <2>3 DEF CountedIn
<1> QED
  BY <1>1, InductiveInvariant, PTL

\* No read receipt moves back, whatever is sent, read, deleted or cleaned up.
THEOREM ReceiptsOnlyGrow == Spec => ReceiptsMonotonic
<1> DEFINE Grows == \A u \in Users, c \in Scopes :
               committed'[ReaderOf(u, c)].receipt >= committed[ReaderOf(u, c)].receipt
<1>1. ASSUME StoreInv, [Next]_vars PROVE Grows
  <2> SUFFICES ASSUME NEW u \in Users, NEW p \in Scopes
               PROVE  committed'[ReaderOf(u, p)].receipt >= committed[ReaderOf(u, p)].receipt
    OBVIOUS
  <2>1. /\ committed[ReaderOf(u, p)].receipt \in Nat
        /\ ReaderOf(u, p) \in DOMAIN committed
    <3>1. committed[ReaderOf(u, p)] \in Readers
      BY <1>1, CellsAre DEF StoreInv, DbInv, Fits
    <3> QED
      BY <1>1, <3>1, IdNumbers, CellsAre DEF Readers, StoreInv, DbInv
  <2>2. CASE committed' = committed
    BY <2>1, <2>2
  <2>3. CASE committed' # committed
    <3>1. PICK w : ReadersInv(committed, w) /\ committed' = Over(w.writes, committed)
      BY <1>1, <2>3, StepInv DEF Effect, Repeats
    <3> PICK db2 : db2 = committed'
      OBVIOUS
    <3>2. db2 = Over(w.writes, committed)
      BY <3>1
    <3>3. CASE ReaderOf(u, p) \in DOMAIN w.writes
      <4>1. db2[ReaderOf(u, p)] = w.writes[ReaderOf(u, p)]
        BY <3>2, <3>3 DEF Over
      <4> QED
        BY <3>1, <3>3, <4>1 DEF ReadersInv
    <3>4. CASE ReaderOf(u, p) \notin DOMAIN w.writes
      <4>1. db2[ReaderOf(u, p)] = committed[ReaderOf(u, p)]
        BY <2>1, <3>2, <3>4 DEF Over
      <4> QED
        BY <2>1, <4>1
    <3> QED
      BY <3>3, <3>4
  <2> QED
    BY <2>2, <2>3
<1>2. StoreInv /\ [Next]_vars => [Grows]_vars
  BY <1>1
<1> QED
  BY <1>2, InductiveInvariant, PTL DEF Spec, ReceiptsMonotonic

-----------------------------------------------------------------------------
(* The store keeps the promise of OnceStore.                               *)

\* The messages that were stored for requests, in db.
StoredFor(db) ==
    {[id |-> i, request |-> db[RowOf(i)].request] : i \in {j \in Ids \ {1} : db[RowOf(j)] # NoRow}}

\* Databases that hold the same requests have stored the same.
LEMMA SameStored ==
    ASSUME NEW db, NEW db2,
           \A i \in Ids \ {1} : /\ db2[RowOf(i)] # NoRow <=> db[RowOf(i)] # NoRow
                                /\ db2[RowOf(i)].request = db[RowOf(i)].request
    PROVE  StoredFor(db2) = StoredFor(db)
<1>1. {j \in Ids \ {1} : db2[RowOf(j)] # NoRow} = {j \in Ids \ {1} : db[RowOf(j)] # NoRow}
  OBVIOUS
<1> QED
  BY <1>1 DEF StoredFor

\* A database with one more request has stored one more.
LEMMA OneMoreStored ==
    ASSUME NEW db, NEW db2, NEW n \in Ids \ {1}, NEW q,
           db[RowOf(n)] = NoRow, db2[RowOf(n)] # NoRow, db2[RowOf(n)].request = q,
           \A i \in Ids \ {1, n} : /\ db2[RowOf(i)] # NoRow <=> db[RowOf(i)] # NoRow
                                   /\ db2[RowOf(i)].request = db[RowOf(i)].request
    PROVE  StoredFor(db2) = StoredFor(db) \cup {[id |-> n, request |-> q]}
<1> DEFINE A == {j \in Ids \ {1} : db[RowOf(j)] # NoRow}
           B == {j \in Ids \ {1} : db2[RowOf(j)] # NoRow}
<1>1. B = A \cup {n} /\ n \notin A /\ \A i \in A : db2[RowOf(i)].request = db[RowOf(i)].request
  OBVIOUS
<1>2. /\ StoredFor(db) = {[id |-> i, request |-> db[RowOf(i)].request] : i \in A}
      /\ StoredFor(db2) = {[id |-> i, request |-> db2[RowOf(i)].request] : i \in B}
  BY Zenon DEF StoredFor
<1> HIDE DEF A, B
<1>3. ASSUME NEW m
      PROVE  m \in StoredFor(db2) <=> m \in StoredFor(db) \/ m = [id |-> n, request |-> q]
  <2>1. m \in StoredFor(db2) <=> \E i \in B : m = [id |-> i, request |-> db2[RowOf(i)].request]
    BY <1>2, Zenon
  <2>2. m \in StoredFor(db) <=> \E i \in A : m = [id |-> i, request |-> db[RowOf(i)].request]
    BY <1>2, Zenon
  <2> QED
    BY <1>1, <2>1, <2>2
<1>4. \A m : m \in StoredFor(db2) <=> m \in StoredFor(db) \cup {[id |-> n, request |-> q]}
  BY <1>3
<1> QED
  BY <1>4, Zenon

\* The rows of a database after a commit, for those that are stored.
LEMMA CommitStores ==
    ASSUME NEW db, NEW w, NEW db2, DbInv(db), Commits(db, w), db2 = Over(w.writes, db)
    PROVE  /\ w.kind # "send" => StoredFor(db2) = StoredFor(db)
           /\ w.kind = "send" =>
                /\ w.request \in Requests /\ w.id \in Ids \ {1}
                /\ \A m \in StoredFor(db) : m.request.key # w.request.key /\ m.id # w.id
                /\ StoredFor(db2) = StoredFor(db) \cup {[id |-> w.id, request |-> w.request]}
<1>1. ASSUME NEW i \in Ids, ~Brings(w, i)
      PROVE  /\ db2[RowOf(i)] # NoRow <=> db[RowOf(i)] # NoRow
             /\ db2[RowOf(i)].request = db[RowOf(i)].request
  BY <1>1, CommitRows DEF Kept
<1>2. ASSUME w.kind # "send" PROVE StoredFor(db2) = StoredFor(db)
  <2>1. \A i \in Ids : ~Brings(w, i)
    BY <1>2 DEF Brings
  <2> QED
    BY <1>1, <2>1, SameStored
<1>3. ASSUME w.kind = "send"
      PROVE  /\ w.request \in Requests /\ w.id \in Ids \ {1}
             /\ \A m \in StoredFor(db) : m.request.key # w.request.key /\ m.id # w.id
             /\ StoredFor(db2) = StoredFor(db) \cup {[id |-> w.id, request |-> w.request]}
  <2>1. /\ w.request \in Requests /\ w.id \in Ids /\ db[RowOf(w.id)] = NoRow
        /\ \A i \in Ids : db[RowOf(i)] # NoRow =>
                              db[RowOf(i)].request.key # w.request.key
    BY <1>3 DEF Commits, SendInv
  <2>2. w.id # 1
    <3>1. RowSound(1, db[RowOf(1)])
      BY IdNumbers DEF DbInv
    <3> QED
      BY <2>1, <3>1, RowType, RequestType DEF RowSound
  <2>3. Brings(w, w.id) /\ \A i \in Ids \ {1, w.id} : i \in Ids /\ ~Brings(w, i)
    BY <1>3 DEF Brings
  <2>4. db2[RowOf(w.id)] # NoRow /\ db2[RowOf(w.id)].request = w.request
    <3>1. db2[RowOf(w.id)] = Row(w.request, Publishes(w.request))
      BY <2>1, <2>3, CommitRows
    <3>2. db2[RowOf(w.id)].request = w.request
      BY <3>1 DEF Row
    <3>3. w.request # FirstRequest /\ NoRow.request = FirstRequest
      BY <2>1, RowType, RequestType
    <3> QED
      BY <3>2, <3>3
  <2>5. StoredFor(db2) = StoredFor(db) \cup {[id |-> w.id, request |-> w.request]}
    <3>1. \A i \in Ids \ {1, w.id} : /\ db2[RowOf(i)] # NoRow <=> db[RowOf(i)] # NoRow
                                     /\ db2[RowOf(i)].request = db[RowOf(i)].request
      BY <1>1, <2>3
    <3> QED
      BY <2>1, <2>2, <2>4, <3>1, OneMoreStored
  <2>6. ASSUME NEW m \in StoredFor(db) PROVE m.request.key # w.request.key /\ m.id # w.id
    <3>1. PICK i \in Ids \ {1} : /\ db[RowOf(i)] # NoRow
                                 /\ m = [id |-> i, request |-> db[RowOf(i)].request]
      BY DEF StoredFor
    <3> QED
      BY <2>1, <3>1
  <2> QED
    BY <2>1, <2>2, <2>5, <2>6
<1> QED
  BY <1>2, <1>3

\* A request is stored once and every answer names the message that it was
\* stored as.
THEOREM StoreImplementsOnce == Spec => ImplementsOnceStore
<1>1. Init => Once!Init
  <2> SUFFICES ASSUME Init PROVE Once!Init
    OBVIOUS
  <2>1. \A i \in Ids \ {1} : committed[RowOf(i)] = NoRow
    BY AtFirst
  <2>2. {j \in Ids \ {1} : committed[RowOf(j)] # NoRow} = {}
    BY <2>1
  <2> QED
    BY <2>2 DEF Init, Once!Init
<1>2. StoreInv /\ [Next]_vars => [Once!Next]_Once!vars
  <2> SUFFICES ASSUME StoreInv, [Next]_vars PROVE [Once!Next]_Once!vars
    OBVIOUS
  <2> PICK db2 : db2 = committed'
    OBVIOUS
  <2>1. Effect \/ Repeats
    BY StepInv
  <2>2. CASE committed' = committed /\ answered' = answered
    BY <2>2 DEF Once!vars
  <2>3. ASSUME NEW w, Commits(committed, w), committed' = Over(w.writes, committed),
               answered' = IF w.kind = "send"
                           THEN answered \cup {[id |-> w.id, request |-> w.request]}
                           ELSE answered
        PROVE  [Once!Next]_Once!vars
    <3>1. DbInv(committed) /\ db2 = Over(w.writes, committed)
      BY <2>3 DEF StoreInv
    <3>2. CASE w.kind # "send"
      <4>1. StoredFor(db2) = StoredFor(committed)
        BY <2>3, <3>1, <3>2, CommitStores
      <4>2. StoredFor(committed)' = StoredFor(committed) /\ answered' = answered
        BY <2>3, <3>2, <4>1 DEF StoredFor
      <4> QED
        BY <4>2 DEF Once!vars, StoredFor
    <3>3. CASE w.kind = "send"
      <4>1. /\ w.request \in Requests /\ w.id \in Ids \ {1}
            /\ \A m \in StoredFor(committed) : m.request.key # w.request.key /\ m.id # w.id
            /\ StoredFor(db2) = StoredFor(committed) \cup {[id |-> w.id, request |-> w.request]}
        BY <2>3, <3>1, <3>3, CommitStores
      <4>2. /\ StoredFor(committed)' =
                   StoredFor(committed) \cup {[id |-> w.id, request |-> w.request]}
            /\ answered' = answered \cup {[id |-> w.id, request |-> w.request]}
        BY <2>3, <3>3, <4>1 DEF StoredFor
      <4>3. Once!Accept(w.request, w.id)
        BY <4>1, <4>2, Zenon DEF Once!Accept, Once!Message, StoredFor
      <4> QED
        BY <4>1, <4>3, Zenon DEF Once!Next
    <3> QED
      BY <3>2, <3>3
  <2>4. ASSUME NEW i \in StoredIn(committed), i # 1, committed' = committed,
               committed[RowOf(i)].request \in Requests,
               answered' = answered \cup {[id |-> i, request |-> committed[RowOf(i)].request]}
        PROVE  [Once!Next]_Once!vars
    <3> PICK q : q = committed[RowOf(i)].request
      OBVIOUS
    <3>1. i \in Ids \ {1} /\ committed[RowOf(i)] # NoRow /\ q \in Requests
      BY <2>4 DEF StoredIn
    <3>2. [id |-> i, request |-> q] \in StoredFor(committed)
      BY <3>1 DEF StoredFor
    <3>3. StoredFor(committed)' = StoredFor(committed)
      BY <2>4 DEF StoredFor
    <3>4. answered' = answered \cup {[id |-> i, request |-> q]}
      BY <2>4
    <3>5. Once!Repeat(q, i)
      BY <3>2, <3>3, <3>4, Zenon DEF Once!Repeat, Once!Message, StoredFor
    <3> QED
      BY <3>1, <3>5, Zenon DEF Once!Next
  <2> QED
    BY <2>1, <2>2, <2>3, <2>4 DEF Effect, Repeats
<1> QED
  BY <1>1, <1>2, InductiveInvariant, PTL DEF Spec, ImplementsOnceStore, Once!Spec
=============================================================================
