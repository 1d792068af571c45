------------------------- MODULE UnreadCacheProofs -------------------------
(***************************************************************************)
(* Theorems about UnreadCache, for every set of sessions, chats, messages  *)
(* and cursors.  The argument: the history of committed contents is a      *)
(* function of <<chat, revision>>; the current content is in it; what one  *)
(* statement fetches names a content in it; so what the cache holds does.  *)
(* That calls answer completely has an invariant of its own.               *)
(***************************************************************************)
EXTENDS UnreadCache, FiniteSetTheorems, TLAPS

USE DEF Revision

-----------------------------------------------------------------------------
(* Types.                                                                  *)

\* A capped count of a finite set of messages is a natural number.
LEMMA CountType ==
    ASSUME NEW k \in Cursors, NEW visible \in SUBSET Messages
    PROVE  Count(k, visible) \in Nat
<1> DEFINE unread == {m \in visible : m > k.after /\ ~(k.hide /\ m \in Membership)}
<1>1. IsFiniteSet(unread)
  BY MessagesAssumption, FS_Subset
<1>2. Cardinality(unread) \in Nat
  BY <1>1, FS_CardinalityType
<1> QED
  BY <1>2, BoundsAssumption DEF Count

\* The true answers to a set of cursors are answers.
LEMMA TruthType ==
    ASSUME NEW view, NEW q \in SUBSET Cursors
    PROVE  Truth(view, q) \in SUBSET Answer
<1>1. \A k \in q : Visible(view, k.chat) \in SUBSET Messages
  BY DEF Visible
<1> QED
  BY <1>1, CountType DEF Truth, Answer

\* What an empty transaction and an empty call look like.
LEMMA EmptyTypes == NoTx \in Transaction /\ NoCall \in Call
BY DEF NoTx, NoCall, NoFlight, Status, Transaction, Call

\* A session's view of the messages has the type of the committed rows.
LEMMA ViewType ==
    ASSUME TypeOK, NEW s \in Sessions
    PROVE  View(s) \in [Messages -> Status]
BY DEF TypeOK, View, Transaction

\* A statement of a transaction, and the trigger behind it, leave a transaction.
LEMMA WriteTypes ==
    ASSUME NEW t \in Transaction
    PROVE  /\ \A m \in Messages, new \in Status : SetRow(t, m, new) \in Transaction
           /\ \A c \in Chats, n \in Nat : Bump(t, c, n) \in Transaction
BY DEF Transaction, SetRow, Bump

\* The initial values have their types.
LEMMA TypeInit == Init => TypeOK
<1> SUFFICES ASSUME Init PROVE TypeOK
  OBVIOUS
<1>1. revision \in [Chats -> Revision]
  BY DEF Init
<1>2. history \subseteq [chat : Chats, revision : Nat, visible : SUBSET Messages]
  BY DEF Init
<1> QED
  BY <1>1, <1>2, EmptyTypes DEF Init, TypeOK, Status

\* Every step of every session keeps the types.
LEMMA TypeStep == TypeOK /\ [Next]_vars => TypeOK'
<1> SUFFICES ASSUME TypeOK, [Next]_vars PROVE TypeOK'
  OBVIOUS
<1>t. \A s \in Sessions : tx[s] \in Transaction /\ call[s] \in Call
  BY DEF TypeOK
<1>1. ASSUME NEW s \in Sessions, Begin(s) PROVE TypeOK'
  <2>1. [tx[s] EXCEPT !.open = TRUE] \in Transaction
    BY <1>t DEF Transaction
  <2> QED
    BY <1>1, <2>1 DEF Begin, TypeOK
<1>2. ASSUME NEW s \in Sessions, Commit(s) PROVE TypeOK'
  <2>1. rows' \in [Messages -> Status]
    BY <1>2, ViewType DEF Commit
  <2>2. revision' \in [Chats -> Revision]
    BY <1>2, <1>t DEF Commit, Transaction, TypeOK
  <2>3. tx' \in [Sessions -> Transaction]
    BY <1>2, EmptyTypes DEF Commit, TypeOK
  <2>4. history' \subseteq [chat : Chats, revision : Nat, visible : SUBSET Messages]
    BY <1>2, <1>t DEF Commit, Visible, Transaction, TypeOK
  <2>5. possible' \in [Sessions -> SUBSET Answer]
    <3>1. \A t \in Sessions : Truth(View(t)', call[t].asked) \in SUBSET Answer
      BY TruthType, <1>t DEF Call
    <3> QED
      BY <1>2, <3>1 DEF Commit, TypeOK
  <2> QED
    BY <1>2, <2>1, <2>2, <2>3, <2>4, <2>5 DEF Commit, TypeOK
<1>3. ASSUME NEW s \in Sessions, Rollback(s) PROVE TypeOK'
  BY <1>3, EmptyTypes DEF Rollback, TypeOK
<1>4. ASSUME NEW s \in Sessions, NEW m \in Messages, NEW new \in Status,
             Write(s, m, new)
      PROVE  TypeOK'
  <2>1. sequence' \in Nat /\ sequence + 1 \in Nat
    BY <1>4 DEF Write, TypeOK
  <2>2. SetRow(tx[s], m, new) \in Transaction
    BY <1>t, WriteTypes
  <2>3. Bump(SetRow(tx[s], m, new), ChatOf[m], sequence + 1) \in Transaction
    BY <2>1, <2>2, WriteTypes, ChatOfAssumption
  <2>4. tx' \in [Sessions -> Transaction]
    BY <1>4, <2>2, <2>3 DEF Write, TypeOK
  <2> QED
    BY <1>4, <2>1, <2>4 DEF Write, TypeOK
<1>5. ASSUME NEW s \in Sessions, NEW q \in (SUBSET Cursors) \ {{}}, Ask(s, q)
      PROVE  TypeOK'
  <2>1. (CHOOSE k \in q : TRUE) \in Cursors
    <3>1. q # {}
      OBVIOUS
    <3>2. \E k \in q : TRUE
      BY <3>1
    <3>3. (CHOOSE k \in q : TRUE) \in q
      BY <3>2, Zenon
    <3> QED
      BY <3>3
  <2>2. Truth(View(s), q) \in SUBSET Answer
    BY TruthType
  <2>3. flight[CHOOSE k \in q : TRUE] \in Nat
    BY <2>1 DEF TypeOK
  <2>4. ASSUME NEW asked \in SUBSET Cursors, NEW missing \in SUBSET Cursors,
               NEW pc \in {"enter", "revisions", "count"},
               NEW token \in [cursors : SUBSET Cursors, arc : Nat]
        PROVE  [NoCall EXCEPT !.asked = asked, !.missing = missing, !.pc = pc,
                              !.token = token] \in Call
    BY EmptyTypes DEF Call
  <2>5. call' \in [Sessions -> Call]
    <3> DEFINE single == ~tx[s].open /\ Cardinality(q) = 1
    <3>1. (IF single THEN [cursors |-> q, arc |-> flight[CHOOSE k \in q : TRUE]]
                     ELSE NoFlight) \in [cursors : SUBSET Cursors, arc : Nat]
      BY <2>3 DEF NoFlight
    <3>2. [NoCall EXCEPT
             !.asked = q,
             !.missing = IF tx[s].open THEN q ELSE {},
             !.pc = IF tx[s].open THEN "count"
                    ELSE IF Cardinality(q) = 1 THEN "enter" ELSE "revisions",
             !.token = IF single THEN [cursors |-> q, arc |-> flight[CHOOSE k \in q : TRUE]]
                       ELSE NoFlight] \in Call
      BY <2>4, <3>1
    <3> QED
      BY <1>5, <3>2 DEF Ask, TypeOK
  <2> QED
    BY <1>5, <2>2, <2>5 DEF Ask, TypeOK
<1>6. ASSUME NEW s \in Sessions, EnterFlight(s) PROVE TypeOK'
  <2>1. [call[s] EXCEPT !.pc = "revisions"] \in Call
    BY <1>t DEF Call
  <2> QED
    BY <1>6, <2>1 DEF EnterFlight, TypeOK
<1>7. ASSUME NEW s \in Sessions, ReadRevisions(s) PROVE TypeOK'
  <2>1. [call[s] EXCEPT !.revision = revision, !.pc = "lookup"] \in Call
    BY <1>t DEF Call, TypeOK
  <2> QED
    BY <1>7, <2>1 DEF ReadRevisions, TypeOK
<1>8. ASSUME NEW s \in Sessions, LookUp(s) PROVE TypeOK'
  <2> DEFINE found == {[cursor |-> e.cursor, count |-> e.count] : e \in Hits(s)}
             left  == call[s].asked \ {e.cursor : e \in Hits(s)}
  <2>1. found \in SUBSET Answer
    BY DEF Hits, Entry, Answer, TypeOK
  <2>2. left \in SUBSET Cursors
    BY <1>t DEF Call
  <2>3. [call[s] EXCEPT !.answers = found, !.missing = left, !.pc = "count"] \in Call
    BY <1>t, <2>1, <2>2 DEF Call
  <2> QED
    BY <1>8, <2>3 DEF LookUp, TypeOK
<1>9. ASSUME NEW s \in Sessions, CountMisses(s) PROVE TypeOK'
  <2> DEFINE r(k) == IF tx[s].open /\ tx[s].written # {} THEN NoRevision
                     ELSE revision[k.chat]
             new == {[cursor |-> k, count |-> Count(k, Visible(View(s), k.chat)),
                      revision |-> r(k)] : k \in Batch(s)}
  <2>1. \A k \in Batch(s) : k \in Cursors /\ k.chat \in Chats
    BY <1>t, CursorsAssumption DEF Batch, Call
  <2>2. \A k \in Batch(s) : Count(k, Visible(View(s), k.chat)) \in Nat
    BY <2>1, CountType DEF Visible
  <2>3. \A k \in Batch(s) : r(k) \in Revision
    BY <2>1 DEF TypeOK
  <2>4. new \in SUBSET Entry
    BY <2>1, <2>2, <2>3 DEF Entry
  <2>5. [call[s] EXCEPT !.fetched = new, !.pc = "publish"] \in Call
    BY <1>t, <2>4 DEF Call
  <2> QED
    BY <1>9, <2>5 DEF CountMisses, TypeOK
<1>10. ASSUME NEW s \in Sessions, Publish(s) PROVE TypeOK'
  <2> DEFINE added == {[cursor |-> e.cursor, count |-> e.count] : e \in call[s].fetched}
             known == call[s].answers \cup added
             left  == call[s].missing \ Batch(s)
  <2>1. call[s].fetched \in SUBSET Entry
    BY <1>t DEF Call
  <2>2. known \in SUBSET Answer /\ left \in SUBSET Cursors
    BY <1>t, <2>1 DEF Call, Entry, Answer
  <2>3. [call[s] EXCEPT !.answers = known, !.missing = left, !.fetched = {},
                        !.pc = "count"] \in Call
    BY <1>t, <2>2 DEF Call
  <2>4. Published(s) \in SUBSET {e \in Entry : e.revision \in Nat}
    BY <2>1 DEF Published, Entry
  <2> QED
    BY <1>10, <2>3, <2>4 DEF Publish, TypeOK
<1>11. ASSUME NEW s \in Sessions, Return(s) PROVE TypeOK'
  BY <1>11, EmptyTypes DEF Return, TypeOK
<1>12. ASSUME NEW s \in Sessions, Fail(s) PROVE TypeOK'
  BY <1>12, EmptyTypes DEF Fail, TypeOK
<1>13. ASSUME NEW e \in cache, EvictCount(e) PROVE TypeOK'
  BY <1>13 DEF EvictCount, TypeOK
<1>14. ASSUME NEW k \in Cursors, EvictFlight(k) PROVE TypeOK'
  BY <1>14 DEF EvictFlight, TypeOK
<1>15. CASE UNCHANGED vars
  BY <1>15 DEF vars, TypeOK
<1> QED
  BY <1>1, <1>2, <1>3, <1>4, <1>5, <1>6, <1>7, <1>8, <1>9, <1>10, <1>11,
     <1>12, <1>13, <1>14, <1>15 DEF Next

\* Every variable has its type in every reachable state; in particular no entry
\* of the cache lacks a revision.
THEOREM TypeCorrect == Spec => []TypeOK
BY TypeInit, TypeStep, PTL DEF Spec

-----------------------------------------------------------------------------
(* The database: revisions name contents.                                  *)

\* The variables that carry HistoryInv and TxInv, and what leaves them alone.
database == <<rows, revision, sequence, tx, history>>

\* The steps of a call never touch the database.
LEMMA CallsOnlyRead ==
    ASSUME Next
    PROVE  \/ UNCHANGED database
           \/ \E s \in Sessions :
                \/ Begin(s) \/ Commit(s) \/ Rollback(s) \/ Fail(s)
                \/ \E m \in Messages, new \in Status : Write(s, m, new)
BY DEF Next, Ask, EnterFlight, ReadRevisions, LookUp, CountMisses, Publish,
       Return, EvictCount, EvictFlight, database

\* What a transaction that bumped c commits is new, and one that did not bump c
\* shows the same content of c as the committed rows.
LEMMA UnbumpedLooksTheSame ==
    ASSUME TypeOK, TxInv, NEW s \in Sessions, NEW c \in Chats \ tx[s].bumped
    PROVE  Visible(View(s), c) = Visible(rows, c)
BY ChatOfAssumption DEF TypeOK, TxInv, TxInvOf, Visible, View, Transaction

\* A content of a chat is recorded under its revision, and transactions keep
\* to their own rows and revisions.
LEMMA DatabaseInit == Init => HistoryInv /\ TxInv
<1> SUFFICES ASSUME Init PROVE HistoryInv /\ TxInv
  OBVIOUS
<1>1. \A h \in history : h.chat \in Chats /\ h.revision = 0 /\ h.visible = {}
  BY DEF Init
<1>2. \A c \in Chats : Visible(rows, c) = {}
  BY DEF Init, Visible
<1>3. HistoryInv
  BY <1>1, <1>2, NoRevisionAssumption DEF Init, HistoryInv, Known
<1>4. \A s \in Sessions : tx[s].written = {} /\ tx[s].bumped = {}
  BY DEF Init, NoTx
<1>5. TxInv
  BY <1>1, <1>4 DEF Init, TxInv, TxInvOf
<1> QED
  BY <1>3, <1>5

LEMMA CommitKeepsHistory ==
    ASSUME TypeOK, HistoryInv, TxInv, NEW s \in Sessions, Commit(s)
    PROVE  HistoryInv'
<1> DEFINE new == {[chat |-> c, revision |-> tx[s].revision[c],
                    visible |-> Visible(View(s), c)] : c \in tx[s].bumped}
<1>1. history' = history \cup new /\ rows' = View(s)
  BY DEF Commit
<1>2. \A g, h \in history' :
        g.chat = h.chat /\ g.revision = h.revision => g.visible = h.visible
  <2>1. \A g \in new, h \in history : g.chat = h.chat => h.revision < g.revision
    BY DEF TxInv, TxInvOf
  <2>2. \A h \in history : h.revision \in Nat
    BY DEF TypeOK
  <2>3. \A g \in new : g.revision \in Nat
    BY DEF TypeOK, Transaction
  <2>4. \A g \in new, h \in history :
          ~(g.chat = h.chat /\ g.revision = h.revision)
    BY <2>1, <2>2, <2>3
  <2>5. \A g, h \in new : g.chat = h.chat => g.visible = h.visible
    OBVIOUS
  <2> QED
    BY <1>1, <2>4, <2>5 DEF HistoryInv
<1>3. ASSUME NEW c \in Chats, revision'[c] \in Nat
      PROVE  [chat |-> c, revision |-> revision'[c], visible |-> Visible(rows', c)]
                \in history'
  <2>1. CASE c \in tx[s].bumped
    BY <1>1, <2>1 DEF Commit
  <2>2. CASE c \notin tx[s].bumped
    <3>1. Visible(rows', c) = Visible(rows, c)
      BY <1>1, <2>2, UnbumpedLooksTheSame
    <3>2. revision'[c] = revision[c]
      BY <2>2 DEF Commit
    <3> QED
      BY <1>1, <1>3, <3>1, <3>2 DEF HistoryInv, Known
  <2> QED
    BY <2>1, <2>2
<1> QED
  BY <1>2, <1>3 DEF HistoryInv, Known

LEMMA CommitKeepsTx ==
    ASSUME TypeOK, TxInv, NEW s \in Sessions, Commit(s)
    PROVE  TxInv'
<1>1. /\ tx' = [tx EXCEPT ![s] = NoTx] /\ sequence' = sequence
      /\ tx'[s] = NoTx /\ \A t \in Sessions \ {s} : tx'[t] = tx[t]
  BY DEF Commit, TypeOK
<1>2. \A h \in history' \ history :
        /\ h.chat \in tx[s].bumped
        /\ h.revision = tx[s].revision[h.chat]
        /\ h.revision <= sequence
  BY DEF Commit, TxInv, TxInvOf
<1>3. \A t \in Sessions \ {s} :
        /\ tx[t].written \cap tx[s].written = {}
        /\ tx[t].bumped \cap tx[s].bumped = {}
  BY DEF TxInv, TxInvOf
<1>4. ASSUME NEW t \in Sessions \ {s}, NEW m \in tx[t].written
      PROVE  rows'[m] = rows[m]
  BY <1>3, <1>4 DEF Commit, View, TypeOK, Transaction
<1>5. ASSUME NEW t \in Sessions
      PROVE  /\ ~tx'[t].open => tx'[t].written = {} /\ tx'[t].bumped = {}
             /\ \A c \in tx'[t].bumped :
                  /\ tx'[t].revision[c] <= sequence
                  /\ \A h \in history' : h.chat = c => h.revision < tx'[t].revision[c]
             /\ \A m \in tx'[t].written :
                  ChatOf[m] \notin tx'[t].bumped =>
                    (tx'[t].rows[m] = "visible" <=> rows'[m] = "visible")
  <2>1. CASE t = s
    BY <1>1, <2>1 DEF NoTx
  <2>2. CASE t # s
    <3>1. ASSUME NEW c \in tx[t].bumped, NEW h \in history', h.chat = c
          PROVE  h.revision < tx[t].revision[c]
      BY <1>2, <1>3, <2>2, <3>1 DEF TxInv, TxInvOf
    <3> QED
      BY <1>1, <1>4, <2>2, <3>1 DEF TxInv, TxInvOf
  <2> QED
    BY <2>1, <2>2
<1>6. \A t, u \in Sessions : t # u =>
        /\ tx'[t].written \cap tx'[u].written = {}
        /\ tx'[t].bumped \cap tx'[u].bumped = {}
  BY <1>1 DEF TxInv, TxInvOf, NoTx
<1>7. \A h \in history' : h.revision <= sequence'
  BY <1>1, <1>2 DEF TxInv, TxInvOf
<1> QED
  BY <1>1, <1>5, <1>6, <1>7 DEF TxInv, TxInvOf

\* The row locks and the revision lock keep the transactions apart, and nextval
\* exceeds everything drawn before it.
LEMMA WriteKeepsTx ==
    ASSUME TypeOK, TxInv, NEW s \in Sessions, NEW m \in Messages, NEW new \in Status,
           Write(s, m, new)
    PROVE  TxInv'
<1> DEFINE c == ChatOf[m]
           affects == Affects(View(s)[m], new)
<1>1. c \in Chats
  BY ChatOfAssumption
<1>2. tx[s] \in Transaction
  BY DEF TypeOK
<1>3. /\ \A t \in Sessions \ {s} : tx'[t] = tx[t]
      /\ rows' = rows /\ history' = history
      /\ sequence' \in Nat /\ sequence <= sequence' /\ tx[s].open
  BY DEF Write, TypeOK
<1>4. CASE affects
  <2>1. tx'[s] = Bump(SetRow(tx[s], m, new), c, sequence + 1) /\ sequence' = sequence + 1
    BY <1>4 DEF Write, TypeOK
  <2>2. /\ tx'[s].open = tx[s].open /\ tx'[s].written = tx[s].written \cup {m}
        /\ tx'[s].bumped = tx[s].bumped \cup {c}
        /\ tx'[s].rows = [tx[s].rows EXCEPT ![m] = new]
        /\ tx'[s].revision = [tx[s].revision EXCEPT ![c] = sequence + 1]
    BY <1>2, <2>1 DEF Bump, SetRow, Transaction
  <2>3. \A t \in Sessions \ {s} : m \notin tx[t].written /\ c \notin tx[t].bumped
    BY <1>4 DEF Write, RowFree, RevisionFree
  <2>4. ASSUME NEW d \in tx'[s].bumped
        PROVE  /\ tx'[s].revision[d] <= sequence'
               /\ \A h \in history : h.chat = d => h.revision < tx'[s].revision[d]
    <3>1. CASE d = c
      BY <1>1, <1>2, <2>1, <2>2, <3>1 DEF TxInv, TxInvOf, TypeOK, Transaction
    <3>2. CASE d # c
      BY <1>1, <1>2, <1>3, <2>1, <2>2, <3>2 DEF TxInv, TxInvOf, TypeOK, Transaction
    <3> QED
      BY <3>1, <3>2
  <2>5. \A n \in tx'[s].written : ChatOf[n] \notin tx'[s].bumped =>
           (tx'[s].rows[n] = "visible" <=> rows[n] = "visible")
    BY <1>2, <2>2 DEF TxInv, TxInvOf, Transaction
  <2>6. \A t, u \in Sessions : t # u =>
          /\ tx'[t].written \cap tx'[u].written = {}
          /\ tx'[t].bumped \cap tx'[u].bumped = {}
    BY <1>3, <2>2, <2>3 DEF TxInv, TxInvOf
  <2>7. \A t \in Sessions \ {s} : \A d \in tx[t].bumped : tx[t].revision[d] <= sequence'
    BY <1>3, <2>1 DEF TxInv, TxInvOf, TypeOK, Transaction
  <2>8. \A h \in history : h.revision <= sequence'
    BY <1>3, <2>1 DEF TxInv, TxInvOf, TypeOK
  <2>9. TxInvOf(s)'
    BY <1>3, <2>2, <2>4, <2>5 DEF TxInvOf
  <2>10. ASSUME NEW t \in Sessions \ {s} PROVE TxInvOf(t)'
    BY <1>3, <2>7 DEF TxInv, TxInvOf
  <2> QED
    BY <1>3, <2>6, <2>8, <2>9, <2>10 DEF TxInv
<1>5. CASE ~affects
  <2>1. tx'[s] = SetRow(tx[s], m, new) /\ sequence' = sequence
    BY <1>5 DEF Write, TypeOK
  <2>2. /\ tx'[s].open = tx[s].open /\ tx'[s].written = tx[s].written \cup {m}
        /\ tx'[s].bumped = tx[s].bumped /\ tx'[s].revision = tx[s].revision
        /\ tx'[s].rows = [tx[s].rows EXCEPT ![m] = new]
    BY <1>2, <2>1 DEF SetRow, Transaction
  <2>3. \A t \in Sessions \ {s} : m \notin tx[t].written
    BY DEF Write, RowFree
  <2>4. c \notin tx[s].bumped => (new = "visible" <=> rows[m] = "visible")
    BY <1>2, <1>5 DEF Affects, View, TxInv, TxInvOf, Transaction
  <2>5. \A n \in tx'[s].written : ChatOf[n] \notin tx'[s].bumped =>
           (tx'[s].rows[n] = "visible" <=> rows[n] = "visible")
    <3>1. ASSUME NEW n \in tx'[s].written, ChatOf[n] \notin tx'[s].bumped, n # m
          PROVE  tx'[s].rows[n] = "visible" <=> rows[n] = "visible"
      BY <1>2, <2>2, <3>1 DEF TxInv, TxInvOf, Transaction
    <3>2. ChatOf[m] \notin tx'[s].bumped =>
            (tx'[s].rows[m] = "visible" <=> rows[m] = "visible")
      BY <1>2, <2>2, <2>4 DEF Transaction
    <3> QED
      BY <3>1, <3>2
  <2>6. \A t, u \in Sessions : t # u =>
          /\ tx'[t].written \cap tx'[u].written = {}
          /\ tx'[t].bumped \cap tx'[u].bumped = {}
    BY <1>3, <2>2, <2>3 DEF TxInv, TxInvOf
  <2>7. TxInvOf(s)'
    BY <1>3, <2>1, <2>2, <2>5 DEF TxInv, TxInvOf
  <2>8. ASSUME NEW t \in Sessions \ {s} PROVE TxInvOf(t)'
    BY <1>3, <2>1 DEF TxInv, TxInvOf
  <2> QED
    BY <1>3, <2>1, <2>6, <2>7, <2>8 DEF TxInv
<1> QED
  BY <1>4, <1>5

\* Every step keeps the recorded contents and the transactions in order.
LEMMA DatabaseStep ==
    ASSUME TypeOK, HistoryInv, TxInv, [Next]_vars
    PROVE  HistoryInv' /\ TxInv'
<1>1. CASE UNCHANGED database
  BY <1>1 DEF database, HistoryInv, TxInv, TxInvOf, Known
<1>2. ASSUME NEW s \in Sessions, Begin(s) PROVE HistoryInv' /\ TxInv'
  <2>1. /\ \A t \in Sessions : /\ tx'[t].written = tx[t].written
                               /\ tx'[t].bumped = tx[t].bumped
                               /\ tx'[t].rows = tx[t].rows
                               /\ tx'[t].revision = tx[t].revision
                               /\ tx[t].open => tx'[t].open
        /\ UNCHANGED <<rows, revision, sequence, history>>
    BY <1>2 DEF Begin, TypeOK, Transaction
  <2> QED
    BY <2>1 DEF HistoryInv, TxInv, TxInvOf, Known
<1>3. ASSUME NEW s \in Sessions, Rollback(s) \/ Fail(s) PROVE HistoryInv' /\ TxInv'
  <2>1. /\ tx'[s] = NoTx /\ \A t \in Sessions \ {s} : tx'[t] = tx[t]
        /\ UNCHANGED <<rows, revision, sequence, history>>
    BY <1>3 DEF Rollback, Fail, TypeOK
  <2> QED
    BY <2>1 DEF HistoryInv, TxInv, TxInvOf, Known, NoTx
<1>4. ASSUME NEW s \in Sessions, Commit(s) PROVE HistoryInv' /\ TxInv'
  BY <1>4, CommitKeepsHistory, CommitKeepsTx
<1>5. ASSUME NEW s \in Sessions, NEW m \in Messages, NEW new \in Status, Write(s, m, new)
      PROVE  HistoryInv' /\ TxInv'
  <2>1. UNCHANGED <<rows, revision, history>>
    BY <1>5 DEF Write
  <2> QED
    BY <1>5, <2>1, WriteKeepsTx DEF HistoryInv, Known
<1>6. CASE UNCHANGED vars
  BY <1>1, <1>6 DEF vars, database
<1> QED
  BY <1>1, <1>2, <1>3, <1>4, <1>5, <1>6, CallsOnlyRead

-----------------------------------------------------------------------------
(* The cache and the calls.                                                *)

\* The history only grows, so what was coherent stays coherent.
LEMMA CoherentStays ==
    ASSUME [Next]_vars
    PROVE  history \subseteq history' /\ \A e : Coherent(e) => Coherent(e)'
<1>1. history \subseteq history'
  BY DEF Next, Begin, Commit, Rollback, Write, Ask, EnterFlight, ReadRevisions,
         LookUp, CountMisses, Publish, Return, Fail, EvictCount, EvictFlight, vars
<1> QED
  BY <1>1 DEF Coherent

\* Only Publish adds to the cache, and only what a statement fetched.
LEMMA CacheStep ==
    ASSUME TypeOK, CallInv, CacheCoherent, [Next]_vars
    PROVE  CacheCoherent'
<1>1. \A e \in cache' : e \in cache \/ \E s \in Sessions :
                          e \in call[s].fetched /\ e.revision # NoRevision
  BY DEF Next, Begin, Commit, Rollback, Write, Ask, EnterFlight, ReadRevisions,
         LookUp, CountMisses, Publish, Published, Return, Fail, EvictCount,
         EvictFlight, vars
<1>2. \A e \in cache' : Coherent(e)
  BY <1>1 DEF CallInv, CallInvOf, CacheCoherent
<1> QED
  BY <1>2, CoherentStays DEF CacheCoherent

\* A step that leaves a session, its view and its call alone keeps its invariant.
LEMMA LeftAlone ==
    ASSUME TypeOK, [Next]_vars, NEW s \in Sessions, CallInvOf(s),
           call'[s] = call[s], possible'[s] = possible[s], tx'[s] = tx[s], rows' = rows
    PROVE  CallInvOf(s)'
<1>1. history \subseteq history' /\ \A e : Coherent(e) => Coherent(e)'
  BY CoherentStays
<1>2. Truth(View(s), call[s].asked)' = Truth(View(s), call[s].asked)
  BY DEF Truth, View
<1> QED
  BY <1>1, <1>2 DEF CallInvOf, Free

\* A session outside a call satisfies the invariant of calls.
LEMMA IdleCall ==
    ASSUME NEW s \in Sessions, call[s] = NoCall
    PROVE  CallInvOf(s)
BY DEF CallInvOf, NoCall, Free

\* A commit may change what the others see; what they may answer grows with it.
LEMMA CommitKeepsCalls ==
    ASSUME TypeOK, CallInv, NEW s \in Sessions, Commit(s), NEW t \in Sessions
    PROVE  CallInvOf(t)'
<1>1. [Next]_vars
  BY DEF Next
<1>2. CASE Free(t)
  <2>1. call'[t] = NoCall
    BY <1>2 DEF Commit, CallInv, CallInvOf
  <2> QED
    BY <2>1 DEF CallInvOf, NoCall, Free
<1>3. CASE ~Free(t)
  <2>1. t # s /\ call'[t] = call[t] /\ tx'[t] = tx[t]
    BY <1>3 DEF Commit, TypeOK
  <2>2. possible'[t] = possible[t] \cup Truth(View(t)', call[t].asked)
    BY <1>3 DEF Commit
  <2>3. Truth(View(t), call[t].asked)' = Truth(View(t)', call[t].asked)
    BY <2>1 DEF Truth
  <2>4. history \subseteq history' /\ \A e : Coherent(e) => Coherent(e)'
    BY <1>1, CoherentStays
  <2>5. CallInvOf(t)
    BY DEF CallInv
  <2> QED
    BY <2>1, <2>2, <2>3, <2>4, <2>5 DEF CallInvOf, Free
<1> QED
  BY <1>2, <1>3

\* Every call keeps to counts that are coherent and were true.
LEMMA CallStep ==
    ASSUME TypeOK, HistoryInv, TxInv, CallInv, CacheCoherent, [Next]_vars
    PROVE  CallInv'
<1>i. \A t \in Sessions : CallInvOf(t)
  BY DEF CallInv
<1>t. \A t \in Sessions : call[t] \in Call
  BY DEF TypeOK
<1>g. history \subseteq history' /\ \A e : Coherent(e) => Coherent(e)'
  BY CoherentStays
<1> SUFFICES ASSUME NEW t \in Sessions PROVE CallInvOf(t)'
  BY DEF CallInv
<1>1. ASSUME NEW s \in Sessions, Begin(s) PROVE CallInvOf(t)'
  <2>1. CASE t = s
    <3>1. call'[s] = NoCall
      BY <1>1, <1>i DEF Begin, CallInvOf
    <3> QED
      BY <2>1, <3>1 DEF CallInvOf, NoCall, Free
  <2>2. CASE t # s
    <3>1. call'[t] = call[t] /\ possible'[t] = possible[t] /\ tx'[t] = tx[t] /\ rows' = rows
      BY <1>1, <2>2 DEF Begin, TypeOK
    <3> QED
      BY <1>i, <3>1, LeftAlone
  <2> QED
    BY <2>1, <2>2
<1>2. ASSUME NEW s \in Sessions, Commit(s) PROVE CallInvOf(t)'
  BY <1>2, CommitKeepsCalls
<1>3. ASSUME NEW s \in Sessions, Rollback(s) PROVE CallInvOf(t)'
  <2>1. CASE t = s
    <3>1. call'[s] = NoCall
      BY <1>3, <1>i DEF Rollback, CallInvOf
    <3> QED
      BY <2>1, <3>1 DEF CallInvOf, NoCall, Free
  <2>2. CASE t # s
    <3>1. call'[t] = call[t] /\ possible'[t] = possible[t] /\ tx'[t] = tx[t] /\ rows' = rows
      BY <1>3, <2>2 DEF Rollback, TypeOK
    <3> QED
      BY <1>i, <3>1, LeftAlone
  <2> QED
    BY <2>1, <2>2
<1>4. ASSUME NEW s \in Sessions, NEW m \in Messages, NEW new \in Status, Write(s, m, new)
      PROVE  CallInvOf(t)'
  <2>1. CASE t = s
    <3>1. call'[s] = NoCall
      BY <1>4, <1>i DEF Write, CallInvOf
    <3> QED
      BY <2>1, <3>1 DEF CallInvOf, NoCall, Free
  <2>2. CASE t # s
    <3>1. call'[t] = call[t] /\ possible'[t] = possible[t] /\ tx'[t] = tx[t] /\ rows' = rows
      BY <1>4, <2>2 DEF Write, TypeOK
    <3> QED
      BY <1>i, <3>1, LeftAlone
  <2> QED
    BY <2>1, <2>2
<1>5. ASSUME NEW s \in Sessions, NEW q \in (SUBSET Cursors) \ {{}}, Ask(s, q)
      PROVE  CallInvOf(t)'
  <2>1. CASE t = s
    <3>1. /\ call'[s].asked = q /\ call'[s].fetched = {}
          /\ call'[s].missing = IF tx[s].open THEN q ELSE {}
          /\ call'[s].pc = IF tx[s].open THEN "count"
                           ELSE IF Cardinality(q) = 1 THEN "enter" ELSE "revisions"
          /\ possible'[s] = Truth(View(s), q) /\ tx' = tx /\ rows' = rows
      BY <1>5 DEF Ask, NoCall, TypeOK
    <3>2. Truth(View(s), call[s].asked)' = Truth(View(s), q)
      BY <3>1 DEF Truth, View
    <3> QED
      BY <2>1, <3>1, <3>2 DEF CallInvOf, Free
  <2>2. CASE t # s
    <3>1. call'[t] = call[t] /\ possible'[t] = possible[t] /\ tx'[t] = tx[t] /\ rows' = rows
      BY <1>5, <2>2 DEF Ask, TypeOK
    <3> QED
      BY <1>i, <3>1, LeftAlone
  <2> QED
    BY <2>1, <2>2
<1>6. ASSUME NEW s \in Sessions, EnterFlight(s) PROVE CallInvOf(t)'
  <2>1. CASE t = s
    <3>1. /\ call'[s] = [call[s] EXCEPT !.pc = "revisions"]
          /\ possible' = possible /\ tx' = tx /\ rows' = rows
      BY <1>6 DEF EnterFlight, TypeOK
    <3>2. Truth(View(s), call[s].asked)' = Truth(View(s), call[s].asked)
      BY <1>t, <3>1 DEF Truth, View, Call
    <3> QED
      BY <1>6, <1>i, <1>t, <1>g, <2>1, <3>1, <3>2 DEF EnterFlight, CallInvOf, Free, Call
  <2>2. CASE t # s
    <3>1. call'[t] = call[t] /\ possible'[t] = possible[t] /\ tx'[t] = tx[t] /\ rows' = rows
      BY <1>6, <2>2 DEF EnterFlight, TypeOK
    <3> QED
      BY <1>i, <3>1, LeftAlone
  <2> QED
    BY <2>1, <2>2
<1>7. ASSUME NEW s \in Sessions, ReadRevisions(s) PROVE CallInvOf(t)'
  <2>1. CASE t = s
    <3>1. /\ call'[s] = [call[s] EXCEPT !.revision = revision, !.pc = "lookup"]
          /\ possible' = possible /\ tx' = tx /\ rows' = rows
      BY <1>7 DEF ReadRevisions, TypeOK
    <3>2. /\ call'[s].pc = "lookup" /\ call'[s].asked = call[s].asked
          /\ call'[s].missing = call[s].missing /\ call'[s].fetched = call[s].fetched
          /\ call'[s].revision = revision
      BY <1>t, <3>1 DEF Call
    <3>3. Truth(View(s), call[s].asked)' = Truth(View(s), call[s].asked)
      BY <3>1, <3>2 DEF Truth, View
    <3>4. ~tx[s].open /\ ~Free(s) /\ View(s) = rows
      BY <1>7, <1>i DEF ReadRevisions, CallInvOf, Free, TxInv, TxInvOf, View, TypeOK
    <3>5. ASSUME NEW k \in call[s].asked, revision[k.chat] \in Nat
          PROVE  \E h \in history :
                   /\ h.chat = k.chat /\ h.revision = revision[k.chat]
                   /\ [cursor |-> k, count |-> Count(k, h.visible)] \in possible[s]
      <4> DEFINE h == [chat |-> k.chat, revision |-> revision[k.chat],
                       visible |-> Visible(rows, k.chat)]
      <4>1. k \in Cursors /\ k.chat \in Chats
        BY <1>t, CursorsAssumption DEF Call
      <4>2. h \in history
        BY <3>5, <4>1 DEF HistoryInv, Known
      <4>3. [cursor |-> k, count |-> Count(k, h.visible)] \in possible[s]
        BY <1>i, <3>4 DEF CallInvOf, Truth
      <4> QED
        BY <4>2, <4>3
    <3>6. history' = history
      BY <1>7 DEF ReadRevisions
    <3> QED
      BY <1>i, <1>g, <2>1, <3>1, <3>2, <3>3, <3>4, <3>5, <3>6 DEF CallInvOf, Free
  <2>2. CASE t # s
    <3>1. call'[t] = call[t] /\ possible'[t] = possible[t] /\ tx'[t] = tx[t] /\ rows' = rows
      BY <1>7, <2>2 DEF ReadRevisions, TypeOK
    <3> QED
      BY <1>i, <3>1, LeftAlone
  <2> QED
    BY <2>1, <2>2
<1>8. ASSUME NEW s \in Sessions, LookUp(s) PROVE CallInvOf(t)'
  <2>1. CASE t = s
    <3>1. /\ call'[s].pc = "count" /\ call'[s].asked = call[s].asked
          /\ call'[s].missing \subseteq call[s].asked
          /\ call'[s].fetched = call[s].fetched
          /\ possible' = possible /\ tx' = tx /\ rows' = rows
      BY <1>8, <1>t DEF LookUp, TypeOK, Call
    <3>2. Truth(View(s), call[s].asked)' = Truth(View(s), call[s].asked)
      BY <3>1 DEF Truth, View
    <3> QED
      BY <1>8, <1>i, <1>g, <2>1, <3>1, <3>2 DEF LookUp, CallInvOf, Free
  <2>2. CASE t # s
    <3>1. call'[t] = call[t] /\ possible'[t] = possible[t] /\ tx'[t] = tx[t] /\ rows' = rows
      BY <1>8, <2>2 DEF LookUp, TypeOK
    <3> QED
      BY <1>i, <3>1, LeftAlone
  <2> QED
    BY <2>1, <2>2
<1>9. ASSUME NEW s \in Sessions, CountMisses(s) PROVE CallInvOf(t)'
  <2>1. CASE t = s
    <3>1. /\ call'[s].pc = "publish" /\ call'[s].asked = call[s].asked
          /\ call'[s].missing = call[s].missing
          /\ possible' = possible /\ tx' = tx /\ rows' = rows /\ history' = history
      BY <1>9, <1>t DEF CountMisses, TypeOK, Call
    <3>2. Truth(View(s), call[s].asked)' = Truth(View(s), call[s].asked)
      BY <3>1 DEF Truth, View
    <3>3. \A k \in Batch(s) : k \in call[s].asked /\ k.chat \in Chats
      BY <1>i, <1>t, CursorsAssumption DEF Batch, CallInvOf, Call
    <3>4. ASSUME NEW e \in call'[s].fetched
          PROVE  /\ e.revision # NoRevision => Coherent(e)
                 /\ [cursor |-> e.cursor, count |-> e.count] \in possible[s]
      <4>1. PICK k \in Batch(s) :
              e = [cursor |-> k, count |-> Count(k, Visible(View(s), k.chat)),
                   revision |-> IF tx[s].open /\ tx[s].written # {} THEN NoRevision
                                ELSE revision[k.chat]]
        BY <1>9, <1>t DEF CountMisses, TypeOK, Call
      <4>2. [cursor |-> e.cursor, count |-> e.count] \in possible[s]
        BY <1>9, <1>i, <3>3, <4>1 DEF CountMisses, CallInvOf, Free, Truth
      <4>3. ASSUME e.revision # NoRevision PROVE Coherent(e)
        <5>1. e.revision = revision[k.chat] /\ View(s) = rows
          BY <4>1, <4>3 DEF View, TxInv, TxInvOf, TypeOK
        <5>2. revision[k.chat] \in Nat
          BY <3>3, <4>3, <5>1 DEF TypeOK
        <5>3. Known(k.chat, revision[k.chat], Visible(rows, k.chat))
          BY <3>3, <5>2 DEF HistoryInv
        <5> QED
          BY <4>1, <5>1, <5>3 DEF Known, Coherent
      <4> QED
        BY <4>2, <4>3
    <3> QED
      BY <1>9, <1>i, <1>g, <2>1, <3>1, <3>2, <3>4 DEF CountMisses, CallInvOf, Free
  <2>2. CASE t # s
    <3>1. call'[t] = call[t] /\ possible'[t] = possible[t] /\ tx'[t] = tx[t] /\ rows' = rows
      BY <1>9, <2>2 DEF CountMisses, TypeOK
    <3> QED
      BY <1>i, <3>1, LeftAlone
  <2> QED
    BY <2>1, <2>2
<1>10. ASSUME NEW s \in Sessions, Publish(s) PROVE CallInvOf(t)'
  <2>1. CASE t = s
    <3>1. /\ call'[s].pc = "count" /\ call'[s].asked = call[s].asked
          /\ call'[s].missing \subseteq call[s].missing /\ call'[s].fetched = {}
          /\ possible' = possible /\ tx' = tx /\ rows' = rows
      BY <1>10, <1>t DEF Publish, TypeOK, Call
    <3>2. Truth(View(s), call[s].asked)' = Truth(View(s), call[s].asked)
      BY <3>1 DEF Truth, View
    <3> QED
      BY <1>10, <1>i, <2>1, <3>1, <3>2 DEF Publish, CallInvOf, Free
  <2>2. CASE t # s
    <3>1. call'[t] = call[t] /\ possible'[t] = possible[t] /\ tx'[t] = tx[t] /\ rows' = rows
      BY <1>10, <2>2 DEF Publish, TypeOK
    <3> QED
      BY <1>i, <3>1, LeftAlone
  <2> QED
    BY <2>1, <2>2
<1>11. ASSUME NEW s \in Sessions, Return(s) \/ Fail(s) PROVE CallInvOf(t)'
  <2>1. CASE t = s
    <3>1. call'[s] = NoCall
      BY <1>11 DEF Return, Fail, TypeOK
    <3> QED
      BY <2>1, <3>1 DEF CallInvOf, NoCall, Free
  <2>2. CASE t # s
    <3>1. call'[t] = call[t] /\ possible'[t] = possible[t] /\ tx'[t] = tx[t] /\ rows' = rows
      BY <1>11, <2>2 DEF Return, Fail, TypeOK
    <3> QED
      BY <1>i, <3>1, LeftAlone
  <2> QED
    BY <2>1, <2>2
<1>12. CASE \/ \E e \in cache : EvictCount(e)
            \/ \E k \in Cursors : EvictFlight(k)
            \/ UNCHANGED vars
  <2>1. call'[t] = call[t] /\ possible'[t] = possible[t] /\ tx'[t] = tx[t] /\ rows' = rows
    BY <1>12 DEF EvictCount, EvictFlight, vars
  <2> QED
    BY <1>i, <2>1, LeftAlone
<1> QED
  BY <1>1, <1>2, <1>3, <1>4, <1>5, <1>6, <1>7, <1>8, <1>9, <1>10, <1>11, <1>12 DEF Next

\* What a call has answered was true: a hit is the count of the revision that was
\* current when the call read it, a miss was counted during the call.
LEMMA AnswersStep ==
    ASSUME TypeOK, HistoryInv, CallInv, CacheCoherent, AnswersWereTrue, [Next]_vars
    PROVE  AnswersWereTrue'
<1>t. \A s \in Sessions : call[s] \in Call
  BY DEF TypeOK
<1>a. \A s \in Sessions : call[s].answers \subseteq possible[s]
  BY DEF AnswersWereTrue
<1> SUFFICES ASSUME NEW t \in Sessions PROVE call'[t].answers \subseteq possible'[t]
  BY DEF AnswersWereTrue
<1>1. ASSUME NEW s \in Sessions, LookUp(s)
      PROVE  call'[t].answers \subseteq possible'[t]
  <2>1. CASE t = s
    <3>1. /\ call'[s].answers = {[cursor |-> e.cursor, count |-> e.count] : e \in Hits(s)}
          /\ possible' = possible
      BY <1>1, <1>t DEF LookUp, TypeOK, Call
    <3>2. ASSUME NEW e \in Hits(s)
          PROVE  [cursor |-> e.cursor, count |-> e.count] \in possible[s]
      <4>1. /\ e \in cache /\ e.cursor \in call[s].asked
            /\ e.revision = call[s].revision[e.cursor.chat] /\ e.revision \in Nat
        BY DEF Hits, TypeOK
      <4>2. PICK g \in history : /\ g.chat = e.cursor.chat /\ g.revision = e.revision
                                 /\ e.count = Count(e.cursor, g.visible)
        BY <4>1 DEF CacheCoherent, Coherent
      <4>3. PICK h \in history :
              /\ h.chat = e.cursor.chat /\ h.revision = e.revision
              /\ [cursor |-> e.cursor, count |-> Count(e.cursor, h.visible)] \in possible[s]
        BY <1>1, <4>1 DEF LookUp, CallInv, CallInvOf
      <4>4. g.visible = h.visible
        BY <4>2, <4>3 DEF HistoryInv
      <4> QED
        BY <4>2, <4>3, <4>4
    <3> QED
      BY <2>1, <3>1, <3>2
  <2>2. CASE t # s
    BY <1>1, <1>a, <2>2 DEF LookUp, TypeOK
  <2> QED
    BY <2>1, <2>2
<1>2. ASSUME NEW s \in Sessions, Publish(s)
      PROVE  call'[t].answers \subseteq possible'[t]
  <2>1. CASE t = s
    <3>1. /\ call'[s].answers = call[s].answers \cup
               {[cursor |-> e.cursor, count |-> e.count] : e \in call[s].fetched}
          /\ possible' = possible
      BY <1>2, <1>t DEF Publish, TypeOK, Call
    <3> QED
      BY <1>a, <2>1, <3>1 DEF CallInv, CallInvOf
  <2>2. CASE t # s
    BY <1>2, <1>a, <2>2 DEF Publish, TypeOK
  <2> QED
    BY <2>1, <2>2
<1>3. ASSUME NEW s \in Sessions, Commit(s)
      PROVE  call'[t].answers \subseteq possible'[t]
  BY <1>3, <1>a DEF Commit
<1>4. ASSUME NEW s \in Sessions, NEW q \in (SUBSET Cursors) \ {{}}, Ask(s, q)
      PROVE  call'[t].answers \subseteq possible'[t]
  BY <1>4, <1>a DEF Ask, NoCall, TypeOK
<1>5. ASSUME NEW s \in Sessions, Return(s) \/ Fail(s)
      PROVE  call'[t].answers \subseteq possible'[t]
  BY <1>5, <1>a DEF Return, Fail, NoCall, TypeOK
<1>6. ASSUME NEW s \in Sessions, EnterFlight(s) \/ ReadRevisions(s) \/ CountMisses(s)
      PROVE  call'[t].answers \subseteq possible'[t]
  <2>1. CASE EnterFlight(s)
    BY <1>a, <1>t, <2>1 DEF EnterFlight, TypeOK, Call
  <2>2. CASE ReadRevisions(s)
    BY <1>a, <1>t, <2>2 DEF ReadRevisions, TypeOK, Call
  <2>3. CASE CountMisses(s)
    BY <1>a, <1>t, <2>3 DEF CountMisses, TypeOK, Call
  <2> QED
    BY <1>6, <2>1, <2>2, <2>3
<1>7. ASSUME UNCHANGED <<call, possible>> PROVE call'[t].answers \subseteq possible'[t]
  BY <1>7, <1>a
<1>8. \/ \E s \in Sessions :
          \/ LookUp(s) \/ Publish(s) \/ Commit(s) \/ Return(s) \/ Fail(s)
          \/ EnterFlight(s) \/ ReadRevisions(s) \/ CountMisses(s)
          \/ \E q \in (SUBSET Cursors) \ {{}} : Ask(s, q)
      \/ UNCHANGED <<call, possible>>
  BY DEF Next, Begin, Rollback, Write, EvictCount, EvictFlight, vars
<1> QED
  BY <1>1, <1>2, <1>3, <1>4, <1>5, <1>6, <1>7, <1>8

-----------------------------------------------------------------------------
(* The theorems.                                                           *)

\* The inductive invariant: contents are recorded under their revisions,
\* transactions keep apart, calls and cache only hold recorded counts.
THEOREM CacheInvariant == Spec => []CacheInv
<1>1. Init => CacheInv
  <2> SUFFICES ASSUME Init PROVE CacheInv
    OBVIOUS
  <2>1. HistoryInv /\ TxInv
    BY DatabaseInit
  <2>2. CallInv
    BY IdleCall DEF Init, CallInv
  <2>3. CacheCoherent /\ AnswersWereTrue
    BY DEF Init, CacheCoherent, AnswersWereTrue, NoCall
  <2> QED
    BY <2>1, <2>2, <2>3 DEF CacheInv
<1>2. TypeOK /\ CacheInv /\ [Next]_vars => CacheInv'
  BY DatabaseStep, CallStep, CacheStep, AnswersStep DEF CacheInv
<1> QED
  BY <1>1, <1>2, TypeCorrect, PTL DEF Spec

\* No count in the cache was ever wrong for its revision: not one read inside a
\* transaction, not one of a rolled-back write, not one stored late.
THEOREM CacheIsCoherent == Spec => []CacheCoherent
<1>1. CacheInv => CacheCoherent
  BY DEF CacheInv
<1> QED
  BY <1>1, CacheInvariant, PTL

\* Every count count_chat_unread_cursors collects was true during the call.
THEOREM AnswersAreTrue == Spec => []AnswersWereTrue
<1>1. CacheInv => AnswersWereTrue
  BY DEF CacheInv
<1> QED
  BY <1>1, CacheInvariant, PTL

\* A commit that changes what counts in a chat moves the chat to a larger
\* revision, and no revision ever moves back.
THEOREM RevisionsGrow == Spec => RevisionsAdvance
<1> DEFINE Advance ==
      \A c \in Chats :
        /\ Visible(rows, c)' # Visible(rows, c) => revision'[c] # revision[c]
        /\ revision'[c] # revision[c] =>
              /\ revision'[c] \in Nat
              /\ revision[c] # NoRevision => revision'[c] > revision[c]
<1>1. TypeOK /\ HistoryInv /\ TxInv /\ [Next]_vars => [Advance]_vars
  <2> SUFFICES ASSUME TypeOK, HistoryInv, TxInv, Next PROVE Advance
    OBVIOUS
  <2>1. CASE UNCHANGED <<rows, revision>>
    BY <2>1 DEF Visible
  <2>2. ASSUME NEW s \in Sessions, Commit(s) PROVE Advance
    <3> SUFFICES ASSUME NEW c \in Chats
                 PROVE  /\ Visible(rows, c)' # Visible(rows, c) => revision'[c] # revision[c]
                        /\ revision'[c] # revision[c] =>
                              /\ revision'[c] \in Nat
                              /\ revision[c] # NoRevision => revision'[c] > revision[c]
      OBVIOUS
    <3>1. CASE c \in tx[s].bumped
      <4>1. revision'[c] = tx[s].revision[c] /\ revision'[c] \in Nat
        BY <2>2, <3>1 DEF Commit, TypeOK, Transaction
      <4>2. ASSUME revision[c] # NoRevision PROVE revision'[c] > revision[c]
        <5>1. revision[c] \in Nat
          BY <4>2 DEF TypeOK
        <5>2. Known(c, revision[c], Visible(rows, c))
          BY <5>1 DEF HistoryInv
        <5>3. revision[c] < tx[s].revision[c]
          BY <3>1, <5>2 DEF Known, TxInv, TxInvOf
        <5> QED
          BY <4>1, <5>1, <5>3
      <4>3. revision'[c] # revision[c]
        <5>1. CASE revision[c] = NoRevision
          BY <4>1, <5>1, NoRevisionAssumption
        <5>2. CASE revision[c] # NoRevision
          <6>1. revision[c] \in Nat
            BY <5>2 DEF TypeOK
          <6>2. revision'[c] > revision[c]
            BY <4>2, <5>2
          <6> QED
            BY <4>1, <6>1, <6>2
        <5> QED
          BY <5>1, <5>2
      <4> QED
        BY <4>1, <4>2, <4>3
    <3>2. CASE c \notin tx[s].bumped
      <4>1. Visible(rows, c)' = Visible(rows, c)
        BY <2>2, <3>2, UnbumpedLooksTheSame DEF Commit, Visible
      <4>2. revision'[c] = revision[c]
        BY <2>2, <3>2 DEF Commit
      <4> QED
        BY <4>1, <4>2
    <3> QED
      BY <3>1, <3>2
  <2>3. UNCHANGED <<rows, revision>> \/ \E s \in Sessions : Commit(s)
    BY DEF Next, Begin, Rollback, Write, Ask, EnterFlight, ReadRevisions, LookUp,
           CountMisses, Publish, Return, Fail, EvictCount, EvictFlight
  <2> QED
    BY <2>1, <2>2, <2>3
<1>2. CacheInv => HistoryInv /\ TxInv
  BY DEF CacheInv
<1> QED
  BY <1>1, <1>2, TypeCorrect, CacheInvariant, PTL DEF Spec, RevisionsAdvance

-----------------------------------------------------------------------------
(* Completeness.                                                           *)

\* At most one of the answers or entries in S is for a cursor.
OnePerCursor(S) == \A a, b \in S : a.cursor = b.cursor => a = b

\* The cache has one count for a cursor and a revision.
CacheIsMap ==
    \A e, f \in cache : e.cursor = f.cursor /\ e.revision = f.revision => e = f

\* A call that is counting has answered, once, what is not missing; what it has
\* fetched is for the batch it is about to publish.
CollectedOf(s) ==
    call[s].pc \in {"count", "publish"} =>
        /\ OnePerCursor(call[s].answers)
        /\ \A k \in call[s].asked \ call[s].missing :
                \E a \in call[s].answers : a.cursor = k
        /\ \A a \in call[s].answers : a.cursor \notin call[s].missing
        /\ call[s].pc = "publish" =>
                /\ OnePerCursor(call[s].fetched)
                /\ \A k \in Batch(s) : \E e \in call[s].fetched : e.cursor = k
                /\ \A e \in call[s].fetched : e.cursor \in Batch(s)

CollectedInv == CacheIsMap /\ \A s \in Sessions : CollectedOf(s)

\* A call that stays as it is keeps what it has collected.
LEMMA CollectedAlone ==
    ASSUME NEW s \in Sessions, CollectedOf(s), call'[s] = call[s]
    PROVE  CollectedOf(s)'
BY DEF CollectedOf, Batch

\* A batch is a part of what is missing.
LEMMA BatchIsMissing ==
    ASSUME NEW s \in Sessions
    PROVE  /\ Batch(s) \subseteq call[s].missing
           /\ \A k \in Batch(s) : k \in call[s].missing
BY DEF Batch

\* What a look-up finds is one count for a cursor: the revisions a call reads
\* are one for each chat.
LEMMA LookUpCollects ==
    ASSUME TypeOK, CacheIsMap, NEW s \in Sessions, LookUp(s)
    PROVE  CollectedOf(s)'
<1> DEFINE found == {[cursor |-> e.cursor, count |-> e.count] : e \in Hits(s)}
<1>1. /\ call'[s].answers = found /\ call'[s].pc = "count"
      /\ call'[s].asked = call[s].asked
      /\ call'[s].missing = call[s].asked \ {e.cursor : e \in Hits(s)}
  BY DEF LookUp, TypeOK, Call
<1>2. \A e, f \in Hits(s) : e.cursor = f.cursor => e = f
  BY DEF Hits, CacheIsMap
<1>3. OnePerCursor(found)
  BY <1>2 DEF OnePerCursor
<1>4. \A k \in call'[s].asked \ call'[s].missing : \E a \in found : a.cursor = k
  <2> SUFFICES ASSUME NEW k \in call'[s].asked \ call'[s].missing
               PROVE  \E a \in found : a.cursor = k
    OBVIOUS
  <2>1. PICK e \in Hits(s) : e.cursor = k
    BY <1>1
  <2>2. [cursor |-> e.cursor, count |-> e.count] \in found
    OBVIOUS
  <2> QED
    BY <2>1, <2>2
<1>5. \A a \in found : a.cursor \notin call'[s].missing
  BY <1>1
<1> HIDE DEF found
<1> QED
  BY <1>1, <1>3, <1>4, <1>5 DEF CollectedOf

\* A statement fetches one row for each cursor of its batch.
LEMMA CountCollects ==
    ASSUME TypeOK, NEW s \in Sessions, CollectedOf(s), CountMisses(s)
    PROVE  CollectedOf(s)'
<1> DEFINE row(k) == [cursor |-> k, count |-> Count(k, Visible(View(s), k.chat)),
                      revision |-> IF tx[s].open /\ tx[s].written # {} THEN NoRevision
                                   ELSE revision[k.chat]]
<1>1. /\ call'[s].fetched = {row(k) : k \in Batch(s)} /\ call'[s].pc = "publish"
      /\ call'[s].asked = call[s].asked /\ call'[s].missing = call[s].missing
      /\ call'[s].answers = call[s].answers /\ call[s].pc = "count"
  BY DEF CountMisses, TypeOK, Call
<1>2. Batch(s)' = Batch(s)
  BY <1>1 DEF Batch
<1>3. \A k : row(k).cursor = k
  OBVIOUS
<1> HIDE DEF row
<1>4. OnePerCursor(call'[s].fetched)
  BY <1>1, <1>3 DEF OnePerCursor
<1>5. /\ \A k \in Batch(s) : \E e \in call'[s].fetched : e.cursor = k
      /\ \A e \in call'[s].fetched : e.cursor \in Batch(s)
  BY <1>1, <1>3
<1>6. OnePerCursor(call'[s].answers)
  BY <1>1 DEF CollectedOf
<1> QED
  BY <1>1, <1>2, <1>4, <1>5, <1>6 DEF CollectedOf

\* The rows of a batch become the answers to it.
LEMMA PublishCollects ==
    ASSUME TypeOK, NEW s \in Sessions, CollectedOf(s), Publish(s)
    PROVE  CollectedOf(s)'
<1> DEFINE added == {[cursor |-> e.cursor, count |-> e.count] : e \in call[s].fetched}
<1>1. /\ call'[s].answers = call[s].answers \cup added /\ call'[s].pc = "count"
      /\ call'[s].asked = call[s].asked /\ call'[s].missing = call[s].missing \ Batch(s)
      /\ call[s].pc = "publish"
  BY DEF Publish, TypeOK, Call
<1>2. /\ OnePerCursor(call[s].answers)
      /\ \A k \in call[s].asked \ call[s].missing : \E a \in call[s].answers : a.cursor = k
      /\ \A a \in call[s].answers : a.cursor \notin call[s].missing
      /\ OnePerCursor(call[s].fetched)
      /\ \A k \in Batch(s) : \E e \in call[s].fetched : e.cursor = k
      /\ \A e \in call[s].fetched : e.cursor \in Batch(s)
  BY <1>1 DEF CollectedOf
<1>3. /\ \A a \in added : a.cursor \in Batch(s)
      /\ \A k \in Batch(s) : \E a \in added : a.cursor = k
      /\ OnePerCursor(added)
  <2>1. \A a \in added : a.cursor \in Batch(s)
    BY <1>2
  <2>2. ASSUME NEW k \in Batch(s) PROVE \E a \in added : a.cursor = k
    <3>1. PICK e \in call[s].fetched : e.cursor = k
      BY <1>2
    <3>2. [cursor |-> e.cursor, count |-> e.count] \in added
      OBVIOUS
    <3> QED
      BY <3>1, <3>2
  <2>3. OnePerCursor(added)
    BY <1>2 DEF OnePerCursor
  <2> QED
    BY <2>1, <2>2, <2>3
<1> HIDE DEF added
<1>4. OnePerCursor(call[s].answers \cup added)
  BY <1>2, <1>3, BatchIsMissing DEF OnePerCursor
<1>5. \A k \in call'[s].asked \ call'[s].missing :
            \E a \in call[s].answers \cup added : a.cursor = k
  BY <1>1, <1>2, <1>3
<1>6. \A a \in call[s].answers \cup added : a.cursor \notin call'[s].missing
  BY <1>1, <1>2, <1>3
<1> QED
  BY <1>1, <1>4, <1>5, <1>6 DEF CollectedOf

\* What is published replaces what the cache had for the same cursor and
\* revision.
LEMMA PublishKeepsMap ==
    ASSUME TypeOK, CacheIsMap, NEW s \in Sessions, CollectedOf(s), Publish(s)
    PROVE  CacheIsMap'
<1>1. \A e, f \in Published(s) : e.cursor = f.cursor => e = f
  BY DEF Publish, Published, CollectedOf, OnePerCursor
<1> DEFINE kept == {e \in cache : \A f \in Published(s) :
                                    <<e.cursor, e.revision>> # <<f.cursor, f.revision>>}
<1>2. cache' = kept \cup Published(s)
  BY DEF Publish
<1>3. \A e \in kept, f \in Published(s) : ~(e.cursor = f.cursor /\ e.revision = f.revision)
  OBVIOUS
<1>4. \A e, f \in kept : e.cursor = f.cursor /\ e.revision = f.revision => e = f
  BY DEF CacheIsMap
<1> HIDE DEF kept
<1> QED
  BY <1>1, <1>2, <1>3, <1>4 DEF CacheIsMap

\* Every step keeps what the calls have collected.
LEMMA CollectedStep ==
    ASSUME TypeOK, CollectedInv, [Next]_vars
    PROVE  CollectedInv'
<1>1. CacheIsMap'
  <2>1. CASE UNCHANGED cache
    BY <2>1 DEF CollectedInv, CacheIsMap
  <2>2. ASSUME NEW s \in Sessions, Publish(s) PROVE CacheIsMap'
    BY <2>2, PublishKeepsMap DEF CollectedInv
  <2>3. ASSUME NEW e \in cache, EvictCount(e) PROVE CacheIsMap'
    BY <2>3 DEF EvictCount, CollectedInv, CacheIsMap
  <2>4. \/ UNCHANGED cache \/ \E s \in Sessions : Publish(s)
        \/ \E e \in cache : EvictCount(e)
    BY DEF Next, Begin, Commit, Rollback, Write, Ask, EnterFlight, ReadRevisions, LookUp,
           CountMisses, Return, Fail, EvictFlight, vars
  <2> QED
    BY <2>1, <2>2, <2>3, <2>4
<1> SUFFICES ASSUME NEW t \in Sessions PROVE CollectedOf(t)'
  BY <1>1 DEF CollectedInv
<1>i. CollectedOf(t)
  BY DEF CollectedInv
<1>2. ASSUME NEW s \in Sessions, s # t,
             \/ EnterFlight(s) \/ ReadRevisions(s) \/ LookUp(s) \/ CountMisses(s)
             \/ Publish(s) \/ Return(s) \/ Fail(s)
             \/ \E q \in (SUBSET Cursors) \ {{}} : Ask(s, q)
      PROVE  call'[t] = call[t]
  BY <1>2 DEF EnterFlight, ReadRevisions, LookUp, CountMisses, Publish, Return, Fail, Ask,
              TypeOK
<1>3. CASE call'[t] = call[t]
  BY <1>3, <1>i, CollectedAlone
<1>4. ASSUME NEW q \in (SUBSET Cursors) \ {{}}, Ask(t, q) PROVE CollectedOf(t)'
  <2>1. call'[t].answers = {} /\ call'[t].asked = q /\ call'[t].pc # "publish"
    BY <1>4 DEF Ask, NoCall, TypeOK
  <2>2. call'[t].pc = "count" => call'[t].missing = q
    BY <1>4 DEF Ask, NoCall, TypeOK
  <2> QED
    BY <2>1, <2>2 DEF CollectedOf, OnePerCursor
<1>5. CASE EnterFlight(t) \/ ReadRevisions(t)
  <2>1. call'[t].pc \notin {"count", "publish"}
    <3>1. CASE EnterFlight(t)
      BY <3>1 DEF EnterFlight, TypeOK, Call
    <3>2. CASE ReadRevisions(t)
      BY <3>2 DEF ReadRevisions, TypeOK, Call
    <3> QED
      BY <1>5, <3>1, <3>2
  <2> QED
    BY <2>1 DEF CollectedOf
<1>6. CASE Return(t) \/ Fail(t)
  <2>1. call'[t] = NoCall
    BY <1>6 DEF Return, Fail, TypeOK
  <2> QED
    BY <2>1 DEF CollectedOf, NoCall
<1>7. CASE LookUp(t)
  BY <1>7, LookUpCollects DEF CollectedInv
<1>8. CASE CountMisses(t)
  BY <1>8, <1>i, CountCollects
<1>9. CASE Publish(t)
  BY <1>9, <1>i, PublishCollects
<1>10. \/ call' = call
       \/ \E s \in Sessions :
            \/ EnterFlight(s) \/ ReadRevisions(s) \/ LookUp(s) \/ CountMisses(s)
            \/ Publish(s) \/ Return(s) \/ Fail(s)
            \/ \E q \in (SUBSET Cursors) \ {{}} : Ask(s, q)
  BY DEF Next, Begin, Commit, Rollback, Write, EvictCount, EvictFlight, vars
<1> QED
  BY <1>2, <1>3, <1>4, <1>5, <1>6, <1>7, <1>8, <1>9, <1>10

\* No call has begun.
LEMMA CollectedInit == Init => CollectedInv
BY DEF Init, NoCall, CollectedInv, CacheIsMap, CollectedOf

\* A call that returns has one answer for each cursor it was asked for, whatever
\* came from the cache and whatever from the two statements
\* (count_chat_unread_cursors).
THEOREM AnswersAreComplete == Spec => []AnswersComplete
<1>1. Init => CollectedInv
  BY CollectedInit
<1>2. TypeOK /\ CollectedInv /\ [Next]_vars => CollectedInv'
  BY CollectedStep
<1>3. CollectedInv => AnswersComplete
  <2> SUFFICES ASSUME CollectedInv, NEW s \in Sessions, Answered(s),
                      NEW k \in call[s].asked
               PROVE  \E a \in call[s].answers :
                        /\ a.cursor = k
                        /\ \A b \in call[s].answers : b.cursor = k => b = a
    BY DEF AnswersComplete
  <2>1. /\ OnePerCursor(call[s].answers)
        /\ \E a \in call[s].answers : a.cursor = k
    BY DEF CollectedInv, CollectedOf, Answered
  <2> QED
    BY <2>1 DEF OnePerCursor
<1> QED
  BY <1>1, <1>2, <1>3, TypeCorrect, PTL DEF Spec

=============================================================================
